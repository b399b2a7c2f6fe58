----------------------------- MODULE MCArchives -----------------------------
(***************************************************************************)
(* For ZIP, sizes on both sides of the limit of a field, with and without  *)
(* what encryption adds to them.  For tar, names and links that fit, that  *)
(* can be split and that cannot; numbers out of a field's reach; and data  *)
(* with holes at either end, in the middle and throughout.  For 7z, every  *)
(* kind of entry, with and without data and times.                         *)
(***************************************************************************)
EXTENDS Archives, Sequences

Content(c, u) == [compressed |-> c, uncompressed |-> u]
MCContents == {Content(0, 0), Content(40, 80), Content(243, 254), Content(254, 255), Content(30, 300)}

Entry(kind, name, link, data, mtime, owner) ==
  [kind |-> kind, name |-> name, link |-> link, data |-> data, mtime |-> mtime, owner |-> owner]
File(name, data) == Entry("regular", name, <<>>, data, 0, <<>>)
Zeros(n) == [i \in 1 .. n |-> 0]
MCEntries ==
  {Entry("directory", <<"c", "c">>, <<>>, <<>>, -100, <<"c", "c">>),
   Entry("hard link", <<"c", "c", "c">>, <<"c", "/", "c", "c">>, <<>>, 100, <<"c">>),
   File(<<"c", "/", "c">>, <<1>>), File(<<"c", "c", "/", "c", "c", "c">>, <<1, 0, 1>>),
   File(<<"c">>, Zeros(8) \o <<1, 1>>), File(<<"c", "c", "c">>, <<1>> \o Zeros(12) \o <<1, 0, 1>>),
   File(<<"c">>, <<0, 1>> \o Zeros(7)), File(<<"c">>, Zeros(7))}

Item(kind, size, mtime) == [kind |-> kind, size |-> size, mtime |-> mtime]
MCItems ==
  {Item("directory", 0, -1), Item("anti", 0, 5), Item("file", 0, 300), Item("file", 1, -1), Item("file", 3, 70)}
=============================================================================
