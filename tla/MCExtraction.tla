---------------------------- MODULE MCExtraction ----------------------------
(***************************************************************************)
(* Inputs for the three extractions: archives of up to three entries onto   *)
(* every kind of destination, and the choice of names on a small one.       *)
(***************************************************************************)
EXTENDS Extraction, TLC

A == <<"a">>
AA == <<"a", "a">>
AB == <<"a", "b">>
B == <<"b">>
MCPaths == {A, AA, AB, B}

Member(name, kind) == [name |-> name, kind |-> kind, safe |-> TRUE, escapes |-> FALSE]
Unsafe == [Member(B, "file") EXCEPT !.safe = FALSE]
Outside == [Member(B, "link") EXCEPT !.escapes = TRUE]
Hard(name, to) == Member(name, "hard") @@ [to |-> to, to_safe |-> TRUE]
HardBad == [Hard(AB, B) EXCEPT !.to_safe = FALSE]
In(folder, member) == member @@ [folder |-> folder]

Lists(n, S) == UNION {[1 .. k -> S] : k \in 0 .. n}

Tree(f) == [p \in MCPaths |-> IF p \in DOMAIN f THEN [kind |-> f[p], by |-> 0] ELSE Missing]
Empty == Tree(<<>>)
FileAtA == Tree(A :> "file")
LinkAtA == Tree(A :> "link" @@ B :> "file")
FileInA == Tree(A :> "dir" @@ AB :> "file")
DirsInA == Tree(A :> "dir" @@ AA :> "dir" @@ B :> "dir")
FileAtAA == Tree(A :> "dir" @@ AA :> "file")
MCTrees == {Empty, FileAtA, LinkAtA, FileInA, DirsInA}

Options(overwrite, restore) ==
  [overwrite |-> overwrite, unsafe |-> "refuse", symlinks |-> TRUE, restore |-> restore,
   strip |-> 0, strip_root |-> FALSE, selection |-> {}, linked |-> FALSE]
Plain == {Options(o, TRUE) : o \in Overwrite}
Linked == {[Options("always", TRUE) EXCEPT !.linked = TRUE]}
Naming(symlinks, strips, roots, selections) ==
  [overwrite : Overwrite, unsafe : {"refuse", "skip"}, symlinks : symlinks, restore : {FALSE},
   strip : strips, strip_root : roots, selection : selections, linked : {FALSE}]

Given(f, archives, destinations, choices) ==
  [format |-> f, archives |-> archives, destinations |-> destinations, choices |-> choices]

ZipMembers == {Member(A, "dir"), Member(A, "file"), Member(AA, "dir"), Member(AA, "file"), Member(AB, "file"),
               Member(B, "link"), Member(AB, "link")}
ZipNames == {Unsafe, Outside, Member(A, "dir"), Member(AB, "file"), Member(AB, "link"), Member(B, "file")}
ZipInputs ==
  {Given("zip", Lists(3, ZipMembers), MCTrees, Plain),
   Given("zip", Lists(2, ZipMembers), MCTrees, {Options("always", FALSE)}),
   Given("zip", Lists(3, ZipNames), {Empty}, Naming({TRUE}, {0, 1}, {FALSE}, {{}, {AB}}) \cup Linked),
   Given("zip", Lists(2, ZipNames), {Empty}, Naming(BOOLEAN, {0, 1}, BOOLEAN, {{}, {A}}))}

TarMembers == {Member(A, "dir"), Member(A, "file"), Member(AA, "dir"), Member(AA, "link"), Member(AB, "file"),
               Member(B, "file"), Hard(B, AB), Hard(AB, B)}
TarNames == {Unsafe, Outside, HardBad, Hard(AB, AA), Member(<<>>, "root"), Member(AB, "link"),
             Member(A, "special"), Member(AB, "file"), Member(AA, "file")}
TarHardLinks == {Member(B, "file"), Hard(A, B), Hard(AB, B), Hard(B, AB)}   \* one makes a directory of another
TarInputs ==
  {Given("tar", Lists(3, TarMembers), MCTrees, Plain),
   Given("tar", Lists(3, TarNames), {Empty}, Naming({TRUE}, {0}, {FALSE}, {{}})),
   Given("tar", Lists(2, TarNames), {Empty, FileAtAA}, Naming(BOOLEAN, {0, 1}, BOOLEAN, {{}, {A}}) \cup Linked),
   Given("tar", Lists(3, TarHardLinks), {Empty, LinkAtA}, {Options("always", TRUE)})}

SevenZMembers == {In(0, Member(A, "dir")), In(0, Member(A, "anti")), In(0, Member(AA, "file")), In(1, Member(AA, "file")),
                  In(1, Member(AB, "link")), In(2, Member(B, "file")), In(1, Member(B, "file")), In(0, Member(AB, "anti"))}
SevenZNames == {In(1, Unsafe), In(1, Outside), In(0, Member(AB, "opaque")), In(0, Member(AA, "link")),
                In(1, Member(AB, "file")), In(0, Member(AB, "anti")), In(1, Member(AA, "file"))}
SevenZLeads == {In(1, Member(A, "link")), In(0, Member(AB, "anti")), In(1, Member(B, "file"))}   \* a deletion through a link
SevenZInputs ==
  {Given("7z", Lists(3, SevenZMembers), MCTrees, Plain),
   Given("7z", Lists(3, SevenZNames), {Empty}, Naming({TRUE}, {0}, {FALSE}, {{}, {AB}}) \cup Linked),
   Given("7z", Lists(2, SevenZNames), {Empty, FileInA}, Naming(BOOLEAN, {0, 1}, {FALSE}, {{}, {AB}})),
   Given("7z", Lists(3, SevenZLeads), {Empty}, {Options("always", TRUE)})}

MCInputs == ZipInputs \cup TarInputs \cup SevenZInputs

(* Inputs for one thing the documentation says.                             *)
FileInTheWay == {Given("zip", Lists(2, ZipMembers), {FileAtA, FileInA}, Plain)}
LinksToNothing == {Given("tar", Lists(2, {Hard(B, AB), Hard(AB, B), Member(AA, "file")}), {FileInA, LinkAtA}, Plain)}
=============================================================================
