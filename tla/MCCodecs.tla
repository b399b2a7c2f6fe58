------------------------------ MODULE MCCodecs ------------------------------
EXTENDS Codecs

MCFlags == <<"extra", "name">>
MCPatterns == {<<1, 1, 1, 1, 2>>, <<1, 2, 1, 2, 2>>}

(* Programs in which what looks like a call stands at every place, also     *)
(* across two fills, at the end and within another.                         *)
Words == {<<1, 0, 0, 2>>, <<3, 3, 3, 2>>, <<2, 1, 3, 0>>}
Halves == {<<1, 0>>, <<2, 1>>, <<3, 2>>, <<0, 3>>}
MCPrograms ==
  [delta |-> [1 .. 6 -> {1, 3}],
   x86 |-> {<<2>> \o s : s \in [1 .. 6 -> {1, 2, 3}]} \cup [1 .. 5 -> {2, 3}],
   arm |-> {a \o b \o c : a, b \in Words, c \in {<<>>, <<2>>, <<3, 2>>}} \cup {a \o <<2>> : a \in Words},
   thumb |-> {a \o b \o c : a, b, c \in Halves}]

(* Deflate with seven bytes that there are: of the lengths of matches one   *)
(* symbol stands for two, of the distances two symbols do.                  *)
MCLengthBase == <<2, 4>>
MCLengthExtra == <<1, 0>>
MCDistBase == <<1, 2, 3, 5>>
MCDistExtra == <<0, 0, 1, 1>>
MCRepeat == <<2, 3>>
MCMany == <<4, 7>>
MCOrder == <<5, 6, 7, 0, 3, 2, 4, 1>>
MCTexts ==
  {<<>>, <<5>>, <<0, 1, 0, 1, 0, 1>>, <<0, 0, 0, 0, 0, 0, 0, 0, 0, 0, 0, 0, 0, 0>>,
   <<0, 1, 4, 1, 2, 3, 0, 1, 2, 3>>,                 \* a longer match at the next byte
   <<0, 1, 2, 3, 4, 5, 6, 0, 1, 2>>,                 \* one that is too far
   <<0, 1, 2, 3, 4, 5, 6, 0, 1, 2, 0, 1>>,           \* none in the part that is tried
   <<0, 1, 0, 1, 1, 0, 1, 1, 0, 6, 6, 6, 0, 1>>}

(* LZMA with bytes of two bits.  The long texts have matches of every       *)
(* length and distance there is, of each of the last four distances, put    *)
(* off, cut short and passed over; a dictionary holds all or little of one. *)
LongTexts ==
  {<<3, 3, 3, 1, 3, 3, 3, 3, 1, 3, 3, 1, 3, 3, 1, 2, 1, 3, 3, 3, 3, 1, 3, 3, 1, 3>>,
   <<2, 2, 2, 2, 1, 2, 3, 0, 0, 1, 3, 0, 3, 0, 2, 3, 0, 0, 0, 1, 3, 0, 0, 0, 0, 0, 0, 0, 3, 0, 2, 3>>,
   <<3, 2, 3, 2, 3, 0, 3, 2, 3, 0, 3, 2, 1, 3, 2, 3, 1, 2, 3, 3, 3, 0, 3, 2>>,
   <<0, 0, 0, 0, 0, 0, 0, 0, 0, 0, 0, 0, 0, 0, 0, 0>>}
ShortTexts == [1 .. 5 -> 0 .. 3] \cup {<<>>, <<2>>, <<0, 0, 0, 0>>, <<0, 1, 0, 1>>, <<3, 0, 3, 3>>}
MCJobs ==
  [text : LongTexts, mode : {"lzip", "whole", "lzma2"}, dict : {4, 16}, foreign : BOOLEAN]
  \cup [text : ShortTexts, mode : {"whole"}, dict : {4}, foreign : {FALSE}]

(* Zstandard alone, with checksums, read by a caller that goes on until it  *)
(* is told of an end or of an error.                                        *)
ZstdInit == Zs!ZInit /\ writer.sums
Keeps == last \in {"ready", "data"} /\ Call
ZstdSpec == ZstdInit /\ [][Next]_vars /\ WF_vars(Reading) /\ WF_vars(Keeps)

(* A stream whose end has been cut off is not read quietly: some call of    *)
(* read fails.                                                              *)
CutIsReported == damage = "cut" ~> refused
=============================================================================
