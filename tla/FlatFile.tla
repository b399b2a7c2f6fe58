------------------------------ MODULE FlatFile ------------------------------
(***************************************************************************)
(* One seekable file, as the writers of this crate see their output: bytes, *)
(* a position, writes that may be short, and seeks within what was written. *)
(* The volume sinks of ZIP and 7z promise to be such a file whatever pieces *)
(* they cut it into; ZipVolumes and SevenZVolumes are shown to implement it.*)
(***************************************************************************)
EXTENDS Naturals, Sequences, SequencesExt

CONSTANTS
  Byte,       \* the bytes a file may hold
  MaxWrite    \* bound on the length of one write

VARIABLES
  data,       \* everything written so far
  pos         \* where the next write goes

flat == <<data, pos>>

(* s over f from offset at, extending f when it reaches past the end.       *)
Overlay(f, at, s) ==
  [i \in 1 .. (IF at + Len(s) > Len(f) THEN at + Len(s) ELSE Len(f)) |->
     IF at < i /\ i <= at + Len(s) THEN s[i - at] ELSE f[i]]

(* A new file, which may start with a signature.                            *)
Create ==
  /\ data' \in SeqOf(Byte, 1)
  /\ pos' = Len(data')

Write(buf) ==
  \E n \in 1 .. Len(buf) :
    /\ data' = Overlay(data, pos, SubSeq(buf, 1, n))
    /\ pos' = pos + n

Seek ==
  /\ pos' \in 0 .. Len(data)
  /\ UNCHANGED data

FlatInit == data = <<>> /\ pos = 0

FlatNext ==
  \/ Create
  \/ \E buf \in SeqOf(Byte, MaxWrite) : Write(buf)
  \/ Seek

FlatSpec == FlatInit /\ [][FlatNext]_flat
=============================================================================
