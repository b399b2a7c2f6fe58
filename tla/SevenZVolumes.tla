---------------------------- MODULE SevenZVolumes ----------------------------
(***************************************************************************)
(* sevenz::volumes and sevenz::source::ArchiveSource: the sink that cuts a  *)
(* 7z into name.7z.001, name.7z.002, ..., and the search that decides what  *)
(* a name stands for.  Unlike a ZIP, no piece has the archive's own name,   *)
(* and finish removes the pieces of a longer set.  Archives are created one *)
(* after the other over one name, in pieces or plain, in a directory where  *)
(* anything may have been left; a creation may fail half way.               *)
(***************************************************************************)
EXTENDS Naturals, Sequences, FiniteSets, FiniteSetsExt, SequencesExt

CONSTANTS
  Data,         \* bytes of an archive
  VolumeSizes,  \* the sizes a creation may ask for
  Left,         \* names of files that may be there before the first creation
  MaxWrite,     \* bound on one write
  MaxLen,       \* bound on the bytes of one archive
  MaxArchives   \* bound on the archives created over the name

(* The archive's own name is 0, name.7z.NNN is NNN.                         *)
Base == 0

VARIABLES
  files,        \* the directory: content by name
  phase,        \* "none", "open", "split", "plain"
  volume_size, lengths, position,   \* the VolumeSink; volume i is name i
  archives      \* creations so far

sink == <<volume_size, lengths, position>>
vars == <<files, phase, sink, archives>>

Volumes == Len(lengths)
TotalLen == MapThenSumSet(LAMBDA i : lengths[i], DOMAIN lengths)
StartOf(v) == MapThenSumSet(LAMBDA i : lengths[i], 1 .. v - 1)

(* The loop of write: the first volume that ends after the offset, or the   *)
(* last.                                                                    *)
VolumeOf(offset) ==
  CHOOSE v \in 1 .. Volumes :
    /\ v = Volumes \/ offset < StartOf(v) + lengths[v]
    /\ \A u \in 1 .. v - 1 : offset >= StartOf(u) + lengths[u]

Overlay(f, at, s) ==
  [i \in 1 .. Max({at + Len(s), Len(f)}) |-> IF at < i /\ i <= at + Len(s) THEN s[i - at] ELSE f[i]]

(* File::create under a name of the directory, and what is then written.   *)
Put(dir, name, content) ==
  [n \in DOMAIN dir \cup {name} |-> IF n = name THEN content ELSE dir[n]]

TypeOK ==
  /\ \A n \in DOMAIN files : n \in Nat /\ files[n] \in Seq(Data)
  /\ phase \in {"none", "open", "split", "plain"}
  /\ volume_size \in VolumeSizes
  /\ lengths \in Seq(Nat)
  /\ position \in Nat
  /\ phase = "open" => position <= TotalLen
  /\ archives \in 0 .. MaxArchives

Init ==
  /\ \E D \in SUBSET Left : files = [n \in D |-> <<>>]
  /\ phase = "none"
  /\ volume_size \in VolumeSizes
  /\ lengths = <<>> /\ position = 0
  /\ archives = 0

-----------------------------------------------------------------------------
MayCreate == phase \in {"none", "split", "plain"} /\ archives < MaxArchives

(* VolumeSink::create removes a plain archive of the name, which would      *)
(* shadow the set.                                                          *)
CreateSplit ==
  /\ MayCreate
  /\ volume_size' \in VolumeSizes
  /\ files' = Put([n \in DOMAIN files \ {Base} |-> files[n]], 1, <<>>)
  /\ lengths' = <<0>> /\ position' = 0
  /\ phase' = "open"
  /\ archives' = archives + 1

CreatePlain ==
  /\ MayCreate
  /\ \E c \in SeqOf(Data, MaxWrite) : c # <<>> /\ files' = Put(files, Base, c)
  /\ phase' = "plain"
  /\ lengths' = <<>> /\ position' = 0
  /\ archives' = archives + 1
  /\ UNCHANGED volume_size

(* Mutant: file_for creates the volume it reopens.                          *)
WriteInPlaceTruncating(buf) ==
  /\ phase = "open" /\ buf # <<>> /\ position < TotalLen
  /\ LET v == VolumeOf(position)
         local == position - StartOf(v)
         room == Min({lengths[v] - local, Len(buf)})
         old == IF v = Volumes THEN files[v] ELSE [i \in 1 .. local |-> files[v][i]]
     IN  \E n \in 1 .. room :
           /\ files' = [files EXCEPT ![v] = Overlay(old, local, SubSeq(buf, 1, n))]
           /\ position' = position + n
  /\ UNCHANGED <<phase, volume_size, lengths, archives>>

(* write before the end: within the volume that holds the position.         *)
WriteInPlace(buf) ==
  /\ phase = "open" /\ buf # <<>> /\ position < TotalLen
  /\ LET v == VolumeOf(position)
         local == position - StartOf(v)
         room == Min({lengths[v] - local, Len(buf)})
     IN  \E n \in 1 .. room :
           /\ files' = [files EXCEPT ![v] = Overlay(@, local, SubSeq(buf, 1, n))]
           /\ position' = position + n
  /\ UNCHANGED <<phase, volume_size, lengths, archives>>

(* Mutant: `>` where a volume is full.                                      *)
WriteAtEndOver(buf) ==
  /\ phase = "open" /\ buf # <<>> /\ position = TotalLen
  /\ position + Len(buf) <= MaxLen
  /\ LET sizes == IF Last(lengths) > volume_size THEN Append(lengths, 0) ELSE lengths
         v == Len(sizes)
         old == IF v = Volumes THEN files[v] ELSE <<>>
     IN  \E n \in 1 .. Len(buf) :
           /\ files' = Put(files, v, Overlay(old, sizes[v], SubSeq(buf, 1, n)))
           /\ lengths' = [sizes EXCEPT ![v] = @ + n]
           /\ position' = position + n
  /\ UNCHANGED <<phase, volume_size, archives>>

(* write at the end: a full volume is followed by a new, empty one, and the *)
(* write stops at the end of a volume.                                      *)
WriteAtEnd(buf) ==
  /\ phase = "open" /\ buf # <<>> /\ position = TotalLen
  /\ position + Len(buf) <= MaxLen
  /\ LET sizes == IF Last(lengths) >= volume_size THEN Append(lengths, 0) ELSE lengths
         v == Len(sizes)
         old == IF v = Volumes THEN files[v] ELSE <<>>
         room == Min({volume_size - sizes[v], Len(buf)})
     IN  \E n \in 1 .. room :
           /\ files' = Put(files, v, Overlay(old, sizes[v], SubSeq(buf, 1, n)))
           /\ lengths' = [sizes EXCEPT ![v] = @ + n]
           /\ position' = position + n
  /\ UNCHANGED <<phase, volume_size, archives>>

(* Mutant: seek lets the position pass the end.                             *)
SeekAnywhere(to) ==
  /\ phase = "open"
  /\ position' = to
  /\ UNCHANGED <<files, phase, volume_size, lengths, archives>>

(* A seek past the end is an error, which ends the creation.                *)
Seek(to) ==
  /\ phase = "open" /\ to <= TotalLen
  /\ position' = to
  /\ UNCHANGED <<files, phase, volume_size, lengths, archives>>

(* Mutant: the pieces of a longer set are removed up to the first gap.      *)
FinishToGap ==
  /\ phase = "open"
  /\ files' = [n \in {n \in DOMAIN files : n <= Volumes \/ \E m \in Volumes + 1 .. n : m \notin DOMAIN files}
                 |-> files[n]]
  /\ phase' = "split"
  /\ UNCHANGED <<sink, archives>>

(* finish removes every numbered piece past the last.                       *)
Finish ==
  /\ phase = "open"
  /\ files' = [n \in {n \in DOMAIN files : n <= Volumes} |-> files[n]]
  /\ phase' = "split"
  /\ UNCHANGED <<sink, archives>>

Abandon ==
  /\ phase = "open"
  /\ phase' = "none"
  /\ lengths' = <<>> /\ position' = 0
  /\ UNCHANGED <<files, volume_size, archives>>

Next ==
  \/ CreateSplit \/ CreatePlain
  \/ \E buf \in SeqOf(Data, MaxWrite) : WriteAtEnd(buf) \/ WriteInPlace(buf)
  \/ \E to \in 0 .. MaxLen : Seek(to)
  \/ Finish
  \/ Abandon

Spec == Init /\ [][Next]_vars

-----------------------------------------------------------------------------
(* numbered_beside, and VolumeSet::discover: the numbered pieces have to be *)
(* without a gap.                                                           *)
Numbered == DOMAIN files \ {Base}

Failed == [kind |-> "error", pieces |-> <<>>]

Discover ==
  LET last == Max(Numbered)
  IN  IF 1 .. last \subseteq Numbered
      THEN [kind |-> "set", pieces |-> [i \in 1 .. last |-> i]]
      ELSE Failed

(* ArchiveSource::open: a file of that very name goes before a set, unless  *)
(* the name is that of a piece.                                             *)
Open(name) ==
  IF name = Base /\ Base \in DOMAIN files THEN [kind |-> "single", pieces |-> <<Base>>]
  ELSE IF 1 \in DOMAIN files THEN Discover
  ELSE IF name \in DOMAIN files THEN [kind |-> "single", pieces |-> <<name>>]
  ELSE Failed

(* VolumeSet::locate.                                                       *)
VolumeAt(offset) == Max({1} \cup {v \in 1 .. Volumes : StartOf(v) <= offset})

(* A SectionReader over part of one file.                                   *)
Section(file, start, len) == SubSeq(file, start + 1, Min({start + len, Len(file)}))

(* VolumeSource::open and the SpanReader: section after section, each as    *)
(* far as its volume or the range goes.                                     *)
Span(start, len) ==
  LET rest[at \in start .. start + len] ==
        LET v == VolumeAt(at)
            take == Min({lengths[v] - (at - StartOf(v)), start + len - at})
        IN  IF take = 0 THEN <<>> ELSE Section(files[v], at - StartOf(v), take) \o rest[at + take]
  IN  rest[start]

-----------------------------------------------------------------------------
Content ==
  IF phase \in {"open", "split"} THEN FlattenSeq([i \in 1 .. Volumes |-> files[i]]) ELSE <<>>

(* What the sink believes of its volumes is what is on disk, each volume is *)
(* within the size asked for, and every volume but the last is full.        *)
VolumesAreFull ==
  phase \in {"open", "split"} =>
    \A i \in 1 .. Volumes :
      /\ i \in DOMAIN files /\ lengths[i] = Len(files[i])
      /\ lengths[i] <= volume_size
      /\ i < Volumes => lengths[i] = volume_size

(* Whatever was in the directory, a finished set is what the archive's name *)
(* and the name of each piece lead to, complete and with nothing after it,  *)
(* and each range of it reads as it was written; and a plain archive is     *)
(* what its name leads to, whatever set is beside it.                       *)
SetReadsBack ==
  /\ phase = "split" =>
       /\ \A name \in 0 .. Volumes : Open(name) = [kind |-> "set", pieces |-> [i \in 1 .. Volumes |-> i]]
       /\ \A start \in 0 .. TotalLen : \A len \in 0 .. TotalLen - start :
            Span(start, len) = SubSeq(Content, start + 1, start + len)
  /\ phase = "plain" => Open(Base) = [kind |-> "single", pieces |-> <<Base>>]
=============================================================================
