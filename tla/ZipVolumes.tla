----------------------------- MODULE ZipVolumes -----------------------------
(***************************************************************************)
(* zip::volumes: the sink that cuts a ZIP into name.z01, name.z02, ... with *)
(* the last piece renamed to name.zip, and the search that finds the pieces *)
(* again.  Archives are created one after the other over the same name, in  *)
(* pieces or plain, and a creation may fail half way; what each one leaves  *)
(* in the directory is what the next search sees.                           *)
(*                                                                          *)
(* A byte stands for any run of bytes; Signature and Marker for the four    *)
(* bytes of SPANNING_SIGNATURE and of TEMP_SPANNING_MARKER.                 *)
(***************************************************************************)
EXTENDS Naturals, Sequences, FiniteSets, FiniteSetsExt, SequencesExt

CONSTANTS
  Data,         \* bytes that are neither of the two below
  Signature, Marker,
  VolumeSizes,  \* the sizes a creation may ask for
  BaseIsZip,    \* whether the archive's extension is .zip
  MaxWrite,     \* bound on one write
  MaxLen,       \* bound on the bytes of one archive
  MaxArchives   \* bound on the archives created over the name

Byte == Data \cup {Signature, Marker}

(* The file under the archive's own name is 0, .zNN is NN.                  *)
Base == 0

VARIABLES
  files,        \* the directory: content by name
  phase,        \* "none", "open", "marking", "closing", "split", "plain"
  volume_size, starts, lengths, position,   \* the VolumeSink
  paths,        \* what finish returned
  record,       \* the record begun last: its length and what is still to come of it
  archives      \* creations so far

sink == <<volume_size, starts, lengths, position, record>>
vars == <<files, phase, sink, paths, archives>>

Volumes == Len(starts)
TotalLen == IF starts = <<>> THEN 0 ELSE Last(starts) + Last(lengths)
NoRecord == [len |-> 0, left |-> 0]

(* partition_point(|s| s <= offset).saturating_sub(1), from 1.              *)
VolumeAt(st, offset) ==
  LET below == Cardinality({i \in DOMAIN st : st[i] <= offset})
  IN  IF below = 0 THEN 1 ELSE below

Locate(offset) == <<VolumeAt(starts, offset) - 1, offset - starts[VolumeAt(starts, offset)]>>

Overlay(f, at, s) ==
  [i \in 1 .. Max({at + Len(s), Len(f)}) |-> IF at < i /\ i <= at + Len(s) THEN s[i - at] ELSE f[i]]

(* File::create under a name of the directory, and what is then written.   *)
Put(dir, name, content) ==
  [n \in DOMAIN dir \cup {name} |-> IF n = name THEN content ELSE dir[n]]

TypeOK ==
  /\ \A n \in DOMAIN files : n \in Nat /\ files[n] \in Seq(Byte)
  /\ phase \in {"none", "open", "marking", "closing", "split", "plain"}
  /\ volume_size \in VolumeSizes
  /\ starts \in Seq(Nat) /\ lengths \in Seq(Nat) /\ Len(starts) = Len(lengths)
  /\ position \in Nat
  /\ paths \in Seq(Nat)
  /\ record \in [len : Nat, left : Nat]
  /\ archives \in 0 .. MaxArchives

Init ==
  /\ files = <<>>
  /\ phase = "none"
  /\ volume_size \in VolumeSizes
  /\ starts = <<>> /\ lengths = <<>> /\ position = 0 /\ record = NoRecord
  /\ paths = <<>>
  /\ archives = 0

-----------------------------------------------------------------------------
(* Creating an archive.                                                     *)

MayCreate == phase \in {"none", "split", "plain"} /\ archives < MaxArchives

(* VolumeSink::create: the first volume, with the spanning signature.       *)
CreateSplit ==
  /\ MayCreate
  /\ volume_size' \in VolumeSizes
  /\ files' = Put(files, 1, <<Signature>>)
  /\ starts' = <<0>> /\ lengths' = <<1>> /\ position' = 1 /\ record' = NoRecord
  /\ phase' = "open" /\ paths' = <<>>
  /\ archives' = archives + 1

(* Without a volume size: File::create under the archive's own name.        *)
CreatePlain ==
  /\ MayCreate
  /\ \E c \in SeqOf(Data, MaxWrite) : c # <<>> /\ files' = Put(files, Base, c)
  /\ phase' = "plain" /\ paths' = <<Base>>
  /\ archives' = archives + 1
  /\ starts' = <<>> /\ lengths' = <<>> /\ position' = 0 /\ record' = NoRecord
  /\ UNCHANGED volume_size

(* Some of buf goes to the end of the last of these volumes.                *)
Fill(buf, sizes, first) ==
  LET last == Len(sizes)
      room == Min({volume_size - sizes[last], Len(buf)})
      old == IF last \in DOMAIN files /\ last <= Volumes THEN files[last] ELSE <<>>
  IN  \E n \in 1 .. room :
        /\ files' = Put(files, last, Overlay(old, sizes[last], SubSeq(buf, 1, n)))
        /\ lengths' = [sizes EXCEPT ![last] = @ + n]
        /\ starts' = first
        /\ position' = position + n
        /\ record' = [record EXCEPT !.left = IF @ > n THEN @ - n ELSE 0]

(* Mutant: the position is what counts as the end, so a full volume grows.  *)
WriteAtEndUnbounded(buf) ==
  /\ phase = "open" /\ buf # <<>> /\ position >= TotalLen
  /\ position + Len(buf) <= MaxLen
  /\ files' = Put(files, Volumes, files[Volumes] \o buf)
  /\ lengths' = [lengths EXCEPT ![Volumes] = @ + Len(buf)]
  /\ position' = position + Len(buf)
  /\ record' = [record EXCEPT !.left = IF @ > Len(buf) THEN @ - Len(buf) ELSE 0]
  /\ UNCHANGED <<phase, volume_size, starts, paths, archives>>

(* write at the end: a full volume is followed by a new one, and the write  *)
(* stops at the end of a volume.                                            *)
WriteAtEnd(buf) ==
  /\ phase = "open" /\ buf # <<>> /\ position >= TotalLen
  /\ position + Len(buf) <= MaxLen
  /\ IF Last(lengths) >= volume_size
     THEN Fill(buf, Append(lengths, 0), Append(starts, TotalLen))
     ELSE Fill(buf, lengths, starts)
  /\ UNCHANGED <<phase, volume_size, paths, archives>>

(* Mutant: a patch is not clipped to its volume.                            *)
WriteInPlaceUnclipped(buf) ==
  /\ phase = "open" /\ buf # <<>> /\ position < TotalLen
  /\ LET v == VolumeAt(starts, position)
         local == position - starts[v]
     IN  /\ files' = [files EXCEPT ![v] = Overlay(@, local, buf)]
         /\ position' = position + Len(buf)
  /\ record' = NoRecord
  /\ UNCHANGED <<phase, volume_size, starts, lengths, paths, archives>>

(* write before the end: within the volume that holds the position.         *)
WriteInPlace(buf) ==
  /\ phase = "open" /\ buf # <<>> /\ position < TotalLen
  /\ LET v == VolumeAt(starts, position)
         local == position - starts[v]
         room == Min({lengths[v] - local, Len(buf)})
     IN  \E n \in 1 .. room :
           /\ files' = [files EXCEPT ![v] = Overlay(@, local, SubSeq(buf, 1, n))]
           /\ position' = position + n
  /\ record' = NoRecord
  /\ UNCHANGED <<phase, volume_size, starts, lengths, paths, archives>>

Seek(to) ==
  /\ phase = "open" /\ to <= TotalLen
  /\ position' = to
  /\ record' = NoRecord
  /\ UNCHANGED <<files, phase, volume_size, starts, lengths, paths, archives>>

(* Mutant: the volume is changed only once it is full.                      *)
BeginRecordLate(len) ==
  /\ phase = "open" /\ position >= TotalLen
  /\ IF Last(lengths) > 0 /\ Last(lengths) >= volume_size
     THEN /\ starts' = Append(starts, TotalLen) /\ lengths' = Append(lengths, 0)
          /\ files' = Put(files, Volumes + 1, <<>>)
          /\ position' = TotalLen
     ELSE UNCHANGED <<files, starts, lengths, position>>
  /\ record' = [len |-> len, left |-> len]
  /\ UNCHANGED <<phase, volume_size, paths, archives>>

(* Mutant: add_volume forgets one of its vectors.                           *)
BeginRecordUnpushed(len) ==
  /\ phase = "open" /\ position >= TotalLen
  /\ IF Last(lengths) > 0 /\ Last(lengths) + len > volume_size
     THEN /\ starts' = Append(starts, TotalLen)
          /\ files' = Put(files, Volumes + 1, <<>>)
          /\ position' = TotalLen
     ELSE UNCHANGED <<files, starts, position>>
  /\ record' = [len |-> len, left |-> len]
  /\ UNCHANGED <<phase, volume_size, lengths, paths, archives>>

(* begin_record: a header that would not fit opens the next volume.         *)
BeginRecord(len) ==
  /\ phase = "open" /\ position >= TotalLen
  /\ IF Last(lengths) > 0 /\ Last(lengths) + len > volume_size
     THEN /\ starts' = Append(starts, TotalLen) /\ lengths' = Append(lengths, 0)
          /\ files' = Put(files, Volumes + 1, <<>>)
          /\ position' = TotalLen
     ELSE UNCHANGED <<files, starts, lengths, position>>
  /\ record' = [len |-> len, left |-> len]
  /\ UNCHANGED <<phase, volume_size, paths, archives>>

(* finish: a set of one volume gets the marker over its signature ...       *)
FinishSeek ==
  /\ phase = "open"
  /\ IF Volumes = 1 THEN phase' = "marking" /\ position' = 0
                    ELSE phase' = "closing" /\ UNCHANGED position
  /\ UNCHANGED <<files, volume_size, starts, lengths, record, paths, archives>>

FinishMark ==
  /\ phase = "marking"
  /\ files' = [files EXCEPT ![1] = Overlay(@, 0, <<Marker>>)]
  /\ position' = 1
  /\ phase' = "closing"
  /\ UNCHANGED <<volume_size, starts, lengths, record, paths, archives>>

(* Mutant: the last volume is copied under the plain name and left behind.  *)
FinishCopy ==
  /\ phase = "closing"
  /\ files' = Put(files, Base, files[Volumes])
  /\ paths' = Append([i \in 1 .. Volumes - 1 |-> i], Base)
  /\ phase' = "split"
  /\ UNCHANGED <<sink, archives>>

(* ... and the last volume takes the archive's own name.                    *)
FinishRename ==
  /\ phase = "closing"
  /\ files' = Put([n \in DOMAIN files \ {Volumes} |-> files[n]], Base, files[Volumes])
  /\ paths' = Append([i \in 1 .. Volumes - 1 |-> i], Base)
  /\ phase' = "split"
  /\ UNCHANGED <<sink, archives>>

(* An error ends the creation; nothing removes what it has written.         *)
Abandon ==
  /\ phase \in {"open", "marking", "closing"}
  /\ phase' = "none"
  /\ starts' = <<>> /\ lengths' = <<>> /\ position' = 0 /\ record' = NoRecord
  /\ UNCHANGED <<files, volume_size, paths, archives>>

Next ==
  \/ CreateSplit \/ CreatePlain
  \/ \E buf \in SeqOf(Data, MaxWrite) : WriteAtEnd(buf) \/ WriteInPlace(buf)
  \/ \E to \in 0 .. MaxLen : Seek(to)
  \/ \E len \in 1 .. MaxWrite : BeginRecord(len)
  \/ FinishSeek \/ FinishMark \/ FinishRename
  \/ Abandon

Spec == Init /\ [][Next]_vars

-----------------------------------------------------------------------------
(* Finding the pieces.                                                      *)

(* canonical_base takes a piece to stem.zip, which is not there when the    *)
(* archive has another extension.                                           *)
CanonicalBaseExists(name) == Base \in DOMAIN files /\ (name = Base \/ BaseIsZip)

(* .z01, .z02, ... up to the first that is missing.                         *)
Segments == CHOOSE k \in 0 .. Cardinality(DOMAIN files) :
              /\ 1 .. k \subseteq DOMAIN files
              /\ k + 1 \notin DOMAIN files

NotFound == [found |-> FALSE, pieces |-> <<>>]

(* VolumeSet::discover, for an archive that no other tool has cut up.       *)
Discover(name) ==
  IF 1 \in DOMAIN files
  THEN IF CanonicalBaseExists(name)
       THEN [found |-> TRUE, pieces |-> Append([i \in 1 .. Segments |-> i], Base)]
       ELSE NotFound
  ELSE IF name \in DOMAIN files THEN [found |-> TRUE, pieces |-> <<name>>] ELSE NotFound

(* layout_for, over the files as they are.                                  *)
LayoutStarts(pieces) ==
  [i \in 1 .. Len(pieces) + 1 |-> MapThenSumSet(LAMBDA j : Len(files[pieces[j]]), 1 .. i - 1)]

(* Mutant: read takes a full buffer from one volume, past its end.          *)
ReadUnclipped(pieces, position_, want) ==
  LET st == LayoutStarts(pieces)
      v == VolumeAt(SubSeq(st, 1, Len(pieces)), position_)
  IN  IF position_ >= Last(st) THEN [got |-> <<>>, position |-> position_]
      ELSE [got |-> SubSeq(files[pieces[v]], position_ - st[v] + 1, Min({Len(files[pieces[v]]), position_ - st[v] + want})),
            position |-> position_ + want]

(* SegmentedReader::read: up to the end of the volume the position is in.   *)
Read(pieces, position_, want) ==
  LET st == LayoutStarts(pieces)
      v == VolumeAt(SubSeq(st, 1, Len(pieces)), position_)
      room == Min({st[v + 1] - position_, want})
  IN  IF position_ >= Last(st) THEN [got |-> <<>>, position |-> position_]
      ELSE [got |-> SubSeq(files[pieces[v]], position_ - st[v] + 1, position_ - st[v] + room),
            position |-> position_ + room]

(* Reads of `want` bytes, from an offset until there is nothing more.       *)
ReadToEnd(pieces, from, want) ==
  LET rest[at \in from .. Last(LayoutStarts(pieces)) + want] ==
        LET r == Read(pieces, at, want) IN IF r.got = <<>> THEN <<>> ELSE r.got \o rest[r.position]
  IN  rest[from]

-----------------------------------------------------------------------------
(* The bytes of the archive being written or finished last, in order.       *)
Content ==
  IF phase \in {"open", "marking", "closing"} THEN FlattenSeq([i \in 1 .. Volumes |-> files[i]])
  ELSE IF phase = "split" THEN FlattenSeq([i \in DOMAIN paths |-> files[paths[i]]])
  ELSE <<>>

(* The sink's own bookkeeping is what is on disk, and no volume is larger   *)
(* than was asked for.                                                      *)
VolumesAreBounded ==
  phase \in {"open", "marking", "closing"} =>
    \A i \in 1 .. Volumes :
      /\ i \in DOMAIN files /\ lengths[i] = Len(files[i])
      /\ starts[i] = MapThenSumSet(LAMBDA j : lengths[j], 1 .. i - 1)
      /\ lengths[i] <= volume_size

(* A record that fits a volume is never cut: what is left of it still fits. *)
RecordsAreWhole ==
  record.left > 0 /\ record.len <= volume_size /\ position = TotalLen =>
    Last(lengths) + record.left <= volume_size

(* A set that was finished is found again, from the archive's name or from  *)
(* any of its pieces, whatever earlier and failed creations left behind;    *)
(* every location the sink handed out still leads to the same byte, and     *)
(* from there reads of any size give the rest of the archive.               *)
SplitReadsBack ==
  phase = "split" =>
    \A name \in {Base} \cup (IF BaseIsZip THEN ToSet(paths) ELSE {}) :
      LET set == Discover(name)
      IN  /\ set.found
          /\ set.pieces = paths
          /\ \A offset \in 0 .. TotalLen - 1 :
               /\ LayoutStarts(set.pieces)[Locate(offset)[1] + 1] + Locate(offset)[2] = offset
               /\ \A want \in 1 .. TotalLen :
                    ReadToEnd(set.pieces, offset, want) = SubSeq(Content, offset + 1, TotalLen)

(* tests/zip_multivolume.rs: an archive written without a volume size is    *)
(* found as the single file that it is.                                     *)
PlainIsSingle ==
  phase = "plain" => Discover(Base) = [found |-> TRUE, pieces |-> <<Base>>]
=============================================================================
