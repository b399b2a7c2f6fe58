------------------------------ MODULE Creation ------------------------------
(***************************************************************************)
(* Create::create_from: the creation of the format that was asked for.      *)
(* ZipCreate, TarCreate and SevenZCreate are the three ways it can go; what *)
(* all of them promise is stated here.                                      *)
(***************************************************************************)
EXTENDS Sources

CONSTANTS Threshold, Chunk, Budget, SparseMinimum, Piece, Held, Block

ASSUME ZipAssumption == Threshold \in Nat /\ Chunk \in Nat \ {0} /\ Budget \in Nat
ASSUME TarAssumption == SparseMinimum \in Nat /\ Piece \in Nat \ {0} /\ Held \in Nat
ASSUME SevenZAssumption == Block \in Nat \ {0}

VARIABLES
  format,
  next, ready, slots, chunk,                           \* of ZipCreate
  links, pending, filling, queued, streaming, out,     \* of TarCreate
  folders, open                                        \* of SevenZCreate

zipOnly == <<next, ready, slots, chunk>>
tarOnly == <<links, pending, filling, queued, streaming, out>>
sevenZOnly == <<folders, open>>
vars == <<format, svars, zipOnly, tarOnly, sevenZOnly>>

Of(f) == {i \in Inputs : i.format = f}
OfZip == INSTANCE ZipCreate WITH Inputs <- Of("zip")
OfTar == INSTANCE TarCreate WITH Inputs <- Of("tar")
OfSevenZ == INSTANCE SevenZCreate WITH Inputs <- Of("7z")

IdleZip == next = 0 /\ ready = <<>> /\ slots = <<>> /\ chunk = 0
IdleTar == /\ links = <<>> /\ pending = <<>> /\ filling = <<>> /\ queued = <<>>
           /\ streaming = FALSE /\ out = <<>>
IdleSevenZ == folders = <<>> /\ open = <<>>

Init ==
  \/ format = "zip" /\ OfZip!Init /\ IdleTar /\ IdleSevenZ
  \/ format = "tar" /\ OfTar!Init /\ IdleZip /\ IdleSevenZ
  \/ format = "7z" /\ OfSevenZ!Init /\ IdleZip /\ IdleTar

Next ==
  /\ \/ format = "zip" /\ OfZip!Next /\ UNCHANGED <<tarOnly, sevenZOnly>>
     \/ format = "tar" /\ OfTar!Next /\ UNCHANGED <<zipOnly, sevenZOnly>>
     \/ format = "7z" /\ OfSevenZ!Next /\ UNCHANGED <<zipOnly, tarOnly>>
  /\ UNCHANGED format

Spec == Init /\ [][Next]_vars

For(zip, tar, sevenZ) ==
  /\ format = "zip" => zip
  /\ format = "tar" => tar
  /\ format = "7z" => sevenZ

TypeOK ==
  /\ at \in 1 .. Len(sources) + 1
  /\ For(OfZip!TypeOK, OfTar!TypeOK, OfSevenZ!TypeOK)

-----------------------------------------------------------------------------
(* Whatever was read ahead, in waves or while a file was changing, entry k  *)
(* of the archive is source k of the list sorted by name: its kind, its     *)
(* name, and of a file as much as was there to be read.                     *)
Holds(k) ==
  For(OfZip!Holds(entries[k], sources[k]), OfTar!Holds(entries[k], sources[k]), OfSevenZ!Holds(k, sources[k]))
EntriesAreSources ==
  /\ Len(entries) = at - 1
  /\ \A j, k \in DOMAIN sources : j < k => ~LessName(sources[k].name, sources[j].name)
  /\ \A k \in DOMAIN entries :
       /\ entries[k].name = sources[k].name
       /\ entries[k].kind = sources[k].kind \/ (entries[k].kind = "hard" /\ sources[k].kind = "file")
       /\ entries[k].kind = "file" => Holds(k)

(* What is held in memory stays within its bound: the files of a zip read   *)
(* ahead, what the sink of a tar keeps back, the open folder of a 7z.       *)
HeldIsBounded == For(OfZip!HeldIsBounded, OfTar!HeldIsBounded, OfSevenZ!HeldIsBounded)

(* The stream of a tar, cut into pieces or held back on its way, arrives    *)
(* whole and in order.                                                      *)
StreamIsWhole == format = "tar" => OfTar!StreamIsWhole

(* A success has written and reported every source that was listed, and if  *)
(* no file changed meanwhile the bytes that were announced.                 *)
Complete ==
  phase = "done" =>
    /\ finished = totals.entries
    /\ summary.files + summary.directories + summary.symlinks + summary.hardlinks = Len(sources)
    /\ changed = {} => processed = totals.bytes /\ summary.bytes = totals.bytes

(* A hard link is to an earlier entry that holds its file's contents.       *)
HardLinksNameTheFile == format = "tar" => OfTar!HardLinksNameTheFile
=============================================================================
