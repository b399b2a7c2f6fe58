------------------------------ MODULE Volumes ------------------------------
(***************************************************************************)
(* Archives in volumes: the sink, the search and the reader of ZIP and the *)
(* ones of 7z, over the same kind of directory.  Each is a state machine   *)
(* of its own; what they promise is stated here once for both.             *)
(***************************************************************************)
EXTENDS Naturals, Sequences

CONSTANTS Data, Signature, Marker, VolumeSizes, BaseIsZip, Left, MaxWrite, MaxLen, MaxArchives

ASSUME VolumeSizesAssumption == VolumeSizes \subseteq Nat \ {0}
ASSUME BaseIsZipAssumption == BaseIsZip \in BOOLEAN
ASSUME LeftAssumption == Left \subseteq Nat
ASSUME BoundsAssumption == MaxWrite \in Nat \ {0} /\ MaxLen \in Nat /\ MaxArchives \in Nat

VARIABLES
  format,       \* "zip" or "7z"
  files, phase, volume_size, lengths, position, archives,
  starts, paths, record    \* of the ZIP sink only

vars == <<format, files, phase, volume_size, lengths, position, archives, starts, paths, record>>

Zip == INSTANCE ZipVolumes
SevenZ == INSTANCE SevenZVolumes

Init ==
  \/ format = "zip" /\ Zip!Init
  \/ format = "7z" /\ SevenZ!Init /\ starts = <<>> /\ paths = <<>> /\ record = Zip!NoRecord

Next ==
  /\ UNCHANGED format
  /\ \/ format = "zip" /\ Zip!Next
     \/ format = "7z" /\ SevenZ!Next /\ UNCHANGED <<starts, paths, record>>

Spec == Init /\ [][Next]_vars

TypeOK ==
  /\ format \in {"zip", "7z"}
  /\ format = "zip" => Zip!TypeOK
  /\ format = "7z" => SevenZ!TypeOK

(* Cut up or not, a sink is one file: writes land where a single file would *)
(* have them, in order, across any number of volumes.                       *)
Content == IF format = "zip" THEN Zip!Content ELSE SevenZ!Content
Flat == INSTANCE FlatFile WITH data <- Content, pos <- position, Byte <- Zip!Byte
ImplementsFlatFile == Flat!FlatSpec

(* The sink's bookkeeping is what is on disk and no volume is larger than   *)
(* was asked for; those of a 7z are full but for the last.                  *)
VolumesAreBounded ==
  /\ format = "zip" => Zip!VolumesAreBounded
  /\ format = "7z" => SevenZ!VolumesAreFull

(* A record that fits a volume of a ZIP is in one volume.                   *)
RecordsAreWhole == format = "zip" => Zip!RecordsAreWhole

(* A finished set is found from any of its names, complete and alone, and   *)
(* reads from any offset as what was written, whatever was in the directory.*)
ReadsBack ==
  /\ format = "zip" => Zip!SplitReadsBack
  /\ format = "7z" => SevenZ!SetReadsBack
=============================================================================
