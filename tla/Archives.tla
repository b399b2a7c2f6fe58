------------------------------ MODULE Archives ------------------------------
(***************************************************************************)
(* The three formats, each a writer and the reader that takes apart what   *)
(* it made, as one machine that is given one of them to write.  Each is a  *)
(* state machine of its own; what they promise is stated here once.        *)
(***************************************************************************)
EXTENDS Integers

CONSTANTS
  U16, U32, VolumeSizes, NameLen, CommentLen, Contents, Expected, MaxEntries,
  BLOCK, NAME, PREFIX, UNAME, FieldLen, Radix, Register, PerHeader, Formats, Entries, MaxGiven,
  Items, BlockSizes, MinHeader, MaxItems

ASSUME FieldsAssumption == U16 \in Nat /\ U32 \in Nat /\ U16 < U32
ASSUME VolumesAssumption == VolumeSizes \subseteq 0 .. U32 /\ 0 \in VolumeSizes
ASSUME ContentsAssumption ==
  /\ Contents \subseteq [compressed : Nat, uncompressed : Nat]
  /\ Expected \subseteq Nat /\ NameLen \in Nat /\ CommentLen \in Nat
(* A number fits its field in base 256, and the register it is read into.   *)
ASSUME TarAssumption ==
  /\ BLOCK \in Nat \ {0} /\ PerHeader \in Nat \ {0} /\ Formats \subseteq {"pax", "gnu"}
  /\ \A e \in Entries : -Register <= 2 * e.mtime /\ 2 * e.mtime < Register
  /\ Register <= Radix ^ FieldLen
ASSUME ItemsAssumption == BlockSizes \subseteq Nat /\ \A item \in Items : item.size > 0 => item.kind = "file"

VARIABLES
  format,       \* "zip", "tar" or "7z"
  volume_size, ids, encryption, sink, written, records, placed, directory, phase,   \* of ZIP
  tar_format, given, tape, tar_phase, reader,                                        \* of tar
  options, items, writer, out                                                        \* of 7z

zip_vars == <<volume_size, ids, encryption, sink, written, records, placed, directory, phase>>
tar_vars == <<tar_format, given, tape, tar_phase, reader>>
sevenz_vars == <<options, items, writer, out>>
vars == <<format, zip_vars, tar_vars, sevenz_vars>>

Zip == INSTANCE ZipArchive
Tar == INSTANCE TarArchive
SevenZ == INSTANCE SevenZArchive

NoZip == Zip!Init /\ volume_size = 0 /\ ~ids /\ encryption = "none"
NoTar == Tar!Init /\ tar_format = "pax"
NoSevenZ == SevenZ!Init /\ options = CHOOSE o \in SevenZ!Options : TRUE

Init ==
  \/ format = "zip" /\ Zip!Init /\ NoTar /\ NoSevenZ
  \/ format = "tar" /\ NoZip /\ Tar!Init /\ NoSevenZ
  \/ format = "7z" /\ NoZip /\ NoTar /\ SevenZ!Init

Next ==
  /\ UNCHANGED format
  /\ \/ format = "zip" /\ Zip!Next /\ UNCHANGED <<tar_vars, sevenz_vars>>
     \/ format = "tar" /\ Tar!Next /\ UNCHANGED <<zip_vars, sevenz_vars>>
     \/ format = "7z" /\ SevenZ!Next /\ UNCHANGED <<zip_vars, tar_vars>>

Spec == Init /\ [][Next]_vars

TypeOK ==
  /\ format \in {"zip", "tar", "7z"}
  /\ format = "zip" => Zip!TypeOK
  /\ format = "tar" => Tar!TypeOK
  /\ format = "7z" => SevenZ!TypeOK

(* What a reader finds in a finished archive is what its writer was given:  *)
(* every entry in its order, with its data, however large it is, wherever   *)
(* volumes end, however it is packed and whatever was skipped before it; of *)
(* a tape that lost its end, the entries before the loss.                   *)
ReadsBack ==
  /\ format = "zip" => Zip!ReadsBack
  /\ format = "tar" => Tar!ReadsBack
  /\ format = "7z" => SevenZ!ReadsBack

(* A header of a ZIP that fits a volume lies in one.                        *)
HeadersAreWhole == format = "zip" => Zip!HeadersAreWhole

(* lib.rs:326, of set_volume_size: to read a set back, name any piece of    *)
(* it.  The Zip64 end of a set is looked for in its first volume.           *)
SetReadsBack == format = "zip" => Zip!SetReadsBack
=============================================================================
