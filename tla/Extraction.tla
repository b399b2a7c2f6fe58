----------------------------- MODULE Extraction -----------------------------
(***************************************************************************)
(* Archive::extract_to: the extraction of the format that was given or      *)
(* detected.  ZipExtract, TarExtract and SevenZExtract are the three ways   *)
(* it can go; what all of them promise is stated here.                      *)
(***************************************************************************)
EXTENDS Layout

VARIABLES
  format,                       \* "zip", "tar" or "7z"
  archive, options, before, tree, phase, planned, at, work, summary, finished, totals,
  count, done, errs, error, result,                      \* of all three
  bodies, pending, directories, made,                    \* of TarExtract
  cursor, position, links                                \* of SevenZExtract

shared == <<archive, options, before, tree, phase, planned, at, work, summary, finished, totals,
            count, done, errs, error, result>>
tarOnly == <<bodies, pending, directories, made>>
sevenZOnly == <<cursor, position, links>>
vars == <<format, shared, tarOnly, sevenZOnly>>

Of(f) == {i \in Inputs : i.format = f}
OfZip == INSTANCE ZipExtract WITH Inputs <- Of("zip")
OfTar == INSTANCE TarExtract WITH Inputs <- Of("tar")
OfSevenZ == INSTANCE SevenZExtract WITH Inputs <- Of("7z")

IdleTar == bodies = <<>> /\ pending = <<>> /\ directories = <<>> /\ made = {}
IdleSevenZ == cursor = <<>> /\ position = <<>> /\ links = {}

Init ==
  \/ format = "zip" /\ OfZip!Init /\ IdleTar /\ IdleSevenZ
  \/ format = "tar" /\ OfTar!Init /\ IdleSevenZ
  \/ format = "7z" /\ OfSevenZ!Init /\ IdleTar

Next ==
  /\ \/ format = "zip" /\ OfZip!Next /\ UNCHANGED <<tarOnly, sevenZOnly>>
     \/ format = "tar" /\ OfTar!Next /\ UNCHANGED sevenZOnly
     \/ format = "7z" /\ OfSevenZ!Next /\ UNCHANGED tarOnly
  /\ UNCHANGED format

Spec == Init /\ [][Next]_vars

For(zip, tar, sevenZ) ==
  /\ format = "zip" => zip
  /\ format = "tar" => tar
  /\ format = "7z" => sevenZ

TypeOK == For(OfZip!TypeOK, OfTar!TypeOK, OfSevenZ!TypeOK)

-----------------------------------------------------------------------------
(* The plan is the one the options describe: of the entries for one path    *)
(* exactly one, in the order of the archive.                                *)
PlanIsKept == phase \in {"directories", "entries"} /\ at = 0 => IsPlan(planned.plan, archive, options)

(* However the workers take turns, an extraction that succeeds leaves the   *)
(* destination that plan, options and what stood there before determine: of *)
(* a tar but for its hard links, of a 7z but for what its anti items reach. *)
ResultIsDetermined ==
  For(OfZip!ResultIsDetermined, OfTar!ResultIsDetermined, OfSevenZ!ResultIsDetermined)

(* At every moment, and so after a failure too, a zip or a tar has changed  *)
(* only what its plan names, and a file that was there is gone only where   *)
(* it was to be replaced or a directory had to take its place.              *)
OnlyPlanned ==
  format # "7z" =>
    \A p \in Paths : tree[p] # before[p] =>
      \/ p \in Needed(planned.plan)
      \/ /\ \E s \in DOMAIN planned.plan : planned.plan[s].path = p
         /\ before[p] = Missing \/ options.overwrite = "always"

(* Directories are done last, deletions included: nothing changes below a   *)
(* directory that has its metadata, so a read-only one can be filled and no *)
(* time is disturbed.                                                       *)
Sealed == {p \in Paths : tree[p].kind = "dir" /\ tree[p].by # 0}
DirectoriesLast ==
  [][\A p \in Paths : tree'[p] # tree[p] => Above(p) \cap Sealed = {}]_vars

(* Every entry that was selected is in one count of the summary, with the   *)
(* exceptions each format makes.                                            *)
Accounted == For(OfZip!Accounted, OfTar!Accounted, OfSevenZ!Accounted)

(* A success has reported as finished every entry it announced, but for the *)
(* links of a 7z and the links of a zip that were not to be restored; and a *)
(* tar is never finished while a body is still to be written.               *)
EntriesComplete ==
  For(OfZip!EntriesCompleteWithLinks, OfTar!EntriesComplete, OfSevenZ!EntriesCompleteButLinks)

(* A hard link is the file of the name it points at.                        *)
HardLinksShare == format = "tar" => OfTar!HardLinksShare

(* What an anti item names is gone.                                         *)
AntiItemsApplied == format = "7z" => OfSevenZ!AntiItemsApplied

(* Overwrite::Never, as documented: a file that is already there is left    *)
(* alone.                                                                   *)
NeverLeavesFiles ==
  options.overwrite = "never" => \A p \in Paths : before[p].kind = "file" => tree[p] = before[p]
=============================================================================
