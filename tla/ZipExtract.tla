----------------------------- MODULE ZipExtract -----------------------------
(***************************************************************************)
(* pipeline::extract: a zip archive onto a destination.  The plan is made   *)
(* of the whole archive first; then every directory, in plan order; then    *)
(* the files, shared between the workers of pool::for_each (ForEach: its    *)
(* contract is what this module relies on); then the symbolic links; and    *)
(* last the metadata of the directories, the deepest first.                 *)
(***************************************************************************)
EXTENDS Layout

VARIABLES
  archive, options, before,     \* the archive, the options and the destination that are given
  tree,                         \* the destination
  phase,                        \* the part of `extract` that runs
  planned,                      \* what build_plan returned
  at,                           \* entries the loop of the phase has behind it
  work,                         \* what became of each file
  count, done, errs, error, result,   \* the call of for_each
  summary,                      \* ExtractSummary
  finished, totals              \* entries reported as finished, and announced

input == <<archive, options, before>>
pool == <<count, done, errs, error, result>>
vars == <<input, tree, phase, planned, at, work, pool, summary, finished, totals>>

Pool == INSTANCE ForEach WITH MaxCount <- MaxEntries, MaxThreads <- Threads

plan == planned.plan
Slots(kind) == InOrder({s \in DOMAIN plan : plan[s].kind = kind}, <)
Items(kind) == [n \in DOMAIN Slots(kind) |-> plan[Slots(kind)[n]]]
Nothing == [files |-> 0, directories |-> 0, symlinks |-> 0, skipped |-> 0, refused |-> 0]

TypeOK ==
  /\ tree \in [Paths -> Node]
  /\ phase \in {"plan", "directories", "files", "links", "seal", "done", "err"}
  /\ \A s \in DOMAIN plan : plan[s].path \in Paths /\ plan[s].index \in DOMAIN archive
  /\ at \in 0 .. Len(plan)
  /\ work \in [Pool!Index -> {"todo", "open", "partial", "done", "skipped", "dead"}]
  /\ done \subseteq Pool!Index /\ errs \subseteq Pool!Failure
  /\ error \in errs \cup {Pool!None} /\ result \in {"open", "ok", "err"}
  /\ summary \in [DOMAIN Nothing -> Nat]
  /\ finished \in Nat /\ totals \in Nat

Init ==
  /\ \E i \in Inputs : archive \in i.archives /\ options \in i.choices /\ before \in i.destinations
  /\ tree = before
  /\ phase = "plan" /\ planned = NoPlan /\ at = 0 /\ work = <<>>
  /\ count = 0 /\ done = {} /\ errs = {} /\ error = Pool!None /\ result = "open"
  /\ summary = Nothing /\ finished = 0 /\ totals = 0

Fails == phase' = "err" /\ UNCHANGED <<planned, at, work, pool, summary, totals>>

-----------------------------------------------------------------------------
(* build_plan and set_totals.                                               *)
Plan ==
  /\ phase = "plan"
  /\ planned' = BuildPlan(archive, options)
  /\ phase' = IF planned'.failed THEN "err" ELSE "directories"
  /\ summary' = [summary EXCEPT !.refused = planned'.refused]
  /\ totals' = IF planned'.failed THEN 0 ELSE Len(planned'.plan)
  /\ UNCHANGED <<input, tree, at, work, pool, finished>>

(* The directories, and the parents of everything else.                     *)
MakeDirectory ==
  /\ phase = "directories" /\ at < Len(plan)
  /\ plan[at + 1].kind = "dir"
  /\ UNCHANGED input
  /\ LET path == plan[at + 1].path IN
     \/ /\ LinkOnTheWay(tree, path)
        /\ Fails /\ UNCHANGED <<tree, finished>>
     \/ /\ ~LinkOnTheWay(tree, path)
        /\ tree' = WithDirectories(tree, path)
        /\ at' = at + 1
        /\ summary' = [summary EXCEPT !.directories = @ + 1]
        /\ finished' = finished + 1
        /\ UNCHANGED <<phase, planned, work, pool, totals>>

MakeParents ==
  /\ phase = "directories" /\ at < Len(plan)
  /\ plan[at + 1].kind # "dir"
  /\ UNCHANGED <<input, finished>>
  /\ LET path == plan[at + 1].path IN
     \/ /\ ParentBlocked(tree, path)
        /\ Fails /\ UNCHANGED tree
     \/ /\ ~ParentBlocked(tree, path)
        /\ tree' = WithParents(tree, path)
        /\ at' = at + 1
        /\ UNCHANGED <<phase, planned, work, pool, summary, totals>>

(* Mutant: one file too many.                                               *)
StartFilesInclusive ==
  /\ phase = "directories" /\ at = Len(plan)
  /\ phase' = "files" /\ at' = 0
  /\ count' = Len(Slots("file"))
  /\ work' = [i \in 0 .. count' |-> "todo"]
  /\ UNCHANGED <<input, tree, planned, done, errs, error, result, summary, finished, totals>>

StartFiles ==
  /\ phase = "directories" /\ at = Len(plan)
  /\ phase' = "files" /\ at' = 0
  /\ count' = Len(Slots("file"))
  /\ work' = [i \in 0 .. count' - 1 |-> "todo"]
  /\ UNCHANGED <<input, tree, planned, done, errs, error, result, summary, finished, totals>>

-----------------------------------------------------------------------------
(* The files: what a worker does with the file it has claimed.              *)

Target(i) == Items("file")[i + 1].path
Entry(i) == Items("file")[i + 1].index
Busy == {i \in DOMAIN work : work[i] \in {"open", "partial"}}

InPool(i, was) ==
  /\ phase = "files" /\ i \in DOMAIN work /\ work[i] = was
  /\ UNCHANGED <<input, phase, planned, at, summary, totals>>

Becomes(i, state) == work' = [work EXCEPT ![i] = state]

CheckFile(i) ==
  /\ InPool(i, "todo")
  /\ error = Pool!None /\ Cardinality(Busy) < Threads
  /\ \/ /\ ~Taken(tree, Target(i)) \/ options.overwrite = "always"
        /\ tree' = Cleared(tree, Target(i))
        /\ Becomes(i, "open")
        /\ UNCHANGED <<pool, finished>>
     \/ /\ Taken(tree, Target(i)) /\ options.overwrite = "never"
        /\ Becomes(i, "skipped") /\ Pool!Complete(i)
        /\ finished' = finished + 1
        /\ UNCHANGED tree
     \/ /\ Taken(tree, Target(i)) /\ options.overwrite = "error"
        /\ Becomes(i, "dead") /\ Pool!Fail(Pool!OfTask(i))
        /\ UNCHANGED <<tree, finished>>

(* File::create, which would write through a link that stood there.         *)
CreateFile(i) ==
  /\ InPool(i, "open")
  /\ \/ /\ Creatable(tree, Target(i))
        /\ Becomes(i, "partial")
        /\ tree' = IF tree[Target(i)].kind = "link" THEN tree
                   ELSE [tree EXCEPT ![Target(i)] = [kind |-> "partial", by |-> Entry(i)]]
        /\ UNCHANGED pool
     \/ /\ ~Creatable(tree, Target(i))
        /\ Becomes(i, "dead") /\ Pool!Fail(Pool!OfTask(i))
        /\ UNCHANGED tree
  /\ UNCHANGED finished

(* read_range stops at damage, a wrong password or a full disk: what was    *)
(* written so far stays.                                                    *)
FailFile(i) ==
  /\ InPool(i, "partial")
  /\ Becomes(i, "dead") /\ Pool!Fail(Pool!OfTask(i))
  /\ UNCHANGED <<tree, finished>>

CompleteFile(i) ==
  /\ InPool(i, "partial")
  /\ tree' = IF tree[Target(i)].kind = "partial" THEN [tree EXCEPT ![Target(i)].kind = "file"] ELSE tree
  /\ Becomes(i, "done") /\ Pool!Complete(i)
  /\ finished' = finished + 1

(* A worker that cannot open the volumes for itself.                        *)
OpenFails ==
  /\ phase = "files" /\ count > 0
  /\ \E w \in 0 .. Threads : Pool!Fail(Pool!OfInit(w))
  /\ errs = {}
  /\ UNCHANGED <<input, tree, phase, planned, at, work, summary, finished, totals>>

KeepFailure ==
  /\ phase = "files"
  /\ \E f \in errs : Pool!Keep(f)
  /\ UNCHANGED <<input, tree, phase, planned, at, work, summary, finished, totals>>

Skipped == Cardinality({i \in DOMAIN work : work[i] = "skipped"})

FilesReturn ==
  /\ phase = "files" /\ Busy = {}
  /\ UNCHANGED <<input, tree, planned, at, work, finished, totals>>
  /\ \/ /\ Pool!ReturnOk
        /\ phase' = IF options.symlinks THEN "links" ELSE "seal"
        /\ summary' = [summary EXCEPT !.files = count - Skipped,
                                      !.skipped = Skipped + planned.stripped + planned.collided]
     \/ /\ Pool!ReturnErr
        /\ phase' = "err" /\ UNCHANGED summary

-----------------------------------------------------------------------------
(* The links, one after the other: only once its target is read is a link   *)
(* finished, and only then are its own place and its target looked at.      *)

link == Items("link")[at + 1]

NextLink == at' = at + 1 /\ finished' = finished + 1 /\ UNCHANGED <<phase, planned, work, pool, totals>>

MakeLink ==
  /\ phase = "links" /\ at < Len(Slots("link"))
  /\ UNCHANGED input
  /\ \/ /\ ~archive[link.index].escapes
        /\ ~Taken(tree, link.path) \/ options.overwrite = "always"
        /\ Creatable(Cleared(tree, link.path), link.path)
        /\ tree' = [tree EXCEPT ![link.path] = [kind |-> "link", by |-> link.index]]
        /\ summary' = [summary EXCEPT !.symlinks = @ + 1]
        /\ NextLink
     \/ /\ ~archive[link.index].escapes
        /\ Taken(tree, link.path) /\ options.overwrite = "never"
        /\ summary' = [summary EXCEPT !.skipped = @ + 1]
        /\ NextLink /\ UNCHANGED tree
     \/ /\ archive[link.index].escapes /\ options.unsafe = "skip"
        /\ summary' = [summary EXCEPT !.refused = @ + 1]
        /\ NextLink /\ UNCHANGED tree

LinkFails ==
  /\ phase = "links" /\ at < Len(Slots("link"))
  /\ UNCHANGED input
  /\ \/ /\ UNCHANGED finished           \* its target cannot be read
     \/ /\ finished' = finished + 1
        /\ \/ archive[link.index].escapes /\ options.unsafe = "refuse"
           \/ /\ ~archive[link.index].escapes /\ Taken(tree, link.path)
              /\ \/ options.overwrite = "error"
                 \/ options.overwrite = "always" /\ ~Creatable(tree, link.path)
  /\ Fails /\ UNCHANGED tree

LinksEnd ==
  /\ phase = "links" /\ at = Len(Slots("link"))
  /\ phase' = "seal" /\ at' = 0
  /\ UNCHANGED <<input, tree, planned, work, pool, summary, finished, totals>>

-----------------------------------------------------------------------------
(* The metadata of the directories.                                         *)

SealOrder == DeepestFirst(Items("dir"))

Seal ==
  /\ phase = "seal" /\ options.restore /\ at < Len(SealOrder)
  /\ LET item == Items("dir")[SealOrder[at + 1]] IN
     tree' = IF tree[item.path].kind = "none" THEN tree ELSE [tree EXCEPT ![item.path].by = item.index]
  /\ at' = at + 1
  /\ UNCHANGED <<input, phase, planned, work, pool, summary, finished, totals>>

Finish ==
  /\ phase = "seal" /\ (options.restore => at = Len(SealOrder))
  /\ phase' = "done"
  /\ UNCHANGED <<input, tree, planned, at, work, pool, summary, finished, totals>>

Ended == phase \in {"done", "err"} /\ UNCHANGED vars

Next ==
  \/ Plan \/ MakeDirectory \/ MakeParents \/ StartFiles
  \/ \E i \in DOMAIN work : CheckFile(i) \/ CreateFile(i) \/ FailFile(i) \/ CompleteFile(i)
  \/ OpenFails \/ KeepFailure \/ FilesReturn
  \/ MakeLink \/ LinkFails \/ LinksEnd
  \/ Seal \/ Finish
  \/ Ended

Spec == Init /\ [][Next]_vars

-----------------------------------------------------------------------------
(* However the workers take turns, an extraction that succeeds leaves the   *)
(* destination that plan, options and what stood there before determine.    *)
Restored(p) ==
  {s \in DOMAIN plan :
     /\ plan[s].path = p /\ plan[s].kind # "dir"
     /\ before[p] = Missing \/ (options.overwrite = "always" /\ before[p].kind # "dir")
     /\ plan[s].kind = "link" => options.symlinks /\ ~archive[plan[s].index].escapes}

LastDirectory(p) ==
  LET dirs == {s \in DOMAIN plan : plan[s].path = p /\ plan[s].kind = "dir"}
  IN  IF dirs = {} \/ ~options.restore THEN 0
      ELSE plan[CHOOSE s \in dirs : \A t \in dirs : t <= s].index

Expected(p) ==
  IF p \in Needed(plan) THEN [kind |-> "dir", by |-> LastDirectory(p)]
  ELSE IF Restored(p) = {} THEN before[p]
  ELSE LET s == CHOOSE s \in Restored(p) : TRUE IN [kind |-> plan[s].kind, by |-> plan[s].index]

ResultIsDetermined == phase = "done" => tree = [p \in Paths |-> Expected(p)]

(* Every entry that was selected is in exactly one count of the summary,    *)
(* but for the links that were not to be restored, which are in none.       *)
LeftOut == IF options.symlinks THEN 0 ELSE Len(Slots("link"))
Accounted ==
  phase = "done" =>
    summary.files + summary.directories + summary.symlinks + summary.skipped + summary.refused + LeftOut
      = Len(Chosen(archive, options))

(* Where links are restored, a success has reported every entry it          *)
(* announced.                                                               *)
EntriesCompleteWithLinks == phase = "done" /\ options.symlinks => finished = totals
=============================================================================
