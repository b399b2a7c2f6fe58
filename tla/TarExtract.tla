----------------------------- MODULE TarExtract -----------------------------
(***************************************************************************)
(* pipeline::tarball::extract.  One loop takes the planned entries in order *)
(* and makes directories and symbolic links on the spot; the bodies of      *)
(* files wait until the loop is over, hard links until the bodies are       *)
(* written, and the metadata of directories until the hard links are made.  *)
(* So the place of a file is checked long before the file is created.       *)
(*                                                                          *)
(* The bodies are shared by the workers of pool::for_each.  An archive that *)
(* can only be read from its beginning has them written by the calling      *)
(* thread in archive order, which is one of the orders of the workers.      *)
(***************************************************************************)
EXTENDS Layout

VARIABLES
  archive, options, before,     \* the archive, the options and the destination that are given
  tree,                         \* the destination
  phase,                        \* the part of `extract` that runs
  planned,                      \* the plan and what it rejected
  at,                           \* entries the loop of the phase has behind it
  bodies, pending, directories, \* slots of the plan that wait, in the order of the loop
  work,                         \* what became of each body
  count, done, errs, error, result,   \* the call of for_each
  made,                         \* positions of pending_links that became hard links
  summary,                      \* ExtractSummary
  finished, totals              \* entries reported as finished, and announced

input == <<archive, options, before>>
waiting == <<bodies, pending, directories>>
pool == <<count, done, errs, error, result>>
vars == <<input, tree, phase, planned, at, waiting, work, pool, made, summary, finished, totals>>

Pool == INSTANCE ForEach WITH MaxCount <- MaxEntries, MaxThreads <- Threads

plan == planned.plan
item == plan[at + 1]
entry == archive[item.index]
Nothing == [files |-> 0, directories |-> 0, symlinks |-> 0, specials |-> 0, skipped |-> 0, refused |-> 0]

TypeOK ==
  /\ tree \in [Paths -> Node]
  /\ phase \in {"plan", "entries", "bodies", "hardlinks", "seal", "done", "err"}
  /\ at \in 0 .. Len(plan)
  /\ UNION {ToSet(s) : s \in {bodies, pending, directories}} \subseteq DOMAIN plan
  /\ work \in [Pool!Index -> {"todo", "partial", "done", "dead"}]
  /\ done \subseteq Pool!Index /\ errs \subseteq Pool!Failure
  /\ error \in errs \cup {Pool!None} /\ result \in {"open", "ok", "err"}
  /\ made \subseteq DOMAIN pending
  /\ summary \in [DOMAIN Nothing -> Nat]
  /\ finished \in Nat /\ totals \in Nat

Init ==
  /\ \E i \in Inputs : archive \in i.archives /\ options \in i.choices /\ before \in i.destinations
  /\ tree = before
  /\ phase = "plan" /\ planned = NoPlan /\ at = 0
  /\ bodies = <<>> /\ pending = <<>> /\ directories = <<>>
  /\ work = <<>> /\ made = {}
  /\ count = 0 /\ done = {} /\ errs = {} /\ error = Pool!None /\ result = "open"
  /\ summary = Nothing /\ finished = 0 /\ totals = 0

Fails == phase' = "err" /\ UNCHANGED <<input, planned, at, waiting, work, pool, made, summary, totals>>

-----------------------------------------------------------------------------
Plan ==
  /\ phase = "plan"
  /\ planned' = BuildPlan(archive, options)
  /\ phase' = IF planned'.failed THEN "err" ELSE "entries"
  /\ summary' = [summary EXCEPT !.refused = planned'.refused]
  /\ totals' = IF planned'.failed THEN 0 ELSE Len(planned'.plan)
  /\ UNCHANGED <<input, tree, at, waiting, work, pool, made, finished>>

-----------------------------------------------------------------------------
(* The loop over the planned entries.                                       *)

InLoop(kinds) ==
  /\ phase = "entries" /\ at < Len(plan) /\ item.kind \in kinds
  /\ UNCHANGED <<input, planned, work, pool, made, totals>>
Onward == at' = at + 1 /\ UNCHANGED phase
Counted(field) == summary' = [summary EXCEPT ![field] = @ + 1]
Stopped == phase' = "err" /\ UNCHANGED <<at, waiting, summary>>

(* Mutant: a link to a name that was stripped keeps that name.              *)
LinkedNameUnstripped(e) == e.to

(* The name a hard link points at goes through `place` as its own does.     *)
LinkedName(e) == StripLeading(e.to, StripDepth(archive, options))

HardLinkEntry ==
  /\ InLoop({"hard"})
  /\ finished' = finished + 1
  /\ UNCHANGED tree
  /\ LET named == entry.to_safe /\ LinkedName(entry) # <<>> IN
     \/ /\ named
        /\ pending' = Append(pending, at + 1)
        /\ Onward /\ UNCHANGED <<bodies, directories, summary>>
     \/ /\ ~named /\ (entry.to_safe \/ options.unsafe = "skip")
        /\ Counted("refused")
        /\ Onward /\ UNCHANGED waiting
     \/ /\ ~entry.to_safe /\ options.unsafe = "refuse"
        /\ Stopped

SpecialEntry ==
  /\ InLoop({"special"})
  /\ finished' = finished + 1
  /\ Counted("specials")
  /\ Onward /\ UNCHANGED <<tree, waiting>>

DirectoryEntry ==
  /\ InLoop({"dir"})
  /\ \/ /\ LinkOnTheWay(tree, item.path)
        /\ Stopped /\ UNCHANGED <<tree, finished>>
     \/ /\ ~LinkOnTheWay(tree, item.path)
        /\ tree' = WithDirectories(tree, item.path)
        /\ directories' = Append(directories, at + 1)
        /\ Counted("directories")
        /\ finished' = finished + 1
        /\ Onward /\ UNCHANGED <<bodies, pending>>

LinkEntry ==
  /\ InLoop({"link"})
  /\ finished' = finished + 1
  /\ UNCHANGED waiting
  /\ LET path == item.path
         there == WithParents(tree, path)
     IN
     \/ /\ ~options.symlinks
        /\ Counted("skipped") /\ Onward /\ UNCHANGED tree
     \/ /\ options.symlinks /\ ParentBlocked(tree, path)
        /\ Stopped /\ UNCHANGED tree
     \/ /\ options.symlinks /\ ~ParentBlocked(tree, path)
        /\ \/ /\ entry.escapes
              /\ tree' = there
              /\ IF options.unsafe = "skip" THEN Counted("refused") /\ Onward ELSE Stopped
           \/ /\ ~entry.escapes /\ Taken(there, path) /\ options.overwrite = "never"
              /\ tree' = there /\ Counted("skipped") /\ Onward
           \/ /\ ~entry.escapes /\ Taken(there, path) /\ options.overwrite = "error"
              /\ tree' = there /\ Stopped
           \/ /\ ~entry.escapes /\ (Taken(there, path) => options.overwrite = "always")
              /\ \/ /\ Creatable(Cleared(there, path), path)
                    /\ tree' = [there EXCEPT ![path] = [kind |-> "link", by |-> item.index]]
                    /\ Counted("symlinks") /\ Onward
                 \/ /\ ~Creatable(Cleared(there, path), path)
                    /\ tree' = there /\ Stopped

(* Mutant: the file is finished with its check, not with its body.          *)
FileEntryEarly ==
  /\ InLoop({"file"})
  /\ finished' = finished + 1
  /\ tree' = WithParents(tree, item.path)
  /\ \/ /\ ~Taken(tree', item.path) /\ ~ParentBlocked(tree, item.path)
        /\ bodies' = Append(bodies, at + 1)
        /\ Onward /\ UNCHANGED <<pending, directories, summary>>
     \/ /\ Taken(tree', item.path) \/ ParentBlocked(tree, item.path)
        /\ Stopped

FileEntry ==
  /\ InLoop({"file"})
  /\ LET path == item.path
         there == WithParents(tree, path)
     IN
     \/ /\ ParentBlocked(tree, path)
        /\ Stopped /\ UNCHANGED <<tree, finished>>
     \/ /\ ~ParentBlocked(tree, path)
        /\ \/ /\ ~Taken(there, path) \/ options.overwrite = "always"
              /\ tree' = Cleared(there, path)
              /\ bodies' = Append(bodies, at + 1)
              /\ Onward /\ UNCHANGED <<pending, directories, summary, finished>>
           \/ /\ Taken(there, path) /\ options.overwrite = "never"
              /\ tree' = there
              /\ Counted("skipped") /\ finished' = finished + 1
              /\ Onward /\ UNCHANGED waiting
           \/ /\ Taken(there, path) /\ options.overwrite = "error"
              /\ tree' = there
              /\ Stopped /\ UNCHANGED finished

StartBodies ==
  /\ phase = "entries" /\ at = Len(plan)
  /\ phase' = "bodies" /\ at' = 0
  /\ count' = Len(bodies)
  /\ work' = [i \in 0 .. count' - 1 |-> "todo"]
  /\ summary' = [summary EXCEPT !.files = Len(bodies)]
  /\ UNCHANGED <<input, tree, planned, waiting, done, errs, error, result, made, finished, totals>>

-----------------------------------------------------------------------------
(* The bodies.                                                              *)

Target(i) == plan[bodies[i + 1]].path
Busy == {i \in DOMAIN work : work[i] = "partial"}

InPool(i, was) ==
  /\ phase = "bodies" /\ i \in DOMAIN work /\ work[i] = was
  /\ UNCHANGED <<input, phase, planned, at, waiting, made, summary, totals>>
Becomes(i, state) == work' = [work EXCEPT ![i] = state]

(* File::create or fs::write, which would write through a link.             *)
CreateBody(i) ==
  /\ InPool(i, "todo")
  /\ error = Pool!None /\ Cardinality(Busy) < Threads
  /\ \/ /\ Creatable(tree, Target(i))
        /\ Becomes(i, "partial")
        /\ tree' = IF tree[Target(i)].kind = "link" THEN tree
                   ELSE [tree EXCEPT ![Target(i)] = [kind |-> "partial", by |-> plan[bodies[i + 1]].index]]
        /\ UNCHANGED pool
     \/ /\ ~Creatable(tree, Target(i))
        /\ Becomes(i, "dead") /\ Pool!Fail(Pool!OfTask(i))
        /\ UNCHANGED tree
  /\ UNCHANGED finished

FailBody(i) ==
  /\ InPool(i, "partial")
  /\ Becomes(i, "dead") /\ Pool!Fail(Pool!OfTask(i))
  /\ UNCHANGED <<tree, finished>>

CompleteBody(i) ==
  /\ InPool(i, "partial")
  /\ tree' = IF tree[Target(i)].kind = "partial" THEN [tree EXCEPT ![Target(i)].kind = "file"] ELSE tree
  /\ Becomes(i, "done") /\ Pool!Complete(i)
  /\ finished' = finished + 1

(* A worker that cannot open the archive for itself.                        *)
OpenFails ==
  /\ phase = "bodies" /\ count > 0
  /\ errs = {}
  /\ \E w \in 0 .. Threads : Pool!Fail(Pool!OfInit(w))
  /\ UNCHANGED <<input, tree, phase, planned, at, waiting, work, made, summary, finished, totals>>

KeepFailure ==
  /\ phase = "bodies"
  /\ \E f \in errs : Pool!Keep(f)
  /\ UNCHANGED <<input, tree, phase, planned, at, waiting, work, made, summary, finished, totals>>

BodiesReturn ==
  /\ phase = "bodies" /\ Busy = {}
  /\ \/ Pool!ReturnOk /\ phase' = "hardlinks"
     \/ Pool!ReturnErr /\ phase' = "err"
  /\ UNCHANGED <<input, tree, planned, at, waiting, work, made, summary, finished, totals>>

-----------------------------------------------------------------------------
(* The hard links, in the order of the loop.                                *)

linkPath == plan[pending[at + 1]].path
linkSource == LinkedName(archive[plan[pending[at + 1]].index])
atParents == WithParents(tree, linkPath)

(* Path::exists follows the links there are on the way, and what those lead *)
(* to, nothing, a file or a directory, is left open.                        *)
Exists(there, path) == there[path].kind \in {"file", "dir"}
MayExist(there, path) == Exists(there, path) \/ LinkOnTheWay(there, path)
Linked(there, path) ==
  IF there[path] = Missing THEN [kind |-> "file", by |-> 0] ELSE there[path]

InLinks ==
  /\ phase = "hardlinks" /\ at < Len(pending)
  /\ UNCHANGED <<input, planned, waiting, work, pool, finished, totals>>

MakeHardLink ==
  /\ InLinks /\ ~ParentBlocked(tree, linkPath)
  /\ ~Taken(atParents, linkPath) \/ options.overwrite = "always"
  /\ LET there == Cleared(atParents, linkPath) IN
     /\ MayExist(there, linkSource)
     /\ there[linkSource].kind # "dir" /\ there[linkPath].kind # "dir"
     /\ tree' = [there EXCEPT ![linkPath] = Linked(there, linkSource)]
  /\ made' = made \cup {at + 1}
  /\ Onward /\ UNCHANGED summary

SkipHardLink ==
  /\ InLinks /\ ~ParentBlocked(tree, linkPath)
  /\ \/ /\ Taken(atParents, linkPath) /\ options.overwrite = "never"
        /\ tree' = atParents
     \/ /\ ~Taken(atParents, linkPath) \/ options.overwrite = "always"
        /\ tree' = Cleared(atParents, linkPath)
        /\ ~Exists(tree', linkSource)
  /\ Counted("skipped")
  /\ Onward /\ UNCHANGED made

(* A link above it, Overwrite::Error, or a directory in place of either.    *)
HardLinkFails ==
  /\ InLinks
  /\ \/ ParentBlocked(tree, linkPath) /\ tree' = tree
     \/ /\ ~ParentBlocked(tree, linkPath)
        /\ \/ /\ Taken(atParents, linkPath) /\ options.overwrite = "error"
              /\ tree' = atParents
           \/ /\ ~Taken(atParents, linkPath) \/ options.overwrite = "always"
              /\ tree' = Cleared(atParents, linkPath)
              /\ MayExist(tree', linkSource)
              /\ \/ "dir" \in {tree'[linkSource].kind, tree'[linkPath].kind}
                 \/ LinkOnTheWay(tree', linkSource)
  /\ Stopped /\ UNCHANGED made

LinksEnd ==
  /\ phase = "hardlinks" /\ at = Len(pending)
  /\ phase' = "seal" /\ at' = 0
  /\ UNCHANGED <<input, tree, planned, waiting, work, pool, made, summary, finished, totals>>

-----------------------------------------------------------------------------
(* The metadata of the directories.                                         *)

Directories == [n \in DOMAIN directories |-> plan[directories[n]]]

Seal ==
  /\ phase = "seal" /\ options.restore /\ at < Len(directories)
  /\ LET dir == Directories[DeepestFirst(Directories)[at + 1]] IN
     tree' = IF tree[dir.path].kind = "none" THEN tree ELSE [tree EXCEPT ![dir.path].by = dir.index]
  /\ at' = at + 1
  /\ UNCHANGED <<input, phase, planned, waiting, work, pool, made, summary, finished, totals>>

Finish ==
  /\ phase = "seal" /\ (options.restore => at = Len(directories))
  /\ phase' = "done"
  /\ summary' = [summary EXCEPT !.skipped = @ + planned.stripped + planned.collided]
  /\ UNCHANGED <<input, tree, planned, at, waiting, work, pool, made, finished, totals>>

Ended == phase \in {"done", "err"} /\ UNCHANGED vars

Next ==
  \/ Plan
  \/ HardLinkEntry \/ SpecialEntry \/ DirectoryEntry \/ LinkEntry \/ FileEntry \/ StartBodies
  \/ \E i \in DOMAIN work : CreateBody(i) \/ FailBody(i) \/ CompleteBody(i)
  \/ OpenFails \/ KeepFailure \/ BodiesReturn
  \/ MakeHardLink \/ SkipHardLink \/ HardLinkFails \/ LinksEnd
  \/ Seal \/ Finish
  \/ Ended

Spec == Init /\ [][Next]_vars

-----------------------------------------------------------------------------
(* Whatever the loop did after it looked at a file's place, a success       *)
(* leaves the destination that plan, options and what stood there before    *)
(* determine, at every path but those of hard links.                        *)
NeededBy(s) ==
  LET p == plan[s].path
      e == archive[plan[s].index]
  IN  CASE plan[s].kind = "dir" -> Ancestry(p)
        [] plan[s].kind = "special" \/ (plan[s].kind = "link" /\ ~options.symlinks) -> {}
        [] plan[s].kind = "hard" -> IF s \in ToSet(pending) THEN Above(p) ELSE {}
        [] OTHER -> Above(p)

NeededPaths == UNION {NeededBy(s) : s \in DOMAIN plan}

Restored(p) ==
  {s \in DOMAIN plan :
     /\ plan[s].path = p /\ plan[s].kind \in {"file", "link"}
     /\ before[p] = Missing \/ (options.overwrite = "always" /\ before[p].kind # "dir")
     /\ plan[s].kind = "link" => options.symlinks /\ ~archive[plan[s].index].escapes}

LastDirectory(p) ==
  LET dirs == {s \in DOMAIN plan : plan[s].path = p /\ plan[s].kind = "dir"}
  IN  IF dirs = {} \/ ~options.restore THEN 0
      ELSE plan[CHOOSE s \in dirs : \A t \in dirs : t <= s].index

Expected(p) ==
  IF p \in NeededPaths THEN [kind |-> "dir", by |-> LastDirectory(p)]
  ELSE IF Restored(p) = {} THEN before[p]
  ELSE LET s == CHOOSE s \in Restored(p) : TRUE IN [kind |-> plan[s].kind, by |-> plan[s].index]

ResultIsDetermined ==
  phase = "done" =>
    \A p \in Paths : (\A s \in ToSet(pending) : plan[s].path # p) => tree[p] = Expected(p)

(* A hard link that is counted is the file of the name it points at, as the *)
(* options have it, and stays it until a later hard link takes one of the   *)
(* two names, stands below one, where it makes a directory of it, or takes  *)
(* the place of a link above the name that is pointed at.                   *)
HardLinksShare ==
  phase = "done" =>
    \A n \in made :
      LET path == plan[pending[n]].path
          source == StripLeading(archive[plan[pending[n]].index].to, StripDepth(archive, options))
      IN  \/ tree[path] = tree[source]
          \/ \E p \in Above(source) : tree[p].kind = "link"
          \/ \E m \in DOMAIN pending :
               /\ m > n
               /\ LET later == plan[pending[m]].path
                  IN  later \in Above(source) \/ {path, source} \cap Ancestry(later) # {}

(* Every entry that was selected is in exactly one count of the summary.    *)
Accounted ==
  phase = "done" =>
    summary.files + summary.directories + summary.symlinks + Cardinality(made) + summary.specials
      + summary.skipped + summary.refused
      = Len(SelectSeq(Chosen(archive, options), LAMBDA e : e.kind # "root"))

(* The bar that counts entries is full exactly when the last file, link and *)
(* directory has been dealt with, and not before a body is written.         *)
EntriesComplete ==
  /\ phase = "done" => finished = totals
  /\ \A i \in DOMAIN work : work[i] # "done" => finished < totals
=============================================================================
