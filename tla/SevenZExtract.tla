--------------------------- MODULE SevenZExtract ---------------------------
(***************************************************************************)
(* pipeline::sevenz: a 7z archive onto a destination.  Entries with bytes   *)
(* lie one after the other in folders, which can only be read from their    *)
(* beginning, so the workers of pool::for_each share folders and each       *)
(* takes its entries in the order they lie there.  A link's bytes are set   *)
(* aside until the folders are done; then come the deletions the archive    *)
(* asks for (anti items) and the metadata of directories.                   *)
(*                                                                          *)
(* Every entry with bytes has one unit of them, at the offset that counts   *)
(* the entries before it in its folder, whether they are selected or not.   *)
(***************************************************************************)
EXTENDS Layout, FiniteSetsExt

VARIABLES
  archive, options, before,     \* the archive, the options and the destination that are given
  tree,                         \* the destination
  phase,                        \* the part of `extract` that runs
  planned,                      \* what build_plan returned
  at,                           \* entries the loop of the phase has behind it
  work,                         \* where the worker of each folder is
  cursor,                       \* entries of each folder it has behind it
  position,                     \* bytes of each folder it has behind it
  links,                        \* the links set aside: [slot, by], `by` the entry that was read
  count, done, errs, error, result,   \* the call of for_each
  summary,                      \* ExtractSummary
  finished, totals              \* entries reported as finished, and announced

input == <<archive, options, before>>
folders == <<work, cursor, position, links>>
pool == <<count, done, errs, error, result>>
vars == <<input, tree, phase, planned, at, folders, pool, summary, finished, totals>>

Pool == INSTANCE ForEach WITH MaxCount <- MaxEntries, MaxThreads <- Threads

plan == planned.plan
item == plan[at + 1]
Folder(s) == archive[plan[s].index].folder
Slots(Test(_)) == InOrder({s \in DOMAIN plan : Test(s)}, <)
Nothing == [files |-> 0, directories |-> 0, symlinks |-> 0, specials |-> 0, skipped |-> 0, refused |-> 0,
            deleted |-> 0]

(* Where the bytes of the entries lie.                                      *)
Lying(folder) == {i \in DOMAIN archive : archive[i].folder = folder}
Before(i) == Cardinality({j \in Lying(archive[i].folder) : j < i})
EntryAt(folder, offset) ==   \* 0 past the end of the folder
  IF offset < Cardinality(Lying(folder)) THEN CHOOSE i \in Lying(folder) : Before(i) = offset ELSE 0

(* group_by_folder: the folders in the order of the plan, and the slots of  *)
(* each in the order of their offsets.                                      *)
Located == {s \in DOMAIN plan : Folder(s) # 0 /\ plan[s].kind # "dir"}
FolderOrder ==
  LET first(f) == Min({s \in Located : Folder(s) = f})
  IN  InOrder({Folder(s) : s \in Located}, LAMBDA f, g : first(f) < first(g))
InFolder(g) == {s \in Located : Folder(s) = FolderOrder[g + 1]}

(* Mutant: the slots stay in plan order.                                    *)
GroupInPlanOrder(g) == InOrder(InFolder(g), <)

Group(g) == InOrder(InFolder(g), LAMBDA s, t : Before(plan[s].index) < Before(plan[t].index))

TypeOK ==
  /\ tree \in [Paths -> Node]
  /\ phase \in {"plan", "directories", "empty", "folders", "links", "deletions", "seal", "done", "err"}
  /\ at \in 0 .. Len(archive)
  /\ work \in [Pool!Index -> {"todo", "entry", "open", "partial", "done", "dead"}]
  /\ \A g \in DOMAIN work : /\ cursor[g] \in 0 .. Len(Group(g))
                            /\ position[g] \in 0 .. Cardinality(Lying(FolderOrder[g + 1]))
  /\ \A l \in links : l.slot \in Located /\ l.by \in DOMAIN archive
  /\ done \subseteq Pool!Index /\ errs \subseteq Pool!Failure
  /\ error \in errs \cup {Pool!None} /\ result \in {"open", "ok", "err"}
  /\ summary \in [DOMAIN Nothing -> Nat]
  /\ finished \in Nat /\ totals \in Nat

Init ==
  /\ \E i \in Inputs : archive \in i.archives /\ options \in i.choices /\ before \in i.destinations
  /\ tree = before
  /\ phase = "plan" /\ planned = NoPlan /\ at = 0
  /\ work = <<>> /\ cursor = <<>> /\ position = <<>> /\ links = {}
  /\ count = 0 /\ done = {} /\ errs = {} /\ error = Pool!None /\ result = "open"
  /\ summary = Nothing /\ finished = 0 /\ totals = 0

Counted(field) == summary' = [summary EXCEPT ![field] = @ + 1]
Onward == at' = at + 1 /\ UNCHANGED phase
Stopped == phase' = "err" /\ UNCHANGED <<at, summary>>

-----------------------------------------------------------------------------
(* build_plan and set_totals: anti items and opaque reparse points are not  *)
(* part of the plan, nor of the totals.                                     *)
Plan ==
  /\ phase = "plan"
  /\ planned' = BuildPlan(archive, options)
  /\ phase' = IF planned'.failed THEN "err" ELSE "directories"
  /\ summary' = [summary EXCEPT !.refused = planned'.refused, !.specials = planned'.specials,
                                !.skipped = planned'.stripped + planned'.collided]
  /\ totals' = IF planned'.failed THEN 0 ELSE Len(planned'.plan)
  /\ UNCHANGED <<input, tree, at, folders, pool, finished>>

InLoop(here, length) ==
  /\ phase = here /\ at < length
  /\ UNCHANGED <<input, planned, folders, pool, totals>>

LoopEnds(here, length, there) ==
  /\ phase = here /\ at = length
  /\ phase' = there /\ at' = 0
  /\ UNCHANGED <<input, tree, planned, pool, summary, finished, totals>>

(* Mutant: the metadata of a directory is set as soon as it is made.        *)
MakeDirectorySealed ==
  /\ InLoop("directories", Len(plan)) /\ item.kind = "dir"
  /\ IF LinkOnTheWay(tree, item.path)
     THEN Stopped /\ UNCHANGED <<tree, finished>>
     ELSE /\ tree' = [WithDirectories(tree, item.path) EXCEPT ![item.path].by = item.index]
          /\ Counted("directories") /\ finished' = finished + 1
          /\ Onward

MakeDirectory ==
  /\ InLoop("directories", Len(plan)) /\ item.kind = "dir"
  /\ \/ /\ LinkOnTheWay(tree, item.path)
        /\ Stopped /\ UNCHANGED <<tree, finished>>
     \/ /\ ~LinkOnTheWay(tree, item.path)
        /\ tree' = WithDirectories(tree, item.path)
        /\ Counted("directories") /\ finished' = finished + 1
        /\ Onward

MakeParents ==
  /\ InLoop("directories", Len(plan)) /\ item.kind # "dir"
  /\ UNCHANGED <<finished, summary>>
  /\ \/ /\ ParentBlocked(tree, item.path)
        /\ phase' = "err" /\ UNCHANGED <<at, tree>>
     \/ /\ ~ParentBlocked(tree, item.path)
        /\ tree' = WithParents(tree, item.path)
        /\ Onward

DirectoriesEnd == LoopEnds("directories", Len(plan), "empty") /\ UNCHANGED folders

-----------------------------------------------------------------------------
(* The files that own no bytes.                                             *)

Empties == Slots(LAMBDA s : plan[s].kind = "file" /\ Folder(s) = 0)

WriteEmpty ==
  /\ InLoop("empty", Len(Empties))
  /\ LET file == plan[Empties[at + 1]] IN
     \/ /\ ~Taken(tree, file.path) \/ options.overwrite = "always"
        /\ \/ /\ Creatable(Cleared(tree, file.path), file.path)
              /\ tree' = [tree EXCEPT ![file.path] = [kind |-> "file", by |-> file.index]]
              /\ Counted("files") /\ finished' = finished + 1
              /\ Onward
           \/ /\ ~Creatable(Cleared(tree, file.path), file.path)
              /\ Stopped /\ UNCHANGED <<tree, finished>>
     \/ /\ Taken(tree, file.path) /\ options.overwrite = "never"
        /\ Counted("skipped") /\ finished' = finished + 1
        /\ Onward /\ UNCHANGED tree
     \/ /\ Taken(tree, file.path) /\ options.overwrite = "error"
        /\ Stopped /\ UNCHANGED <<tree, finished>>

StartFolders ==
  /\ phase = "empty" /\ at = Len(Empties)
  /\ phase' = "folders" /\ at' = 0
  /\ count' = Len(FolderOrder)
  /\ work' = [g \in 0 .. count' - 1 |-> "todo"]
  /\ cursor' = [g \in 0 .. count' - 1 |-> 0]
  /\ position' = [g \in 0 .. count' - 1 |-> 0]
  /\ UNCHANGED <<input, tree, planned, links, done, errs, error, result, summary, finished, totals>>

-----------------------------------------------------------------------------
(* The folders.                                                             *)

Busy == {g \in DOMAIN work : work[g] \in {"entry", "open", "partial"}}
slot(g) == Group(g)[cursor[g] + 1]
Target(g) == plan[slot(g)].path

InPool(g, was) ==
  /\ phase = "folders" /\ g \in DOMAIN work /\ work[g] = was
  /\ UNCHANGED <<input, phase, planned, at, totals>>
Becomes(g, state) == work' = [work EXCEPT ![g] = state]
FolderFails(g) == Becomes(g, "dead") /\ Pool!Fail(Pool!OfTask(g)) /\ UNCHANGED <<cursor, position, links, summary, finished>>

(* discard, up to the offset of the entry: a stream does not go back.       *)
Discarded(g) == LET offset == Before(plan[slot(g)].index) IN
  IF offset > position[g] THEN offset ELSE position[g]
NextEntry(g, where) ==
  /\ position' = [position EXCEPT ![g] = where]
  /\ cursor' = [cursor EXCEPT ![g] = @ + 1]

OpenFolder(g) ==
  /\ InPool(g, "todo")
  /\ error = Pool!None /\ Cardinality(Busy) < Threads
  /\ UNCHANGED tree
  /\ \/ /\ Becomes(g, "entry")
        /\ UNCHANGED <<cursor, position, links, pool, summary, finished>>
     \/ FolderFails(g)

HasNext(g) == cursor[g] < Len(Group(g))

ReadLink(g) ==
  /\ InPool(g, "entry") /\ HasNext(g) /\ plan[slot(g)].kind = "link"
  /\ UNCHANGED tree
  /\ \/ /\ EntryAt(Folder(slot(g)), Discarded(g)) # 0
        /\ links' = links \cup {[slot |-> slot(g), by |-> EntryAt(Folder(slot(g)), Discarded(g))]}
        /\ NextEntry(g, Discarded(g) + 1)
        /\ UNCHANGED <<work, pool, summary, finished>>
     \/ FolderFails(g)

CheckFile(g) ==
  /\ InPool(g, "entry") /\ HasNext(g) /\ plan[slot(g)].kind = "file"
  /\ \/ /\ ~Taken(tree, Target(g)) \/ options.overwrite = "always"
        /\ tree' = Cleared(tree, Target(g))
        /\ Becomes(g, "open")
        /\ UNCHANGED <<cursor, position, links, pool, summary, finished>>
     \/ /\ Taken(tree, Target(g)) /\ options.overwrite = "never"
        /\ NextEntry(g, Discarded(g) + 1) /\ finished' = finished + 1
        /\ Counted("skipped")
        /\ UNCHANGED <<tree, work, links, pool>>
     \/ /\ Taken(tree, Target(g)) /\ options.overwrite = "error"
        /\ FolderFails(g) /\ UNCHANGED tree

CreateFile(g) ==
  /\ InPool(g, "open")
  /\ \/ /\ Creatable(tree, Target(g))
        /\ tree' = IF tree[Target(g)].kind = "link" THEN tree   \* written through
                   ELSE [tree EXCEPT ![Target(g)] =
                           [kind |-> "partial", by |-> EntryAt(Folder(slot(g)), Discarded(g))]]
        /\ Becomes(g, "partial")
        /\ UNCHANGED <<cursor, position, links, pool, summary, finished>>
     \/ /\ ~Creatable(tree, Target(g))
        /\ FolderFails(g) /\ UNCHANGED tree

(* copy_entry finds the folder too short or the checksum wrong, in which    *)
(* case the file stays as far as it was written.                            *)
FailFile(g) ==
  /\ InPool(g, "partial")
  /\ FolderFails(g) /\ UNCHANGED tree

CompleteFile(g) ==
  /\ InPool(g, "partial")
  /\ tree' = IF tree[Target(g)].kind = "partial" THEN [tree EXCEPT ![Target(g)].kind = "file"] ELSE tree
  /\ Becomes(g, "entry")
  /\ NextEntry(g, Discarded(g) + 1) /\ finished' = finished + 1
  /\ Counted("files")
  /\ UNCHANGED <<links, pool>>

CompleteFolder(g) ==
  /\ InPool(g, "entry") /\ ~HasNext(g)
  /\ Becomes(g, "done") /\ Pool!Complete(g)
  /\ UNCHANGED <<tree, cursor, position, links, summary, finished>>

KeepFailure ==
  /\ phase = "folders"
  /\ \E f \in errs : Pool!Keep(f)
  /\ UNCHANGED <<input, tree, phase, planned, at, folders, summary, finished, totals>>

FoldersReturn ==
  /\ phase = "folders" /\ Busy = {}
  /\ \/ Pool!ReturnOk /\ phase' = "links"
     \/ Pool!ReturnErr /\ phase' = "err"
  /\ UNCHANGED <<input, tree, planned, at, folders, summary, finished, totals>>

-----------------------------------------------------------------------------
(* The links, in plan order.                                                *)

LinkOrder == InOrder(links, LAMBDA l, m : l.slot < m.slot)
link == plan[LinkOrder[at + 1].slot]
escapes == archive[LinkOrder[at + 1].by].escapes

MakeLink ==
  /\ InLoop("links", Cardinality(links))
  /\ UNCHANGED finished
  /\ \/ /\ ~options.symlinks \/ (~escapes /\ Taken(tree, link.path) /\ options.overwrite = "never")
        /\ Counted("skipped") /\ Onward /\ UNCHANGED tree
     \/ /\ options.symlinks /\ escapes
        /\ UNCHANGED tree
        /\ IF options.unsafe = "skip" THEN Counted("refused") /\ Onward ELSE Stopped
     \/ /\ options.symlinks /\ ~escapes
        /\ ~Taken(tree, link.path) \/ options.overwrite = "always"
        /\ \/ /\ Creatable(Cleared(tree, link.path), link.path)
              /\ tree' = [tree EXCEPT ![link.path] = [kind |-> "link", by |-> LinkOrder[at + 1].by]]
              /\ Counted("symlinks") /\ Onward
           \/ /\ ~Creatable(Cleared(tree, link.path), link.path)
              /\ Stopped /\ UNCHANGED tree
     \/ /\ options.symlinks /\ ~escapes /\ Taken(tree, link.path) /\ options.overwrite = "error"
        /\ Stopped /\ UNCHANGED tree

LinksEnd == LoopEnds("links", Cardinality(links), "deletions") /\ UNCHANGED folders

-----------------------------------------------------------------------------
(* apply_deletions: a path that the archive also writes is left, and so is  *)
(* what is not there, or is a directory that still holds something.         *)

anti == planned.anti[DeepestFirst(planned.anti)[at + 1]].path
HoldsSomething(path) == \E p \in Paths : path \in Above(p) /\ tree[p] # Missing
Written(path) == \E s \in DOMAIN plan : plan[s].path = path

(* The error for a path below a plain file is not NotFound.                 *)
FileOnTheWay(path) == \E p \in Above(path) : tree[p].kind = "file"

Delete ==
  /\ InLoop("deletions", Len(planned.anti))
  /\ UNCHANGED finished
  /\ Above(anti) = {} \/ ~LinkOnTheWay(tree, Front(anti))
  /\ LET there == tree[anti] # Missing /\ ~Written(anti) IN
     \/ /\ ~there /\ (Written(anti) \/ ~FileOnTheWay(anti))
        /\ Onward /\ UNCHANGED <<tree, summary>>
     \/ /\ ~Written(anti) /\ FileOnTheWay(anti)
        /\ Stopped /\ UNCHANGED tree
     \/ /\ there
        /\ \/ options.overwrite = "never"
           \/ options.overwrite = "always" /\ HoldsSomething(anti)
        /\ Counted("skipped") /\ Onward /\ UNCHANGED tree
     \/ /\ there /\ options.overwrite = "error"
        /\ Stopped /\ UNCHANGED tree
     \/ /\ there /\ options.overwrite = "always" /\ ~HoldsSomething(anti)
        /\ tree' = [tree EXCEPT ![anti] = Missing]
        /\ Counted("deleted") /\ Onward

(* Below a link it depends on where that leads, which is left open: nowhere *)
(* (nothing is done), outside the destination, or to some path inside it,   *)
(* which is then what is deleted.                                           *)
DeleteThroughLink ==
  /\ InLoop("deletions", Len(planned.anti))
  /\ Len(anti) > 1 /\ LinkOnTheWay(tree, Front(anti))
  /\ UNCHANGED finished
  /\ \/ Onward /\ UNCHANGED <<tree, summary>>
     \/ /\ ~Written(anti)
        /\ \/ options.unsafe = "skip" /\ Counted("refused") /\ Onward
           \/ options.overwrite # "error" /\ Counted("skipped") /\ Onward
           \/ (options.unsafe = "refuse" \/ options.overwrite = "error") /\ Stopped
        /\ UNCHANGED tree
     \/ /\ ~Written(anti) /\ options.overwrite = "always"
        /\ \E p \in Paths : /\ tree[p] # Missing /\ ~HoldsSomething(p)
                            /\ tree' = [tree EXCEPT ![p] = Missing]
        /\ Counted("deleted") /\ Onward

DeletionsEnd == LoopEnds("deletions", Len(planned.anti), "seal") /\ UNCHANGED folders

-----------------------------------------------------------------------------
(* The metadata of the directories.                                         *)

Directories == LET slots == Slots(LAMBDA s : plan[s].kind = "dir") IN [n \in DOMAIN slots |-> plan[slots[n]]]

Seal ==
  /\ InLoop("seal", Len(Directories)) /\ options.restore
  /\ LET dir == Directories[DeepestFirst(Directories)[at + 1]] IN
     tree' = IF tree[dir.path].kind = "none" THEN tree ELSE [tree EXCEPT ![dir.path].by = dir.index]
  /\ Onward /\ UNCHANGED <<summary, finished>>

Finish ==
  /\ phase = "seal" /\ (options.restore => at = Len(Directories))
  /\ phase' = "done"
  /\ UNCHANGED <<input, tree, planned, at, folders, pool, summary, finished, totals>>

Ended == phase \in {"done", "err"} /\ UNCHANGED vars

Next ==
  \/ Plan \/ MakeDirectory \/ MakeParents \/ DirectoriesEnd \/ WriteEmpty \/ StartFolders
  \/ \E g \in DOMAIN work : \/ OpenFolder(g) \/ ReadLink(g) \/ CheckFile(g) \/ CreateFile(g)
                            \/ FailFile(g) \/ CompleteFile(g) \/ CompleteFolder(g)
  \/ KeepFailure \/ FoldersReturn
  \/ MakeLink \/ LinksEnd
  \/ Delete \/ DeleteThroughLink \/ DeletionsEnd
  \/ Seal \/ Finish
  \/ Ended

Spec == Init /\ [][Next]_vars

-----------------------------------------------------------------------------
(* However the folders are shared out, each file and link gets the bytes    *)
(* that lie at its own offset: a success leaves the destination that plan,  *)
(* options and what stood there determine, but for the paths of anti items, *)
(* and for everything where one of them stands below a link.                *)
LinkLeads ==
  \E n \in DOMAIN planned.anti : \E q \in Above(planned.anti[n].path) :
    before[q].kind = "link" \/ \E s \in DOMAIN plan : plan[s].path = q /\ plan[s].kind = "link"
Deletable(p) == LinkLeads \/ \E n \in DOMAIN planned.anti : planned.anti[n].path = p
Restored(p) ==
  {s \in DOMAIN plan :
     /\ plan[s].path = p /\ plan[s].kind # "dir"
     /\ before[p] = Missing \/ (options.overwrite = "always" /\ before[p].kind # "dir")
     /\ plan[s].kind = "link" => options.symlinks /\ ~archive[plan[s].index].escapes /\ Folder(s) # 0}

LastDirectory(p) ==
  LET dirs == {s \in DOMAIN plan : plan[s].path = p /\ plan[s].kind = "dir"}
  IN  IF dirs = {} \/ ~options.restore THEN 0
      ELSE plan[CHOOSE s \in dirs : \A t \in dirs : t <= s].index

Expected(p) ==
  IF p \in Needed(plan) THEN [kind |-> "dir", by |-> LastDirectory(p)]
  ELSE IF Restored(p) = {} THEN before[p]
  ELSE LET s == CHOOSE s \in Restored(p) : TRUE IN [kind |-> plan[s].kind, by |-> plan[s].index]

ResultIsDetermined == phase = "done" => \A p \in Paths : ~Deletable(p) => tree[p] = Expected(p)

(* What an anti item names is gone after a success that may overwrite, but  *)
(* for a path the archive also writes and a directory that still holds      *)
(* something, and where a link leads one of them who knows where.           *)
AntiItemsApplied ==
  phase = "done" /\ options.overwrite = "always" /\ ~LinkLeads =>
    \A n \in DOMAIN planned.anti :
      LET p == planned.anti[n].path IN
      \/ tree[p] = Missing \/ Written(p) \/ HoldsSomething(p)

(* Every selected entry is in at most one count of the summary, and in one  *)
(* unless it is an anti item that had nothing to delete or a link without   *)
(* bytes.                                                                   *)
Total == summary.files + summary.directories + summary.symlinks + summary.specials + summary.skipped
           + summary.refused + summary.deleted
Accounted ==
  phase = "done" =>
    /\ Total <= Len(Chosen(archive, options))
    /\ planned.anti = <<>> /\ (\A s \in DOMAIN plan : plan[s].kind = "link" => Folder(s) # 0)
         => Total = Len(Chosen(archive, options))

(* A success has reported every entry it announced but for the links.       *)
EntriesCompleteButLinks ==
  phase = "done" => finished + Len(Slots(LAMBDA s : plan[s].kind = "link")) = totals
============================================================================
