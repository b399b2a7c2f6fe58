--------------------------- MODULE Results_proof ----------------------------
(***************************************************************************)
(* What an extraction leaves, for every set of paths, every archive, every  *)
(* destination and any number of workers, whatever their order: each place  *)
(* goes with the entries of the plan from phase to phase, as long as no     *)
(* other can change it, until the archive, the options and the destination  *)
(* that was found say what stands there.                                    *)
(***************************************************************************)
EXTENDS Extraction_proof

-----------------------------------------------------------------------------
(* What a zip leaves: the state of each file is the one its worker has it   *)
(* in, and the links are taken in turn.                                     *)
As(state) == IF state = "skipped" THEN "done" ELSE state
FilesAre(st, states) ==
  /\ \A s \in Ordinary : planned.plan[s].kind # "file" => st[s] = "todo"
  /\ \A i \in DOMAIN states : st[SlotsOf("file")[i + 1]] = As(states[i])
LinksAre(st, n) ==
  /\ \A s \in Ordinary : planned.plan[s].kind # "link" => st[s] = "done"
  /\ \A m \in 1 .. Len(SlotsOf("link")) : st[SlotsOf("link")[m]] = IF m <= n THEN "done" ELSE "todo"

ZipLeft ==
  /\ phase \in {"plan", "directories"} => done = {} /\ (phase = "plan" => at = 0)
  /\ phase = "directories" =>
       at <= Len(planned.plan) /\ \E N, st : N = NeededTo(at) /\ st = AllWait /\ Known(tree, N, st)
  /\ phase = "files" =>
       /\ at = 0 /\ count = Len(SlotsOf("file"))
       /\ \A i \in done : i \in DOMAIN work /\ work[i] \in {"done", "skipped"}
       /\ \E st : Known(tree, Needed(planned.plan), st) /\ FilesAre(st, work)
  /\ phase = "links" =>
       /\ options.symlinks /\ at <= Len(SlotsOf("link"))
       /\ \E st : Known(tree, Needed(planned.plan), st) /\ LinksAre(st, at)
  /\ phase = "seal" =>
       /\ at <= Len(SlotsOf("dir")) /\ (~ options.restore => at = 0)
       /\ Sealing(tree, Needed(planned.plan), {}, ItemsOf("dir"), at)
  /\ phase = "done" => Settled(tree, Needed(planned.plan), {})

(* A worker goes on with its file.                                          *)
LEMMA FileGoesOn ==
  ASSUME IInv, format = "zip", phase = "files", NEW st, FilesAre(st, work), NEW i \in DOMAIN work,
         NEW w \in {"todo", "open", "partial", "done", "skipped", "dead"}, st \in States,
         NEW states, states = [work EXCEPT ![i] = w]
  PROVE  FilesAre(Turns(st, SlotsOf("file")[i + 1], As(w)), states)
<1> DEFINE q == SlotsOf("file")
           s == q[i + 1]
           v == Turns(st, s, As(w))
<1>1. DOMAIN work = 0 .. Len(q) - 1 /\ Len(q) \in Nat
  BY SlotsSort DEF IInv, ZipInv
<1>2. /\ \A j \in DOMAIN work : j + 1 \in 1 .. Len(q)
      /\ \A j \in DOMAIN work : j # i => j + 1 # i + 1
  BY <1>1
<1>3. /\ \A j \in DOMAIN work : q[j + 1] \in Ordinary /\ planned.plan[q[j + 1]].kind = "file"
      /\ \A j \in DOMAIN work : j # i => q[j + 1] # s
  BY <1>2, SlotsSort DEF IInv
<1> HIDE DEF q
<1>4. v[s] = As(w) /\ \A r \in Ordinary : r # s => v[r] = st[r]
  BY <1>3 DEF Turns, States
<1> HIDE DEF s, v
<1>5. \A r \in Ordinary : planned.plan[r].kind # "file" => v[r] = "todo"
  BY <1>3, <1>4 DEF FilesAre, s
<1>6. \A j \in DOMAIN work : v[q[j + 1]] = As(states[j])
  BY <1>3, <1>4 DEF FilesAre, q, s
<1>7. DOMAIN states = DOMAIN work
  OBVIOUS
<1> QED
  BY <1>5, <1>6, <1>7 DEF FilesAre, q, s, v

(* The directories.                                                         *)
LEMMA ZipDirectoriesLeave ==
  ASSUME IInv, IInv', PlanMoves, ZipLeft, format = "zip",
         OfZip!Plan \/ OfZip!MakeDirectory \/ OfZip!MakeParents \/ OfZip!StartFiles
  PROVE  ZipLeft'
<1>0. PlanInv /\ PlanInv' /\ IsTree(tree) /\ at \in Nat /\ OfZip!plan = planned.plan /\ done' = done
      /\ UNCHANGED <<archive, options, before, format>>
  BY DEF IInv, TreeInv, ZipInv, OfZip!plan, PlanMoves, OfZip!Plan, OfZip!MakeDirectory, OfZip!MakeParents, OfZip!StartFiles,
         OfZip!Fails, OfZip!pool
<1>1. CASE OfZip!Plan
  <2>1. phase = "plan" /\ phase' \in {"directories", "err"} /\ at' = at /\ tree' = tree
    BY <1>1 DEF OfZip!Plan
  <2>2. at = 0 /\ tree' = before' /\ done' = {}
    BY <1>0, <2>1 DEF ZipLeft, PlanInv
  <2>3. PICK st : st = AllWait'
    OBVIOUS
  <2>4. Known(tree, {}, st)'
    BY <1>0, <2>2, <2>3, WaitsAtFirst
  <2>5. NeededTo(at)' = {} /\ at' <= Len(planned.plan)'
    <3>1. Len(planned'.plan) \in Nat
      <4>1. PICK a, o : a = archive' /\ o = options'
        OBVIOUS
      <4>2. IsArchive(a) /\ IsOptions(o) /\ planned' = BuildPlan(a, o)
        BY <1>0, <2>1, <4>1 DEF PlanInv
      <4>3. BuildPlan(a, o) \in Plans(a, o)
        BY <4>2, BuildPlanType
      <4> QED
        BY <4>2, <4>3, PlansFacts
    <3>2. \A n : n \in 1 .. 0 => FALSE
      OBVIOUS
    <3> QED
      BY <2>1, <2>2, <3>1, <3>2 DEF NeededTo
  <2>6. phase' = "directories" => \E N, r : N = NeededTo(at)' /\ r = AllWait' /\ Known(tree, N, r)'
    BY <2>3, <2>4, <2>5
  <2> QED
    BY <2>1, <2>2, <2>5, <2>6 DEF ZipLeft
<1>2. ASSUME phase = "directories", at < Len(planned.plan), at' = at + 1, phase' = phase, planned' = planned,
             \/ /\ planned.plan[at + 1].kind = "dir" /\ tree' = WithDirectories(tree, planned.plan[at + 1].path)
             \/ /\ planned.plan[at + 1].kind # "dir" /\ tree' = WithParents(tree, planned.plan[at + 1].path)
      PROVE  ZipLeft'
  <2> DEFINE s == at + 1
             path == planned.plan[s].path
  <2>1. s \in DOMAIN planned.plan /\ path \in Paths /\ at + 1 <= Len(planned.plan)
    <3>1. s \in DOMAIN planned.plan
      BY <1>0, <1>2, PlannedFacts
    <3> QED
      BY <1>0, <1>2, <3>1, PlannedFacts
  <2> HIDE DEF s
  <2>2. PICK N, st : N = NeededTo(at) /\ st = AllWait /\ Known(tree, N, st)
    BY <1>2 DEF ZipLeft
  <2>3. SealedIn(tree) = {} /\ \A r \in Ordinary : st[r] # "partial"
    BY <1>2, <2>2 DEF IInv, TreeInv, AllWait
  <2> HIDE DEF path
  <2>4. /\ Known(WithDirectories(tree, path), N \cup Ancestry(path), st)
        /\ Known(WithParents(tree, path), N \cup Above(path), st)
    BY <1>0, <1>2, <2>1, <2>2, <2>3, DirectoriesHold
  <2>5. PICK M : M = N \cup NeededAt(s)
    OBVIOUS
  <2>6. Known(tree', M, st)
    BY <1>2, <2>4, <2>5 DEF NeededAt, PathAt, path, s
  <2>7. Known(tree, M, st)'
    BY <1>0, <1>2, <2>6, KnownStays
  <2>8. M = NeededTo(at)'
    <3>1. NeededTo(at + 1) = NeededTo(at) \cup NeededAt(at + 1)
      BY <1>0, NeededGrows
    <3>2. NeededTo(at)' = NeededTo(at + 1)
      BY <1>2 DEF NeededTo, NeededAt, PathAt
    <3> QED
      BY <2>2, <2>5, <3>1, <3>2 DEF s
  <2>9. st = AllWait'
    BY <1>2, <2>2 DEF AllWait, Ordinary
  <2> QED
    BY <1>0, <1>2, <2>1, <2>7, <2>8, <2>9 DEF ZipLeft
<1>3. ASSUME phase = "directories", phase' = "err" PROVE ZipLeft'
  BY <1>3 DEF ZipLeft
<1>4. CASE OfZip!MakeDirectory
  <2>1. \/ phase = "directories" /\ phase' = "err"
        \/ /\ phase = "directories" /\ at < Len(planned.plan) /\ at' = at + 1 /\ phase' = phase /\ planned' = planned
           /\ planned.plan[at + 1].kind = "dir" /\ tree' = WithDirectories(tree, planned.plan[at + 1].path)
    BY <1>0, <1>4, OfZipTree DEF OfZip!MakeDirectory, OfZip!Fails
  <2> QED
    BY <1>2, <1>3, <2>1
<1>5. CASE OfZip!MakeParents
  <2>1. \/ phase = "directories" /\ phase' = "err"
        \/ /\ phase = "directories" /\ at < Len(planned.plan) /\ at' = at + 1 /\ phase' = phase /\ planned' = planned
           /\ planned.plan[at + 1].kind # "dir" /\ tree' = WithParents(tree, planned.plan[at + 1].path)
    BY <1>0, <1>5, OfZipTree DEF OfZip!MakeParents, OfZip!Fails
  <2> QED
    BY <1>2, <1>3, <2>1
<1>6. CASE OfZip!StartFiles
  <2>1. /\ phase = "directories" /\ at = Len(planned.plan) /\ phase' = "files" /\ planned' = planned /\ tree' = tree /\ at' = 0
        /\ count' = Len(SlotsOf("file")) /\ work' = [i \in 0 .. Len(SlotsOf("file")) - 1 |-> "todo"]
    BY <1>0, <1>6, OfZipSlots DEF OfZip!StartFiles
  <2>2. PICK N, st : N = NeededTo(at) /\ st = AllWait /\ Known(tree, N, st)
    BY <2>1 DEF ZipLeft
  <2>3. N = Needed(planned.plan) /\ Needed(planned.plan)' = N
    BY <1>0, <2>1, <2>2, NeededGrows
  <2>4. Known(tree, N, st)'
    BY <1>0, <2>1, <2>2, KnownStays
  <2>5. done' = {} /\ at' = 0 /\ count' = Len(SlotsOf("file"))' /\ Ordinary' = Ordinary /\ SlotsOf("file")' = SlotsOf("file")
    BY <1>0, <2>1, SealingStays DEF ZipLeft
  <2>6. FilesAre(st, work)'
    <3>1. \A s \in Ordinary : st[s] = "todo"
      BY <2>2 DEF AllWait
    <3>2. \A i \in DOMAIN work' : SlotsOf("file")[i + 1] \in Ordinary /\ work'[i] = "todo"
      <4>1. Len(SlotsOf("file")) \in Nat /\ \A n \in 1 .. Len(SlotsOf("file")) : SlotsOf("file")[n] \in Ordinary
        BY <1>0, SlotsSort
      <4>2. \A i \in 0 .. Len(SlotsOf("file")) - 1 : i + 1 \in 1 .. Len(SlotsOf("file"))
        BY <4>1
      <4> HIDE DEF SlotsOf
      <4> QED
        BY <2>1, <4>1, <4>2
    <3> QED
      BY <2>5, <3>1, <3>2 DEF FilesAre, As
  <2> QED
    BY <2>1, <2>3, <2>4, <2>5, <2>6 DEF ZipLeft
<1> QED
  BY <1>1, <1>4, <1>5, <1>6

(* The files.                                                               *)
LEMMA ZipFilesLeave ==
  ASSUME IInv, IInv', PlanMoves, ZipLeft, format = "zip", NEW i \in DOMAIN work,
         OfZip!CheckFile(i) \/ OfZip!CreateFile(i) \/ OfZip!FailFile(i) \/ OfZip!CompleteFile(i)
  PROVE  ZipLeft'
<1> DEFINE s == SlotsOf("file")[i + 1]
           p == PathAt(s)
           N == Needed(planned.plan)
<1>0. /\ PlanInv /\ IsTree(tree) /\ phase = "files" /\ phase' = phase /\ at' = at
      /\ UNCHANGED <<archive, options, before, format, planned>>
      /\ DOMAIN work = 0 .. Len(SlotsOf("file")) - 1
  BY DEF IInv, TreeInv, ZipInv, OfZip!CheckFile, OfZip!CreateFile, OfZip!FailFile, OfZip!CompleteFile, OfZip!InPool, PlanMoves
<1>1. /\ s \in Ordinary /\ planned.plan[s].kind = "file"
      /\ OfZip!Target(i) = p /\ OfZip!Entry(i) = planned.plan[s].index
  <2>1. Len(SlotsOf("file")) \in Nat
    BY <1>0, SlotsSort
  <2>2. i + 1 \in 1 .. Len(SlotsOf("file"))
    BY <1>0, <2>1
  <2>3. s \in Ordinary /\ planned.plan[s].kind = "file" /\ ItemsOf("file")[i + 1] = planned.plan[s]
    BY ZenonT(40), <1>0, <2>2, SlotsSort
  <2> QED
    BY <2>3, OfZipSlots DEF OfZip!Target, OfZip!Entry, PathAt
<1>2. PICK st : Known(tree, N, st) /\ FilesAre(st, work)
  BY <1>0 DEF ZipLeft
<1>3. st[s] = As(work[i]) /\ st \in States
  BY <1>2 DEF FilesAre, Known
<1>4. at = 0 /\ count = Len(SlotsOf("file")) /\ \A j \in done : j \in DOMAIN work /\ work[j] \in {"done", "skipped"}
  BY <1>0 DEF ZipLeft
<1> HIDE DEF s, p, N
<1>5. /\ count' = count
      /\ \E w \in {"todo", "open", "partial", "done", "skipped", "dead"} :
           /\ work' = [work EXCEPT ![i] = w] /\ Known(tree', N, Turns(st, s, As(w)))
           /\ work[i] \notin {"done", "skipped"}
           /\ done' = done \/ (done' = done \cup {i} /\ w \in {"done", "skipped"})
  <2>1. CASE OfZip!CheckFile(i)
    <3>1. /\ work[i] = "todo" /\ count' = count
          /\ \/ /\ ~ Taken(tree, p) \/ options.overwrite = "always"
                /\ tree' = Cleared(tree, p) /\ work' = [work EXCEPT ![i] = "open"] /\ done' = done
             \/ /\ Taken(tree, p) /\ options.overwrite = "never"
                /\ tree' = tree /\ work' = [work EXCEPT ![i] = "skipped"] /\ done' = done \cup {i}
             \/ tree' = tree /\ work' = [work EXCEPT ![i] = "dead"] /\ done' = done
      BY <1>1, <2>1, OfZipTree DEF OfZip!CheckFile, OfZip!InPool, OfZip!Becomes, OfZip!pool, OfZip!Pool!Complete, OfZip!Pool!Fail
    <3>2. st[s] = "todo"
      BY <1>3, <3>1 DEF As
    <3>3. ASSUME ~ Taken(tree, p) \/ options.overwrite = "always"
          PROVE  Known(Cleared(tree, p), N, Turns(st, s, As("open")))
      BY <1>0, <1>1, <1>2, <3>2, <3>3, LookedAt DEF p, As
    <3>4. ASSUME Taken(tree, p), options.overwrite = "never"
          PROVE  Known(tree, N, Turns(st, s, As("skipped")))
      BY <1>0, <1>1, <1>2, <3>2, <3>4, PassedOver DEF p, As
    <3>5. Known(tree, N, Turns(st, s, As("dead")))
      BY <1>0, <1>1, <1>2, GivenUp DEF As
    <3> QED
      BY <3>1, <3>3, <3>4, <3>5
  <2>2. CASE OfZip!CreateFile(i)
    <3>1. /\ work[i] = "open" /\ count' = count /\ done' = done
          /\ \/ /\ tree[p].kind # "dir" /\ work' = [work EXCEPT ![i] = "partial"]
                /\ tree' = IF tree[p].kind = "link" THEN tree
                           ELSE [tree EXCEPT ![p] = [kind |-> "partial", by |-> planned.plan[s].index]]
             \/ tree' = tree /\ work' = [work EXCEPT ![i] = "dead"]
      <4>1. /\ work[i] = "open"
            /\ \/ /\ OfZip!Creatable(tree, p) /\ work' = [work EXCEPT ![i] = "partial"] /\ UNCHANGED OfZip!pool
                  /\ tree' = IF tree[p].kind = "link" THEN tree
                             ELSE [tree EXCEPT ![p] = [kind |-> "partial", by |-> planned.plan[s].index]]
               \/ tree' = tree /\ work' = [work EXCEPT ![i] = "dead"] /\ OfZip!Pool!Fail(OfZip!Pool!OfTask(i))
        BY <1>1, <2>2, OfZipTree DEF OfZip!CreateFile, OfZip!InPool, OfZip!Becomes
      <4>2. UNCHANGED OfZip!pool \/ OfZip!Pool!Fail(OfZip!Pool!OfTask(i)) => count' = count /\ done' = done
        BY DEF OfZip!pool, OfZip!Pool!Fail
      <4>3. OfZip!Creatable(tree, p) => tree[p].kind # "dir"
        BY CreatableFacts
      <4> QED
        BY <4>1, <4>2, <4>3
    <3>2. st[s] = "open"
      BY <1>3, <3>1 DEF As
    <3>3. ASSUME tree[p].kind # "dir"
          PROVE  /\ tree[p].kind # "link"
                 /\ Known([tree EXCEPT ![p] = [kind |-> "partial", by |-> planned.plan[s].index]], N, Turns(st, s, As("partial")))
      BY <1>0, <1>1, <1>2, <3>2, <3>3, IsCreated DEF p, As
    <3>4. Known(tree, N, Turns(st, s, As("dead")))
      BY <1>0, <1>1, <1>2, GivenUp DEF As
    <3> QED
      BY <3>1, <3>3, <3>4
  <2>3. CASE OfZip!FailFile(i)
    <3>1. /\ work[i] = "partial" /\ count' = count /\ done' = done /\ tree' = tree /\ work' = [work EXCEPT ![i] = "dead"]
      BY <2>3 DEF OfZip!FailFile, OfZip!InPool, OfZip!Becomes, OfZip!Pool!Fail
    <3>2. Known(tree, N, Turns(st, s, As("dead")))
      BY <1>0, <1>1, <1>2, GivenUp DEF As
    <3> QED
      BY <3>1, <3>2
  <2>4. CASE OfZip!CompleteFile(i)
    <3>1. /\ work[i] = "partial" /\ count' = count /\ done' = done \cup {i} /\ work' = [work EXCEPT ![i] = "done"]
          /\ tree' = IF tree[p].kind = "partial" THEN [tree EXCEPT ![p].kind = "file"] ELSE tree
      BY <1>1, <2>4 DEF OfZip!CompleteFile, OfZip!InPool, OfZip!Becomes, OfZip!Pool!Complete
    <3>2. st[s] = "partial"
      BY <1>3, <3>1 DEF As
    <3>3. tree[p].kind = "partial" /\ Known([tree EXCEPT ![p].kind = "file"], N, Turns(st, s, As("done")))
      BY <1>0, <1>1, <1>2, <3>2, IsFinished DEF p, As
    <3> QED
      BY <3>1, <3>3
  <2> QED
    BY <2>1, <2>2, <2>3, <2>4
<1>6. PICK w \in {"todo", "open", "partial", "done", "skipped", "dead"} :
        /\ work' = [work EXCEPT ![i] = w] /\ Known(tree', N, Turns(st, s, As(w)))
        /\ work[i] \notin {"done", "skipped"}
        /\ done' = done \/ (done' = done \cup {i} /\ w \in {"done", "skipped"})
  BY <1>5
<1>7. PICK M, v, states : M = N /\ v = Turns(st, s, As(w)) /\ states = work'
  OBVIOUS
<1>8. FilesAre(v, states)
  BY <1>0, <1>2, <1>3, <1>6, <1>7, FileGoesOn DEF s
<1>9. Known(tree, M, v)'
  BY <1>0, <1>6, <1>7, KnownStays
<1>10. M = Needed(planned.plan)' /\ SlotsOf("file")' = SlotsOf("file") /\ Ordinary' = Ordinary
  BY <1>0, <1>7, SealingStays DEF N
<1>11. FilesAre(v, work)'
  BY <1>0, <1>7, <1>8, <1>10 DEF FilesAre
<1>12. \A j \in done' : j \in DOMAIN work' /\ work'[j] \in {"done", "skipped"}
  BY <1>4, <1>6
<1>13. at' = 0 /\ count' = Len(SlotsOf("file"))'
  BY <1>0, <1>4, <1>5, <1>10
<1> QED
  BY <1>0, <1>9, <1>10, <1>11, <1>12, <1>13 DEF ZipLeft

(* The files are all there when for_each returns without a failure.         *)
LEMMA ZipFilesReturn ==
  ASSUME IInv, IInv', PlanMoves, ZipLeft, format = "zip", OfZip!FilesReturn
  PROVE  ZipLeft'
<1> DEFINE N == Needed(planned.plan)
           q == SlotsOf("file")
<1>0. /\ PlanInv /\ phase = "files" /\ tree' = tree /\ at' = at /\ DOMAIN work = 0 .. Len(q) - 1
      /\ UNCHANGED <<archive, options, before, format, planned>>
  BY DEF IInv, ZipInv, OfZip!FilesReturn, PlanMoves
<1>1. CASE phase' = "err"
  BY <1>1 DEF ZipLeft
<1>2. CASE phase' # "err"
  <2>1. /\ done = {i \in 0 .. MaxEntries : i < count}
        /\ phase' = IF options.symlinks THEN "links" ELSE "seal"
    BY <1>2 DEF OfZip!FilesReturn, OfZip!Pool!ReturnOk, OfZip!Pool!Index
  <2>2. PICK st : Known(tree, N, st) /\ FilesAre(st, work)
    BY <1>0 DEF ZipLeft
  <2>3. count = Len(q) /\ (\A j \in done : j \in DOMAIN work /\ work[j] \in {"done", "skipped"}) /\ at = 0
    BY <1>0 DEF ZipLeft
  <2>4. Len(q) \in Nat /\ Len(q) <= MaxEntries /\ MaxEntries \in Nat
    <3>1. Len(q) \in Nat /\ Len(q) <= Len(planned.plan)
      BY <1>0, SlotsFacts
    <3>2. Len(planned.plan) \in Nat /\ Len(planned.plan) <= MaxEntries
      BY <1>0, PlanIsShort
    <3>3. MaxEntries \in Nat
      BY BoundsAssumption
    <3> HIDE DEF q
    <3> QED
      BY <3>1, <3>2, <3>3
  <2> HIDE DEF q
  <2>5. DOMAIN work = done
    BY <1>0, <2>1, <2>3, <2>4
  <2>6. \A s \in Ordinary : st[s] = IF planned.plan[s].kind = "file" THEN "done" ELSE "todo"
    <3> TAKE s \in Ordinary
    <3>1. CASE planned.plan[s].kind # "file"
      BY <2>2, <3>1 DEF FilesAre
    <3>2. CASE planned.plan[s].kind = "file"
      <4>1. s \in DOMAIN planned.plan
        BY DEF Ordinary
      <4>2. PICK n \in 1 .. Len(q) : q[n] = s
        BY <1>0, <3>2, <4>1, SlotsSort DEF q
      <4>3. n - 1 \in DOMAIN work /\ (n - 1) + 1 = n
        BY <1>0, <2>4, <4>2
      <4>4. st[s] = As(work[n - 1])
        BY <2>2, <4>2, <4>3 DEF FilesAre, q
      <4>5. work[n - 1] \in {"done", "skipped"}
        BY <2>3, <2>5, <4>3
      <4> QED
        BY <3>2, <4>4, <4>5 DEF As
    <3> QED
      BY <3>1, <3>2
  <2>7. PICK M : M = N
    OBVIOUS
  <2>8. M = Needed(planned.plan)' /\ (\A kind : SlotsOf(kind)' = SlotsOf(kind) /\ ItemsOf(kind)' = ItemsOf(kind)) /\ Ordinary' = Ordinary
    BY <1>0, <2>7, SealingStays
  <2>9. ASSUME options.symlinks PROVE ZipLeft'
    <3>1. Known(tree, M, st)'
      BY <1>0, <2>2, <2>7, KnownStays
    <3>2. LinksAre(st, 0)
      <4>1. \A s \in Ordinary : planned.plan[s].kind # "link" => st[s] = "done"
        <5>1. \A s \in Ordinary : planned.plan[s].kind \in {"file", "link"}
          BY <1>0, PlannedKinds DEF Ordinary
        <5> QED
          BY <2>6, <5>1
      <4>2. \A m \in 1 .. Len(SlotsOf("link")) : SlotsOf("link")[m] \in Ordinary /\ planned.plan[SlotsOf("link")[m]].kind = "link"
        BY <1>0, SlotsSort
      <4>3. \A m \in 1 .. Len(SlotsOf("link")) : ~ (m <= 0)
        OBVIOUS
      <4> QED
        BY <2>6, <4>1, <4>2, <4>3 DEF LinksAre
    <3>3. LinksAre(st, at)'
      BY <1>0, <2>3, <2>8, <3>2 DEF LinksAre
    <3>4. at' <= Len(SlotsOf("link"))'
      <4>1. Len(SlotsOf("link")) \in Nat
        BY <1>0, SlotsSort
      <4> QED
        BY <1>0, <2>3, <2>8, <4>1
    <3>5. phase' = "links" /\ options'.symlinks
      BY <1>0, <2>1, <2>9
    <3> QED
      BY <2>8, <3>1, <3>3, <3>4, <3>5 DEF ZipLeft
  <2>10. ASSUME ~ options.symlinks PROVE ZipLeft'
    <3>1. \A s \in Ordinary : st[s] = "done" \/ (st[s] = "todo" /\ ~ Makes(s))
      BY <2>6, <2>10 DEF Makes
    <3>2. Known(tree, N, [s \in Ordinary |-> "done"])
      BY <2>2, <3>1, NothingElseIsMade
    <3>3. PICK items : items = ItemsOf("dir")
      OBVIOUS
    <3>4. Sealing(tree, M, {}, items, 0)
      BY <1>0, <2>7, <3>2, SealingBegins
    <3>5. Sealing(tree, M, {}, items, 0)'
      BY <1>0, <3>4, SealingStays
    <3>6. at' = 0 /\ at' <= Len(SlotsOf("dir"))'
      <4>1. Len(SlotsOf("dir")) \in Nat
        BY <1>0, SlotsSort
      <4> QED
        BY <1>0, <2>3, <2>8, <4>1
    <3>7. Sealing(tree, Needed(planned.plan), {}, ItemsOf("dir"), at)'
      BY <2>8, <3>3, <3>5, <3>6
    <3>8. phase' = "seal"
      BY <2>1, <2>10
    <3> QED
      BY <3>6, <3>7, <3>8 DEF ZipLeft
  <2> QED
    BY <2>9, <2>10
<1> QED
  BY <1>1, <1>2

(* The links.                                                               *)
LEMMA ZipLinksLeave ==
  ASSUME IInv, IInv', PlanMoves, ZipLeft, format = "zip", OfZip!MakeLink \/ OfZip!LinkFails \/ OfZip!LinksEnd
  PROVE  ZipLeft'
<1> DEFINE N == Needed(planned.plan)
           q == SlotsOf("link")
           s == q[at + 1]
           p == PathAt(s)
<1>0. /\ PlanInv /\ IsTree(tree) /\ phase = "links" /\ at \in Nat
      /\ UNCHANGED <<archive, options, before, format, planned>>
  BY DEF IInv, TreeInv, ZipInv, OfZip!MakeLink, OfZip!LinkFails, OfZip!LinksEnd, PlanMoves
<1>1. PICK st : Known(tree, N, st) /\ LinksAre(st, at)
  BY <1>0 DEF ZipLeft
<1>2. at <= Len(q) /\ Len(q) \in Nat
  BY <1>0, SlotsSort DEF ZipLeft
<1>3. PICK M : M = N
  OBVIOUS
<1>4. M = Needed(planned.plan)' /\ (\A kind : SlotsOf(kind)' = SlotsOf(kind) /\ ItemsOf(kind)' = ItemsOf(kind)) /\ Ordinary' = Ordinary
  BY <1>0, <1>3, SealingStays
<1>5. CASE OfZip!LinkFails
  <2>1. phase' = "err"
    BY <1>5 DEF OfZip!LinkFails, OfZip!Fails
  <2> QED
    BY <2>1 DEF ZipLeft
<1>6. CASE OfZip!LinksEnd
  <2>1. at = Len(q) /\ phase' = "seal" /\ at' = 0 /\ tree' = tree
    BY <1>6, OfZipSlots DEF OfZip!LinksEnd
  <2>2. \A r \in Ordinary : st[r] = "done"
    <3> TAKE r \in Ordinary
    <3>1. CASE planned.plan[r].kind # "link"
      BY <1>1, <3>1 DEF LinksAre
    <3>2. CASE planned.plan[r].kind = "link"
      <4>1. r \in DOMAIN planned.plan
        BY DEF Ordinary
      <4>2. PICK n \in 1 .. Len(q) : q[n] = r
        BY <1>0, <3>2, <4>1, SlotsSort
      <4> HIDE DEF q
      <4>3. n <= at
        BY <1>2, <2>1, <4>2
      <4> QED
        BY <1>1, <4>2, <4>3 DEF LinksAre, q
    <3> QED
      BY <3>1, <3>2
  <2>3. PICK items : items = ItemsOf("dir")
    OBVIOUS
  <2>4. Sealing(tree', M, {}, items, 0)
    BY <1>0, <1>1, <1>3, <2>1, <2>2, SealingBegins
  <2>5. Sealing(tree, M, {}, items, 0)'
    BY <1>0, <2>4, SealingStays
  <2>6. at' <= Len(SlotsOf("dir"))'
    <3>1. Len(SlotsOf("dir")) \in Nat
      BY <1>0, SlotsSort
    <3> QED
      BY <1>4, <2>1, <3>1
  <2>7. Sealing(tree, Needed(planned.plan), {}, ItemsOf("dir"), at)'
    BY <1>4, <2>1, <2>3, <2>5
  <2> QED
    BY <2>1, <2>6, <2>7 DEF ZipLeft
<1>7. CASE OfZip!MakeLink
  <2>1. /\ at + 1 \in 1 .. Len(q) /\ at' = at + 1 /\ phase' = phase
    BY <1>0, <1>2, <1>7, OfZipSlots DEF OfZip!MakeLink, OfZip!NextLink
  <2>2. /\ s \in Ordinary /\ planned.plan[s].kind = "link" /\ OfZip!link = planned.plan[s] /\ OfZip!link.path = p
    <3>1. s \in Ordinary /\ planned.plan[s].kind = "link" /\ ItemsOf("link")[at + 1] = planned.plan[s]
      BY ZenonT(40), <1>0, <2>1, SlotsSort
    <3> QED
      BY <3>1, OfZipSlots DEF OfZip!link, PathAt
  <2>3. st[s] = "todo"
    <3>1. ~ (at + 1 <= at)
      BY <1>0
    <3> QED
      BY <1>1, <2>1, <3>1 DEF LinksAre
  <2>4. options.symlinks
    BY <1>0 DEF ZipLeft
  <2> HIDE DEF s, p
  <2>5. \/ /\ ~ archive[planned.plan[s].index].escapes
           /\ ~ Taken(tree, p) \/ options.overwrite = "always"
           /\ OfZip!Creatable(Cleared(tree, p), p)
           /\ tree' = [tree EXCEPT ![p] = [kind |-> "link", by |-> planned.plan[s].index]]
        \/ Taken(tree, p) /\ options.overwrite = "never" /\ tree' = tree
        \/ archive[planned.plan[s].index].escapes /\ tree' = tree
    BY <1>7, <2>2, OfZipTree DEF OfZip!MakeLink
  <2>6. Known(tree', N, Turns(st, s, "done"))
    <3>1. CASE /\ ~ archive[planned.plan[s].index].escapes
               /\ ~ Taken(tree, p) \/ options.overwrite = "always"
               /\ OfZip!Creatable(Cleared(tree, p), p)
               /\ tree' = [tree EXCEPT ![p] = [kind |-> "link", by |-> planned.plan[s].index]]
      <4>1. Makes(s) /\ Cleared(tree, p)[p].kind # "dir"
        BY <2>2, <2>4, <3>1, CreatableFacts DEF Makes
      <4>2. Known([tree EXCEPT ![p] = [kind |-> planned.plan[s].kind, by |-> planned.plan[s].index]], N, Turns(st, s, "done"))
        BY <1>0, <1>1, <2>2, <2>3, <3>1, <4>1, MadeAtOnce DEF p
      <4> QED
        BY <2>2, <3>1, <4>2
    <3>2. CASE Taken(tree, p) /\ options.overwrite = "never" /\ tree' = tree
      BY <1>0, <1>1, <2>2, <2>3, <3>2, PassedOver DEF p
    <3>3. CASE archive[planned.plan[s].index].escapes /\ tree' = tree
      <4>1. ~ Makes(s)
        BY <2>2, <3>3 DEF Makes
      <4> QED
        BY <1>0, <1>1, <2>2, <2>3, <3>3, <4>1, LeftOut
    <3> QED
      BY <2>5, <3>1, <3>2, <3>3
  <2>7. PICK v : v = Turns(st, s, "done")
    OBVIOUS
  <2>8. Known(tree, M, v)'
    BY <1>0, <1>3, <2>6, <2>7, KnownStays
  <2>9. LinksAre(v, at + 1)
    <3>1. v[s] = "done" /\ \A r \in Ordinary : r # s => v[r] = st[r]
      BY <1>1, <2>2, <2>7 DEF Turns, Known, States
    <3>2. \A r \in Ordinary : planned.plan[r].kind # "link" => v[r] = "done"
      BY <1>1, <3>1 DEF LinksAre
    <3>3. ASSUME NEW m \in 1 .. Len(q) PROVE v[q[m]] = IF m <= at + 1 THEN "done" ELSE "todo"
      <4>1. q[m] \in Ordinary /\ (q[m] = s => m = at + 1)
        BY <1>0, <2>1, SlotsSort DEF s
      <4>2. st[q[m]] = IF m <= at THEN "done" ELSE "todo"
        BY <1>1 DEF LinksAre
      <4>3. m = at + 1 => q[m] = s
        BY DEF s
      <4> HIDE DEF q
      <4>4. m # at + 1 => (m <= at + 1 <=> m <= at)
        BY <1>0, <1>2
      <4>5. m = at + 1 => m <= at + 1
        BY <1>0
      <4>6. CASE m = at + 1
        BY <3>1, <4>3, <4>5, <4>6
      <4>7. CASE m # at + 1
        BY <3>1, <4>1, <4>2, <4>4, <4>7
      <4> QED
        BY <4>6, <4>7
    <3> QED
      BY <3>2, <3>3 DEF LinksAre
  <2>10. LinksAre(v, at)'
    BY <1>0, <1>4, <2>1, <2>9 DEF LinksAre
  <2>11. at' <= Len(SlotsOf("link"))'
    BY <1>2, <1>4, <2>1
  <2>12. phase' = "links" /\ options'.symlinks
    BY <1>0, <2>1, <2>4
  <2> QED
    BY <1>4, <2>8, <2>10, <2>11, <2>12 DEF ZipLeft
<1> QED
  BY <1>5, <1>6, <1>7

(* The metadata of the directories, and the end.                            *)
LEMMA ZipSealLeaves ==
  ASSUME IInv, IInv', PlanMoves, ZipLeft, format = "zip", OfZip!Seal \/ OfZip!Finish
  PROVE  ZipLeft'
<1> DEFINE N == Needed(planned.plan)
           items == ItemsOf("dir")
           q == SlotsOf("dir")
<1>0. /\ PlanInv /\ IsTree(tree) /\ phase = "seal" /\ at \in Nat
      /\ UNCHANGED <<archive, options, before, format, planned>>
  BY DEF IInv, TreeInv, ZipInv, OfZip!Seal, OfZip!Finish, PlanMoves
<1>1. Sealing(tree, N, {}, items, at) /\ at <= Len(q) /\ (~ options.restore => at = 0)
  BY <1>0 DEF ZipLeft
<1>2. /\ items \in Seq(PlanItems(archive, options)) /\ DOMAIN items = 1 .. Len(q) /\ Len(items) = Len(q) /\ Len(q) \in Nat
      /\ \A n \in DOMAIN items : items[n].path \in Paths /\ items[n].path \in N
      /\ Sorted(q, DirSlots, Ascending(DirSlots)) /\ items = [n \in DOMAIN q |-> planned.plan[q[n]]]
  <2>1. \A n \in 1 .. Len(q) : items[n] = planned.plan[q[n]] /\ q[n] \in DOMAIN planned.plan /\ planned.plan[q[n]].kind = "dir"
    BY ZenonT(40), <1>0, SlotsSort
  <2>2. \A s \in DOMAIN planned.plan : planned.plan[s].kind = "dir" => planned.plan[s].path \in N /\ planned.plan[s].path \in Paths
    BY <1>0, PlannedFacts, NeededFacts, PathFacts
  <2>3. items \in Seq(PlanItems(archive, options)) /\ DOMAIN items = 1 .. Len(q) /\ Len(items) = Len(q) /\ Len(q) \in Nat
    BY <1>0, SlotsFacts
  <2>4. Sorted(q, DirSlots, Ascending(DirSlots))
    BY <1>0, SlotsSort DEF DirSlots
  <2>5. items = [n \in DOMAIN q |-> planned.plan[q[n]]]
    BY DEF ItemsOf
  <2> HIDE DEF items, q
  <2> QED
    BY <2>1, <2>2, <2>3, <2>4, <2>5
<1>3. Len(DeepestFirst(items)) = Len(items) /\ \A n \in 1 .. Len(q) : DeepestFirst(items)[n] \in DOMAIN items
  <2> HIDE DEF items, q
  <2>1. Sorted(DeepestFirst(items), DOMAIN items, Deeper(items))
    BY <1>2, DeepestFirstSorts
  <2>2. Cardinality(DOMAIN items) = Len(items)
    BY SMTT(40), <1>2, CountUpto
  <2> QED
    BY ZenonT(40), <1>2, <2>1, <2>2 DEF Sorted
<1>4. OfZip!Items("dir") = items /\ OfZip!SealOrder = DeepestFirst(items)
  BY OfZipSlots, OfZipOrder DEF OfZip!SealOrder
<1>5. PICK M : M = N
  OBVIOUS
<1>6. M = Needed(planned.plan)' /\ ItemsOf("dir")' = items /\ SlotsOf("dir")' = q
  BY <1>0, <1>5, SealingStays
<1>7. N \in SUBSET Paths
  BY <1>0, NeededGrows
<1> HIDE DEF items, q, N
<1>8. CASE OfZip!Seal
  <2> DEFINE item == TurnOf(items, at + 1)
  <2>1. /\ at' = at + 1 /\ phase' = "seal" /\ at < Len(items) /\ Seals(item, tree, tree') /\ options'.restore
    BY <1>0, <1>3, <1>4, <1>8 DEF OfZip!Seal, Seals, TurnOf
  <2>2. item.path \in N
    <3>1. at + 1 \in 1 .. Len(q)
      BY <1>0, <1>2, <2>1
    <3> QED
      BY <1>2, <1>3, <3>1 DEF TurnOf
  <2> HIDE DEF item
  <2>3. Sealing(tree', N, {}, items, at + 1)
    BY <1>0, <1>1, <1>7, <2>1, <2>2, SealingGoesOn DEF item
  <2>4. PICK l, k : l = items /\ k = at + 1
    OBVIOUS
  <2>5. Sealing(tree, M, {}, l, k)'
    BY <1>0, <1>5, <2>3, <2>4, SealingStays
  <2>6. Sealing(tree, Needed(planned.plan), {}, ItemsOf("dir"), at)'
    BY <1>6, <2>1, <2>4, <2>5
  <2>7. at' <= Len(SlotsOf("dir"))'
    BY <1>0, <1>2, <1>6, <2>1
  <2> QED
    BY SMTT(40), <2>1, <2>6, <2>7 DEF ZipLeft
<1>9. CASE OfZip!Finish
  <2>1. phase' = "done" /\ tree' = tree /\ (options.restore => at = Len(q))
    BY <1>2, <1>3, <1>4, <1>9 DEF OfZip!Finish
  <2>2. at = IF options.restore THEN Len(q) ELSE 0
    BY SMTT(40), <1>1, <2>1
  <2>3. Settled(tree, N, {})
    BY <1>0, <1>1, <1>2, <1>7, <2>2, SealingSettles
  <2>4. Settled(tree, M, {})'
    BY <1>0, <1>5, <2>1, <2>3, SealingStays
  <2> QED
    BY <1>6, <2>1, <2>4 DEF ZipLeft
<1> QED
  BY SMTT(40), <1>8, <1>9

(* The bookkeeping of for_each changes nothing of that.                     *)
LEMMA ZipLeftStays ==
  ASSUME IInv, IInv', ZipLeft,
         UNCHANGED <<archive, options, before, format, planned, tree, phase, at, work, count, done>>
  PROVE  ZipLeft'
<1>1. /\ \A kind : SlotsOf(kind)' = SlotsOf(kind) /\ ItemsOf(kind)' = ItemsOf(kind)
      /\ Ordinary' = Ordinary
  BY SealingStays
<1>2. NeededTo(at)' = NeededTo(at) /\ AllWait' = AllWait /\ Needed(planned.plan)' = Needed(planned.plan)
  BY <1>1 DEF NeededTo, NeededAt, PathAt, AllWait
<1>3. \A N, st : Known(tree, N, st) => Known(tree, N, st)'
  BY KnownStays
<1>4. /\ \A N, E, items, k : Sealing(tree, N, E, items, k) => Sealing(tree, N, E, items, k)'
      /\ \A N, E : Settled(tree, N, E) => Settled(tree, N, E)'
  BY SealingStays
<1>5. \A st : FilesAre(st, work) => FilesAre(st, work)'
  BY <1>1 DEF FilesAre
<1>6. \A st : LinksAre(st, at) => LinksAre(st, at)'
  BY <1>1 DEF LinksAre
<1>7. CASE phase = "directories"
  <2>1. PICK N, st : N = NeededTo(at) /\ st = AllWait /\ Known(tree, N, st)
    BY <1>7 DEF ZipLeft
  <2>2. N = NeededTo(at)' /\ st = AllWait' /\ Known(tree, N, st)'
    BY <1>2, <1>3, <2>1
  <2>3. done' = {} /\ at' <= Len(planned'.plan) /\ phase' = "directories"
    BY <1>7 DEF ZipLeft
  <2> QED
    BY <2>2, <2>3 DEF ZipLeft
<1>8. CASE phase = "files"
  <2>1. PICK st, M : M = Needed(planned.plan) /\ Known(tree, M, st) /\ FilesAre(st, work)
    BY <1>8 DEF ZipLeft
  <2>2. M = Needed(planned.plan)' /\ Known(tree, M, st)' /\ FilesAre(st, work)'
    BY <1>2, <1>3, <1>5, <2>1
  <2>3. at' = 0 /\ count' = Len(SlotsOf("file"))' /\ (\A i \in done' : i \in DOMAIN work' /\ work'[i] \in {"done", "skipped"}) /\ phase' = "files"
    BY <1>1, <1>8 DEF ZipLeft
  <2> QED
    BY <2>2, <2>3 DEF ZipLeft
<1>9. CASE phase = "links"
  <2>1. PICK st, M : M = Needed(planned.plan) /\ Known(tree, M, st) /\ LinksAre(st, at)
    BY <1>9 DEF ZipLeft
  <2>2. M = Needed(planned.plan)' /\ Known(tree, M, st)' /\ LinksAre(st, at)'
    BY <1>2, <1>3, <1>6, <2>1
  <2>3. options'.symlinks /\ at' <= Len(SlotsOf("link"))' /\ phase' = "links"
    BY <1>1, <1>9 DEF ZipLeft
  <2> QED
    BY <2>2, <2>3 DEF ZipLeft
<1>10. CASE phase = "seal"
  <2>1. PICK M, items, k : M = Needed(planned.plan) /\ items = ItemsOf("dir") /\ k = at /\ Sealing(tree, M, {}, items, k)
    BY <1>10 DEF ZipLeft
  <2>2. M = Needed(planned.plan)' /\ items = ItemsOf("dir")' /\ k = at' /\ Sealing(tree, M, {}, items, k)'
    BY <1>1, <1>2, <1>4, <2>1
  <2>3. at' <= Len(SlotsOf("dir"))' /\ (~ options'.restore => at' = 0) /\ phase' = "seal"
    BY <1>1, <1>10 DEF ZipLeft
  <2> QED
    BY <2>2, <2>3 DEF ZipLeft
<1>11. CASE phase = "done"
  <2>1. PICK M : M = Needed(planned.plan) /\ Settled(tree, M, {})
    BY <1>11 DEF ZipLeft
  <2>2. M = Needed(planned.plan)' /\ Settled(tree, M, {})'
    BY <1>2, <1>4, <2>1
  <2> QED
    BY <1>11, <2>2 DEF ZipLeft
<1>12. CASE phase = "plan"
  <2>1. done' = {} /\ at' = 0 /\ phase' = "plan"
    BY <1>12 DEF ZipLeft
  <2> QED
    BY <2>1 DEF ZipLeft
<1>13. CASE phase \notin {"plan", "directories", "files", "links", "seal", "done"}
  BY <1>13 DEF ZipLeft
<1> QED
  BY <1>7, <1>8, <1>9, <1>10, <1>11, <1>12, <1>13

(* A step of a zip keeps it.                                                *)
LEMMA ZipLeftKept ==
  ASSUME IInv, IInv', PlanMoves, ZipLeft, format = "zip", UNCHANGED format, OfZip!Next
  PROVE  ZipLeft'
<1>1. CASE OfZip!OpenFails \/ OfZip!KeepFailure
  <2>1. UNCHANGED <<archive, options, before, format, planned, tree, phase, at, work, count, done>>
    BY <1>1 DEF OfZip!OpenFails, OfZip!KeepFailure, OfZip!Pool!Fail, OfZip!Pool!Keep, OfZip!input
  <2> QED
    BY <2>1, ZipLeftStays
<1>2. CASE OfZip!Ended
  <2>1. UNCHANGED <<archive, options, before, format, planned, tree, phase, at, work, count, done>>
    BY <1>2 DEF OfZip!Ended, OfZip!vars, OfZip!input, OfZip!pool
  <2> QED
    BY <2>1, ZipLeftStays
<1> QED
  BY <1>1, <1>2, ZipDirectoriesLeave, ZipFilesLeave, ZipFilesReturn, ZipLinksLeave, ZipSealLeaves DEF OfZip!Next

(* What is settled is what the property expects.                            *)
LEMMA ZipExpected ==
  ASSUME IInv, ZipLeft, format = "zip"
  PROVE  OfZip!ResultIsDetermined
<1> SUFFICES ASSUME phase = "done" PROVE tree = [p \in Paths |-> OfZip!Expected(p)]
  BY DEF OfZip!ResultIsDetermined
<1>1. PlanInv /\ IsTree(tree) /\ Settled(tree, Needed(planned.plan), {}) /\ OfZip!plan = planned.plan
  BY DEF ZipLeft, IInv, TreeInv, OfZip!plan
<1>2. \A p : OfZip!LastDirectory(p) = LastDirectory(p)
  BY <1>1 DEF OfZip!LastDirectory, LastDirectory
<1>3. \A s \in Ordinary : planned.plan[s].kind \in {"file", "link"}
  BY <1>1, PlannedKinds DEF Ordinary
<1>4. ASSUME NEW p PROVE OfZip!Restored(p) = Given(p)
  BY <1>1, <1>3, OfZipTree DEF OfZip!Restored, Given, Free, Makes, Ordinary, PathAt
<1>5. OfZip!Needed(OfZip!plan) = Needed(planned.plan)
  BY <1>1, OfZipTree DEF OfZip!Needed, Needed, OfZip!Ancestry, Ancestry
<1>6. \A p \in Paths : OfZip!Expected(p) = IF p \in Needed(planned.plan) THEN [kind |-> "dir", by |-> LastDirectory(p)] ELSE Elsewhere(p)
  BY <1>1, <1>2, <1>4, <1>5 DEF OfZip!Expected, Elsewhere
<1>7. \A p \in Paths : tree[p] = OfZip!Expected(p)
  BY <1>1, <1>6 DEF Settled
<1>8. tree \in [Paths -> Node]
  BY <1>1 DEF IsTree
<1> QED
  BY <1>7, <1>8

-----------------------------------------------------------------------------
(* What a tar leaves.  The loop makes the directories that are needed as it *)
(* goes; a file waits from then on with its place open.                     *)
LoopNeeds(s) ==
  IF planned.plan[s].kind = "dir" THEN Ancestry(PathAt(s))
  ELSE IF planned.plan[s].kind = "file" \/ (planned.plan[s].kind = "link" /\ options.symlinks) THEN Above(PathAt(s))
  ELSE {}
LoopNeeded(n) == UNION {LoopNeeds(s) : s \in 1 .. n}
LoopAre(st, n, waits) ==
  \A s \in Ordinary : st[s] = IF n < s THEN "todo" ELSE IF s \in ToSet(waits) THEN "open" ELSE "done"
DirsTo(n) == {s \in DirSlots : s <= n}
Gathered(n) ==
  /\ Sorted(directories, DirsTo(n), Ascending(DirsTo(n)))
  /\ \A m \in DOMAIN bodies : bodies[m] \in Ordinary /\ bodies[m] <= n /\ planned.plan[bodies[m]].kind = "file"
  /\ \A l, m \in DOMAIN bodies : bodies[l] = bodies[m] => l = m

(* The workers write the bodies, then the hard links are made, of whose     *)
(* places nothing is claimed.                                               *)
BodyState(state) == IF state = "todo" THEN "open" ELSE state
BodiesAre(st, states) ==
  /\ \A s \in Ordinary : s \notin ToSet(bodies) => st[s] = "done"
  /\ \A i \in DOMAIN states : st[bodies[i + 1]] = BodyState(states[i])
LinkPlaces == {PathAt(s) : s \in ToSet(pending)}
LinkNeeded(n) == LoopNeeded(Len(planned.plan)) \cup UNION {Above(PathAt(pending[m])) : m \in 1 .. n}
DirectoryItems == [n \in DOMAIN directories |-> planned.plan[directories[n]]]

TarLeft ==
  /\ phase \in {"plan", "entries"} => done = {} /\ (phase = "plan" => at = 0)
  /\ phase = "entries" =>
       /\ at <= Len(planned.plan) /\ Gathered(at)
       /\ \E N, st : N = LoopNeeded(at) /\ LoopAre(st, at, bodies) /\ Known(tree, N, st)
  /\ phase \in {"bodies", "hardlinks", "seal"} => Gathered(Len(planned.plan))
  /\ phase = "bodies" =>
       /\ at = 0 /\ count = Len(bodies)
       /\ \A i \in done : i \in DOMAIN work /\ work[i] = "done"
       /\ \E N, st : N = LoopNeeded(Len(planned.plan)) /\ BodiesAre(st, work) /\ Known(tree, N, st)
  /\ phase = "hardlinks" => at <= Len(pending) /\ Sealing(tree, LinkNeeded(at), LinkPlaces, <<>>, 0)
  /\ phase = "seal" =>
       /\ at <= Len(directories) /\ (~ options.restore => at = 0)
       /\ Sealing(tree, LinkNeeded(Len(pending)), LinkPlaces, DirectoryItems, at)
  /\ phase = "done" => Settled(tree, LinkNeeded(Len(pending)), LinkPlaces)

(* The loop gathers in the order of the plan.                               *)
LEMMA AppendSorts ==
  ASSUME NEW n \in Nat, NEW S \in SUBSET (1 .. n), NEW q, Sorted(q, S, Ascending(S))
  PROVE  Sorted(Append(q, n + 1), S \cup {n + 1}, Ascending(S \cup {n + 1}))
<1> DEFINE T == S \cup {n + 1}
           r == Append(q, n + 1)
<1>1. IsFiniteSet(1 .. n)
  BY FS_Interval
<1>a. n + 1 \notin S
  OBVIOUS
<1>b. S \subseteq 1 .. n
  OBVIOUS
<1>2. IsFiniteSet(S) /\ n + 1 \notin S
  BY <1>1, <1>a, <1>b, FS_Subset
<1>3. Cardinality(S) \in Nat /\ Cardinality(T) = Cardinality(S) + 1
  BY <1>2, FS_CardinalityType, FS_AddElement
<1>4. /\ q \in Seq(S) /\ Len(q) = Cardinality(S) /\ DOMAIN q = 1 .. Cardinality(S)
      /\ \A m \in DOMAIN q : q[m] \in S
      /\ \A x \in S : \E m \in DOMAIN q : q[m] = x
      /\ \A l, m \in DOMAIN q : l < m => q[l] \in Ascending(S)[q[m]]
  BY DEF Sorted
<1>5. q \in Seq(T) /\ n + 1 \in T
  BY <1>4
<1>6. r \in Seq(T) /\ Len(r) = Cardinality(T) /\ DOMAIN r = 1 .. Cardinality(T)
  <2> HIDE DEF T
  <2> QED
    BY <1>3, <1>4, <1>5
<1>7. (\A m \in DOMAIN q : r[m] = q[m]) /\ r[Cardinality(T)] = n + 1 /\ Cardinality(T) \in DOMAIN r
  <2> HIDE DEF T
  <2> QED
    BY <1>3, <1>4, <1>5
<1>8. \A m \in DOMAIN r : m \in DOMAIN q \/ m = Cardinality(T)
  BY <1>3, <1>4, <1>6
<1> HIDE DEF r
<1>9. \A m \in DOMAIN r : r[m] \in T
  BY <1>4, <1>7, <1>8
<1>10. \A x \in T : \E m \in DOMAIN r : r[m] = x
  <2>1. \A m \in DOMAIN q : m \in DOMAIN r
    BY <1>3, <1>4, <1>6
  <2> QED
    BY <1>4, <1>7, <2>1
<1>11. ASSUME NEW l \in DOMAIN r, NEW m \in DOMAIN r, l < m PROVE r[l] \in Ascending(T)[r[m]]
  <2>1. l \in DOMAIN q
    BY <1>3, <1>4, <1>6, <1>11
  <2>2. r[l] \in S /\ r[l] = q[l]
    BY <1>4, <1>7, <2>1
  <2>3. CASE m \in DOMAIN q
    <3>1. q[l] \in Ascending(S)[q[m]] /\ r[m] = q[m] /\ q[m] \in S
      BY <1>4, <1>7, <1>11, <2>1, <2>3
    <3>2. q[l] < q[m]
      BY <3>1 DEF Ascending
    <3> QED
      BY <2>2, <3>1, <3>2 DEF Ascending
  <2>4. CASE m = Cardinality(T)
    <3>1. r[l] \in 1 .. n
      BY <2>2
    <3>2. r[l] < n + 1
      BY <3>1
    <3>3. r[m] = n + 1
      BY <1>7, <2>4
    <3> QED
      BY <2>2, <3>2, <3>3 DEF Ascending
  <2> QED
    BY <1>8, <2>3, <2>4
<1> HIDE DEF T
<1>12. Sorted(r, T, Ascending(T))
  BY <1>6, <1>9, <1>10, <1>11 DEF Sorted
<1> QED
  BY <1>12 DEF r, T

(* Nothing of this depends on what the loop is not about.                   *)
LEMMA TarStays ==
  ASSUME UNCHANGED <<archive, options, before, planned, format>>
  PROVE  /\ Ordinary' = Ordinary /\ \A s : PathAt(s)' = PathAt(s)
         /\ \A n : LoopNeeded(n)' = LoopNeeded(n) /\ DirsTo(n)' = DirsTo(n)
         /\ \A st, n, waits : LoopAre(st, n, waits)' <=> LoopAre(st, n, waits)
         /\ UNCHANGED pending => LinkPlaces' = LinkPlaces /\ \A n : LinkNeeded(n)' = LinkNeeded(n)
         /\ UNCHANGED directories => DirectoryItems' = DirectoryItems
         /\ UNCHANGED <<bodies, directories>> => \A n : Gathered(n)' <=> Gathered(n)
         /\ UNCHANGED bodies => \A st, states : BodiesAre(st, states)' <=> BodiesAre(st, states)
<1>1. Ordinary' = Ordinary /\ \A s : PathAt(s)' = PathAt(s)
  BY DEF Ordinary, PathAt
<1>2. \A n : LoopNeeded(n)' = LoopNeeded(n)
  BY DEF LoopNeeded, LoopNeeds, PathAt
<1>3. \A n : DirsTo(n)' = DirsTo(n)
  BY DEF DirsTo, DirSlots
<1>4. \A st, n, waits : LoopAre(st, n, waits)' <=> LoopAre(st, n, waits)
  BY <1>1 DEF LoopAre
<1>5. ASSUME UNCHANGED pending PROVE LinkPlaces' = LinkPlaces /\ \A n : LinkNeeded(n)' = LinkNeeded(n)
  BY <1>1, <1>2, <1>5 DEF LinkPlaces, LinkNeeded, PathAt
<1>6. ASSUME UNCHANGED directories PROVE DirectoryItems' = DirectoryItems
  BY <1>6 DEF DirectoryItems
<1>7. ASSUME UNCHANGED <<bodies, directories>> PROVE \A n : Gathered(n)' <=> Gathered(n)
  BY <1>1, <1>3, <1>7 DEF Gathered
<1>8. ASSUME UNCHANGED bodies PROVE \A st, states : BodiesAre(st, states)' <=> BodiesAre(st, states)
  BY <1>1, <1>8 DEF BodiesAre
<1> QED
  BY <1>1, <1>2, <1>3, <1>4, <1>5, <1>6, <1>7, <1>8

(* The loop has looked at one entry more.                                   *)
LEMMA TarGoesOn ==
  ASSUME IInv, TarLeft, format = "tar", UNCHANGED <<archive, options, before, planned, format, done>>,
         phase = "entries", phase' = "entries", at < Len(planned.plan), at' = at + 1,
         \/ UNCHANGED bodies
         \/ bodies' = Append(bodies, at + 1) /\ planned.plan[at + 1].kind = "file",
         directories' = IF planned.plan[at + 1].kind = "dir" THEN Append(directories, at + 1) ELSE directories,
         NEW N, N = LoopNeeded(at + 1), NEW v, Known(tree', N, v), LoopAre(v, at + 1, bodies')
  PROVE  TarLeft'
<1>n. PICK n : n = at + 1
  OBVIOUS
<1>0. /\ PlanInv /\ at \in Nat /\ Gathered(at)
      /\ bodies \in Seq(BodySlots)
      /\ n \in DOMAIN planned.plan /\ at + 1 <= Len(planned.plan)
  <2>1. PlanInv /\ at \in Nat /\ Gathered(at) /\ bodies \in Seq(BodySlots)
    BY DEF IInv, TarInv, TarLeft
  <2> QED
    BY <1>n, <2>1, PlannedFacts
<1>1. Ordinary' = Ordinary /\ LoopNeeded(n)' = LoopNeeded(n) /\ DirsTo(n)' = DirsTo(n)
      /\ \A waits : LoopAre(v, n, waits)' <=> LoopAre(v, n, waits)
  BY TarStays
<1>2. Known(tree, N, v)'
  BY KnownStays
<1>3. Sorted(directories', DirsTo(n), Ascending(DirsTo(n)))
  <2>1. DirsTo(at) \subseteq 1 .. at /\ DirSlots \subseteq Nat
    <3>1. DOMAIN planned.plan = 1 .. Len(planned.plan) /\ Len(planned.plan) \in Nat
      BY <1>0, PlannedFacts
    <3> QED
      BY <1>0, <3>1 DEF DirsTo, DirSlots
  <2>2. Sorted(directories, DirsTo(at), Ascending(DirsTo(at)))
    BY <1>0 DEF Gathered
  <2>3. \A s \in DirSlots : s <= n <=> s <= at \/ s = n
    BY <1>n, <1>0, <2>1
  <2>4. CASE planned.plan[n].kind = "dir"
    <3>1. DirsTo(n) = DirsTo(at) \cup {n}
      <4>1. n \in DirSlots
        BY <1>0, <2>4 DEF DirSlots
      <4> QED
        BY <2>3, <4>1 DEF DirsTo
    <3> QED
      BY <1>n, <1>0, <2>1, <2>2, <2>4, <3>1, AppendSorts
  <2>5. CASE planned.plan[n].kind # "dir"
    <3>1. DirsTo(n) = DirsTo(at)
      <4>1. n \notin DirSlots
        BY <2>5 DEF DirSlots
      <4> QED
        BY <2>3, <4>1 DEF DirsTo
    <3> QED
      BY <1>n, <2>2, <2>5, <3>1
  <2> QED
    BY <2>4, <2>5
<1>4. /\ \A m \in DOMAIN bodies' : bodies'[m] \in Ordinary /\ bodies'[m] <= n /\ planned.plan[bodies'[m]].kind = "file"
      /\ \A l, m \in DOMAIN bodies' : bodies'[l] = bodies'[m] => l = m
  <2>1. /\ \A m \in DOMAIN bodies : bodies[m] \in Ordinary /\ bodies[m] <= at /\ planned.plan[bodies[m]].kind = "file"
        /\ \A l, m \in DOMAIN bodies : bodies[l] = bodies[m] => l = m
    BY <1>0 DEF Gathered
  <2>2. \A s \in Ordinary : s \in Nat
    <3>1. DOMAIN planned.plan = 1 .. Len(planned.plan) /\ Len(planned.plan) \in Nat
      BY <1>0, PlannedFacts
    <3> QED
      BY <3>1 DEF Ordinary
  <2>3. \A m \in DOMAIN bodies : bodies[m] # n /\ bodies[m] <= n
    BY <1>n, <1>0, <2>1, <2>2
  <2>4. CASE UNCHANGED bodies
    BY <2>1, <2>3, <2>4
  <2>5. CASE bodies' = Append(bodies, n) /\ planned.plan[n].kind = "file"
    <3>1. \A m \in DOMAIN bodies' : (m \in DOMAIN bodies /\ bodies'[m] = bodies[m]) \/ (m = Len(bodies) + 1 /\ bodies'[m] = n)
      BY <1>n, <1>0, <2>5
    <3>2. n \in Ordinary /\ n <= n
      BY <1>n, <1>0, <2>5 DEF Ordinary
    <3> QED
      BY <2>1, <2>3, <2>5, <3>1, <3>2
  <2> QED
    BY <1>n, <2>4, <2>5
<1>5. Gathered(at)'
  BY <1>n, <1>1, <1>3, <1>4 DEF Gathered
<1>6. N = LoopNeeded(at)' /\ LoopAre(v, at, bodies)'
  BY <1>n, <1>1 DEF LoopAre
<1>7. done' = {} /\ at' <= Len(planned'.plan)
  BY <1>0 DEF TarLeft
<1> QED
  BY <1>2, <1>5, <1>6, <1>7 DEF TarLeft

(* The state of one entry follows from the loop.                            *)
LEMMA LoopTurns ==
  ASSUME PlanInv, at \in Nat, at + 1 \in Ordinary, NEW st \in States, LoopAre(st, at, bodies), bodies \in Seq(BodySlots),
         \A s \in ToSet(bodies) : s <= at, NEW w, NEW waits,
         (waits = bodies /\ w = "done") \/ (waits = Append(bodies, at + 1) /\ w = "open")
  PROVE  /\ LoopAre(Turns(st, at + 1, w), at + 1, waits)
         /\ st[at + 1] = "todo"
<1> DEFINE n == at + 1
           v == Turns(st, n, w)
<1>1. v[n] = w /\ \A s \in Ordinary : s # n => v[s] = st[s]
  BY DEF Turns, States
<1>2. \A s \in Ordinary : s \in Nat
  <2>1. DOMAIN planned.plan = 1 .. Len(planned.plan) /\ Len(planned.plan) \in Nat
    BY PlannedFacts
  <2> QED
    BY <2>1 DEF Ordinary
<1>3. ToSet(waits) = ToSet(bodies) \/ (ToSet(waits) = ToSet(bodies) \cup {n} /\ w = "open")
  <2>1. CASE waits = Append(bodies, n) /\ w = "open"
    <3>1. DOMAIN waits = 1 .. Len(bodies) + 1 /\ DOMAIN bodies = 1 .. Len(bodies) /\ Len(bodies) \in Nat
      BY <2>1
    <3>2. \A m \in DOMAIN waits : (m \in DOMAIN bodies /\ waits[m] = bodies[m]) \/ (m = Len(bodies) + 1 /\ waits[m] = n)
      BY <2>1
    <3>3. (\A m \in DOMAIN bodies : m \in DOMAIN waits /\ waits[m] = bodies[m]) /\ Len(bodies) + 1 \in DOMAIN waits /\ waits[Len(bodies) + 1] = n
      BY <2>1, <3>1
    <3> HIDE DEF n
    <3> QED
      BY <2>1, <3>2, <3>3 DEF ToSet
  <2> QED
    BY <2>1
<1>4. n \notin ToSet(bodies) /\ (w = "done" => ToSet(waits) = ToSet(bodies)) /\ (w = "open" => n \in ToSet(waits))
  <2>1. n \notin ToSet(bodies)
    <3>1. ~ (n <= at)
      OBVIOUS
    <3> QED
      BY <3>1
  <2>2. w = "open" => n \in ToSet(waits)
    <3> SUFFICES ASSUME w = "open" PROVE n \in ToSet(waits)
      OBVIOUS
    <3>1. waits = Append(bodies, n) /\ Len(bodies) + 1 \in DOMAIN waits /\ waits[Len(bodies) + 1] = n
      OBVIOUS
    <3> QED
      BY <3>1 DEF ToSet
  <2> QED
    BY <2>1, <2>2
<1>5. \A s \in Ordinary : s # n => (n < s <=> at < s)
  BY <1>2
<1>6. ~ (n < n) /\ at < n
  OBVIOUS
<1>7. \A s \in Ordinary : st[s] = IF at < s THEN "todo" ELSE IF s \in ToSet(bodies) THEN "open" ELSE "done"
  BY DEF LoopAre
<1>8. n \in Ordinary /\ w \in {"done", "open"}
  OBVIOUS
<1> HIDE DEF v, n
<1>9. \A s \in Ordinary : s # n => v[s] = IF n < s THEN "todo" ELSE IF s \in ToSet(waits) THEN "open" ELSE "done"
  BY <1>1, <1>3, <1>5, <1>7
<1>10. v[n] = IF n < n THEN "todo" ELSE IF n \in ToSet(waits) THEN "open" ELSE "done"
  BY <1>1, <1>4, <1>6, <1>8
<1>11. LoopAre(v, n, waits)
  BY <1>9, <1>10 DEF LoopAre
<1>12. st[n] = "todo"
  BY <1>6, <1>7, <1>8
<1> QED
  BY <1>11, <1>12 DEF n, v

(* The loop starts with nothing gathered.                                   *)
LEMMA TarStarts ==
  ASSUME IInv, IInv', PlanMoves, TarLeft, format = "tar", OfTar!Plan
  PROVE  TarLeft'
<1>1. /\ phase = "plan" /\ phase' \in {"entries", "err"} /\ UNCHANGED <<tree, at, bodies, directories, done>> /\ at = 0 /\ done = {}
      /\ bodies = <<>> /\ directories = <<>>
  BY DEF OfTar!Plan, OfTar!waiting, OfTar!pool, TarLeft, IInv, TarInv
<1>2. tree' = before' /\ PlanInv'
  BY <1>1 DEF IInv, PlanInv, PlanMoves
<1>3. PICK st : st = AllWait'
  OBVIOUS
<1>4. Known(tree, {}, st)'
  BY <1>2, <1>3, WaitsAtFirst
<1>5. Len(planned'.plan) \in Nat /\ DOMAIN planned'.plan = 1 .. Len(planned'.plan)
  <2>1. PICK a, o : a = archive' /\ o = options'
    OBVIOUS
  <2>2. IsArchive(a) /\ IsOptions(o) /\ planned' = BuildPlan(a, o)
    BY <1>1, <1>2, <2>1 DEF PlanInv, PlanMoves
  <2>3. BuildPlan(a, o) \in Plans(a, o)
    BY <2>2, BuildPlanType
  <2> QED
    BY <2>2, <2>3, PlansFacts
<1>6. LoopNeeded(at)' = {}
  <2>1. \A s : s \in 1 .. 0 => FALSE
    OBVIOUS
  <2> QED
    BY <1>1, <2>1 DEF LoopNeeded
<1>7. \A s \in Ordinary' : 0 < s
  BY <1>5 DEF Ordinary
<1>8. LoopAre(st, at, bodies)'
  BY <1>1, <1>3, <1>7 DEF LoopAre, AllWait
<1>9. Gathered(at)'
  <2>1. DirsTo(at)' = {}
    <3>1. \A s \in DirSlots' : s \in Nat /\ 0 < s
      BY <1>5 DEF DirSlots
    <3>2. \A s \in Nat : 0 < s => ~ (s <= 0)
      OBVIOUS
    <3> QED
      BY <1>1, <3>1, <3>2 DEF DirsTo
  <2>2. Sorted(<<>>, {}, Ascending({}))
    <3>1. Cardinality({}) = 0 /\ 1 .. 0 = {} /\ <<>> \in Seq({}) /\ Len(<<>>) = 0 /\ DOMAIN <<>> = {}
      BY FS_EmptySet
    <3> QED
      BY <3>1 DEF Sorted
  <2>3. DOMAIN bodies' = {}
    BY <1>1
  <2> QED
    BY <1>1, <2>1, <2>2, <2>3 DEF Gathered
<1>10. phase' = "entries" => \E N, r : N = LoopNeeded(at)' /\ LoopAre(r, at, bodies)' /\ Known(tree, N, r)'
  BY <1>4, <1>6, <1>8
<1>11. done' = {} /\ at' = 0 /\ at' <= Len(planned'.plan)
  BY <1>1, <1>5
<1> QED
  BY <1>1, <1>9, <1>10, <1>11 DEF TarLeft

(* What is known when the loop has made the directories an entry needs.     *)
LEMMA LoopLooks ==
  ASSUME IInv, TarLeft, format = "tar", phase = "entries", at < Len(planned.plan)
  PROVE  \E st \in States :
           /\ LoopAre(st, at, bodies)
           /\ \A s \in ToSet(bodies) : s <= at
           /\ planned.plan[at + 1].kind = "dir" => Known(WithDirectories(tree, PathAt(at + 1)), LoopNeeded(at + 1), st)
           /\ planned.plan[at + 1].kind = "file" \/ (planned.plan[at + 1].kind = "link" /\ options.symlinks) =>
                Known(WithParents(tree, PathAt(at + 1)), LoopNeeded(at + 1), st)
           /\ planned.plan[at + 1].kind \in {"hard", "special"} \/ (planned.plan[at + 1].kind = "link" /\ ~ options.symlinks) =>
                Known(tree, LoopNeeded(at + 1), st)
<1>s. PICK s : s = at + 1
  OBVIOUS
<1>0. PlanInv /\ IsTree(tree) /\ at \in Nat /\ s \in DOMAIN planned.plan /\ PathAt(s) \in Paths /\ SealedIn(tree) = {}
  <2>1. PlanInv /\ IsTree(tree) /\ at \in Nat /\ SealedIn(tree) = {}
    BY DEF IInv, TreeInv, TarInv
  <2>2. s \in DOMAIN planned.plan
    BY <1>s, <2>1, PlannedFacts
  <2> QED
    BY <2>1, <2>2, PlannedFacts DEF PathAt
<1>1. PICK N, st : N = LoopNeeded(at) /\ LoopAre(st, at, bodies) /\ Known(tree, N, st)
  BY DEF TarLeft
<1>2. LoopNeeded(s) = N \cup LoopNeeds(s)
  <2>1. \A r : r \in 1 .. at + 1 <=> r \in 1 .. at \/ r = at + 1
    BY <1>0
  <2> QED
    BY <1>s, <1>1, <2>1 DEF LoopNeeded
<1>3. \A r \in Ordinary : st[r] # "partial"
  BY <1>1 DEF LoopAre
<1>4. /\ Known(WithDirectories(tree, PathAt(s)), N \cup Ancestry(PathAt(s)), st)
      /\ Known(WithParents(tree, PathAt(s)), N \cup Above(PathAt(s)), st)
  BY <1>0, <1>1, <1>3, DirectoriesHold
<1>5. \A r \in ToSet(bodies) : r <= at
  BY DEF TarLeft, Gathered, ToSet
<1>6. st \in States
  BY <1>1 DEF Known
<1>7. planned.plan[s].kind \in {"hard", "special"} \/ (planned.plan[s].kind = "link" /\ ~ options.symlinks) => N \cup LoopNeeds(s) = N
  BY DEF LoopNeeds
<1>8. planned.plan[s].kind = "dir" => LoopNeeds(s) = Ancestry(PathAt(s))
  BY DEF LoopNeeds
<1>9. planned.plan[s].kind = "file" \/ (planned.plan[s].kind = "link" /\ options.symlinks) => LoopNeeds(s) = Above(PathAt(s))
  BY DEF LoopNeeds
<1> QED
  BY <1>s, <1>1, <1>2, <1>4, <1>5, <1>6, <1>7, <1>8, <1>9

(* An entry that is not a directory is done or waits.                       *)
LEMMA TarEntryTurns ==
  ASSUME IInv, TarLeft, format = "tar", UNCHANGED <<archive, options, before, planned, format, done, directories>>,
         phase = "entries", phase' = "entries", at < Len(planned.plan), at' = at + 1,
         planned.plan[at + 1].kind # "dir", NEW st \in States, LoopAre(st, at, bodies), \A s \in ToSet(bodies) : s <= at,
         NEW w,
         (bodies' = bodies /\ w = "done")
         \/ (bodies' = Append(bodies, at + 1) /\ w = "open" /\ planned.plan[at + 1].kind = "file"),
         Known(tree', LoopNeeded(at + 1), Turns(st, at + 1, w))
  PROVE  TarLeft'
<1>1. PlanInv /\ at \in Nat /\ bodies \in Seq(BodySlots)
  BY DEF IInv, TarInv
<1>2. at + 1 \in Ordinary
  <2>1. at + 1 \in DOMAIN planned.plan
    BY <1>1, PlannedFacts
  <2> QED
    BY <2>1 DEF Ordinary
<1>3. PICK waits : waits = bodies'
  OBVIOUS
<1>4. LoopAre(Turns(st, at + 1, w), at + 1, waits)
  BY <1>1, <1>2, <1>3, LoopTurns
<1>5. PICK N, v : N = LoopNeeded(at + 1) /\ v = Turns(st, at + 1, w)
  OBVIOUS
<1>6. Known(tree', N, v) /\ LoopAre(v, at + 1, bodies')
  BY <1>3, <1>4, <1>5
<1> QED
  BY <1>5, <1>6, TarGoesOn

(* The loop.                                                                *)
LEMMA TarEntriesLeave ==
  ASSUME IInv, IInv', PlanMoves, TarLeft, format = "tar",
         OfTar!HardLinkEntry \/ OfTar!SpecialEntry \/ OfTar!DirectoryEntry \/ OfTar!LinkEntry \/ OfTar!FileEntry
  PROVE  TarLeft'
<1>1. CASE phase' = "err"
  BY <1>1 DEF TarLeft
<1>2. CASE phase' # "err"
  <2>0. /\ phase = "entries" /\ phase' = "entries" /\ at < Len(planned.plan) /\ at' = at + 1
        /\ UNCHANGED <<archive, options, before, planned, format, done>>
        /\ OfTar!item = planned.plan[at + 1] /\ OfTar!entry = archive[planned.plan[at + 1].index]
    BY <1>2 DEF OfTar!HardLinkEntry, OfTar!SpecialEntry, OfTar!DirectoryEntry, OfTar!LinkEntry, OfTar!FileEntry, OfTar!InLoop,
       OfTar!Onward, OfTar!Stopped, OfTar!pool, OfTar!plan, OfTar!item, OfTar!entry, PlanMoves
  <2>1. PICK st \in States :
          /\ LoopAre(st, at, bodies)
          /\ \A s \in ToSet(bodies) : s <= at
          /\ planned.plan[at + 1].kind = "dir" => Known(WithDirectories(tree, PathAt(at + 1)), LoopNeeded(at + 1), st)
          /\ planned.plan[at + 1].kind = "file" \/ (planned.plan[at + 1].kind = "link" /\ options.symlinks) =>
               Known(WithParents(tree, PathAt(at + 1)), LoopNeeded(at + 1), st)
          /\ planned.plan[at + 1].kind \in {"hard", "special"} \/ (planned.plan[at + 1].kind = "link" /\ ~ options.symlinks) =>
               Known(tree, LoopNeeded(at + 1), st)
    BY <2>0, LoopLooks
  <2>s. PICK s, p, N : s = at + 1 /\ p = PathAt(s) /\ N = LoopNeeded(s)
    OBVIOUS
  <2>2. PlanInv /\ at \in Nat /\ bodies \in Seq(BodySlots) /\ s \in DOMAIN planned.plan
    <3>1. PlanInv /\ at \in Nat /\ bodies \in Seq(BodySlots)
      BY DEF IInv, TarInv
    <3> QED
      BY <2>0, <2>s, <3>1, PlannedFacts
  <2>3. planned.plan[s].kind # "dir" => s \in Ordinary
    BY <2>2 DEF Ordinary
  <2>4. planned.plan[s].kind # "dir" => st[s] = "todo"
    <3> SUFFICES ASSUME s \in Ordinary PROVE st[s] = "todo"
      BY <2>3
    <3>1. at < s
      BY <2>2, <2>s
    <3> QED
      BY <2>1, <3>1 DEF LoopAre
  <2>5. CASE OfTar!HardLinkEntry \/ OfTar!SpecialEntry
    <3>1. /\ planned.plan[s].kind \in {"hard", "special"} /\ tree' = tree /\ UNCHANGED <<bodies, directories>>
      BY <1>2, <2>0, <2>5, <2>s DEF OfTar!HardLinkEntry, OfTar!SpecialEntry, OfTar!InLoop, OfTar!Stopped, OfTar!waiting
    <3>2. ~ Makes(s)
      BY <3>1 DEF Makes
    <3>3. Known(tree, N, Turns(st, s, "done"))
      BY <2>0, <2>1, <2>2, <2>3, <2>4, <2>s, <3>1, <3>2, LeftOut
    <3> QED
      BY <2>0, <2>1, <2>s, <3>1, <3>3, TarEntryTurns
  <2>6. CASE OfTar!DirectoryEntry
    <3>1. /\ planned.plan[s].kind = "dir" /\ tree' = WithDirectories(tree, p) /\ UNCHANGED bodies /\ directories' = Append(directories, s)
      BY <1>2, <2>0, <2>6, <2>s, OfTarTree DEF OfTar!DirectoryEntry, OfTar!InLoop, OfTar!Stopped, PathAt
    <3>2. Known(tree', N, st)
      BY <2>1, <2>s, <3>1
    <3>3. LoopAre(st, s, bodies)
      <4>1. s \notin Ordinary
        BY <3>1 DEF Ordinary
      <4>2. \A r \in Ordinary : r \in Nat
        <5>1. DOMAIN planned.plan = 1 .. Len(planned.plan) /\ Len(planned.plan) \in Nat
          BY <2>2, PlannedFacts
        <5> QED
          BY <5>1 DEF Ordinary
      <4>3. \A r \in Ordinary : s < r <=> at < r
        BY <2>2, <2>s, <4>1, <4>2
      <4> QED
        BY <2>1, <4>3 DEF LoopAre
    <3>4. LoopAre(st, at + 1, bodies') /\ N = LoopNeeded(at + 1)
      BY <2>s, <3>1, <3>3
    <3> QED
      BY <2>0, <2>s, <3>1, <3>2, <3>4, TarGoesOn
  <2>7. CASE OfTar!LinkEntry
    <3>1. /\ planned.plan[s].kind = "link" /\ UNCHANGED <<bodies, directories>>
          /\ \/ ~ options.symlinks /\ tree' = tree
             \/ options.symlinks /\ archive[planned.plan[s].index].escapes /\ tree' = WithParents(tree, p)
             \/ /\ options.symlinks /\ Taken(WithParents(tree, p), p) /\ options.overwrite = "never"
                /\ tree' = WithParents(tree, p)
             \/ /\ options.symlinks /\ ~ archive[planned.plan[s].index].escapes
                /\ Taken(WithParents(tree, p), p) => options.overwrite = "always"
                /\ OfTar!Creatable(Cleared(WithParents(tree, p), p), p)
                /\ tree' = [WithParents(tree, p) EXCEPT ![p] = [kind |-> "link", by |-> planned.plan[s].index]]
      <4>1. p = planned.plan[at + 1].path
        BY <2>s DEF PathAt
      <4> QED
        BY <1>2, <2>0, <2>7, <2>s, <4>1, OfTarTree DEF OfTar!LinkEntry, OfTar!InLoop, OfTar!Stopped, OfTar!waiting
    <3>2. PICK there : there = WithParents(tree, p)
      OBVIOUS
    <3>3. /\ options.symlinks => Known(there, N, st)
          /\ ~ options.symlinks => Known(tree, N, st)
      BY <2>1, <2>s, <3>1, <3>2
    <3>4. Known(tree', N, Turns(st, s, "done"))
      <4>1. CASE ~ options.symlinks /\ tree' = tree
        <5>1. ~ Makes(s)
          BY <3>1, <4>1 DEF Makes
        <5> QED
          BY <2>0, <2>2, <2>3, <2>4, <3>1, <3>3, <4>1, <5>1, LeftOut
      <4>2. CASE options.symlinks /\ archive[planned.plan[s].index].escapes /\ tree' = there
        <5>1. ~ Makes(s)
          BY <3>1, <4>2 DEF Makes
        <5> QED
          BY <2>0, <2>2, <2>3, <2>4, <3>1, <3>3, <4>2, <5>1, LeftOut
      <4>3. CASE options.symlinks /\ Taken(there, p) /\ options.overwrite = "never" /\ tree' = there
        BY <2>0, <2>2, <2>3, <2>4, <2>s, <3>1, <3>3, <4>3, PassedOver
      <4>4. CASE /\ options.symlinks /\ ~ archive[planned.plan[s].index].escapes
                 /\ Taken(there, p) => options.overwrite = "always"
                 /\ OfTar!Creatable(Cleared(there, p), p)
                 /\ tree' = [there EXCEPT ![p] = [kind |-> "link", by |-> planned.plan[s].index]]
        <5>1. Makes(s) /\ Cleared(there, p)[p].kind # "dir"
          BY SMTT(40), <3>1, <4>4, CreatableFacts DEF Makes
        <5>2. Known([there EXCEPT ![p] = [kind |-> planned.plan[s].kind, by |-> planned.plan[s].index]], N, Turns(st, s, "done"))
          BY <2>0, <2>2, <2>3, <2>4, <2>s, <3>1, <3>3, <4>4, <5>1, MadeAtOnce
        <5> QED
          BY SMTT(40), <3>1, <4>4, <5>2
      <4> QED
        BY <3>1, <3>2, <4>1, <4>2, <4>3, <4>4
    <3> QED
      BY <2>0, <2>1, <2>s, <3>1, <3>4, TarEntryTurns
  <2>8. CASE OfTar!FileEntry
    <3>1. /\ planned.plan[s].kind = "file" /\ UNCHANGED directories
          /\ \/ /\ ~ Taken(WithParents(tree, p), p) \/ options.overwrite = "always"
                /\ tree' = Cleared(WithParents(tree, p), p) /\ bodies' = Append(bodies, s)
             \/ /\ Taken(WithParents(tree, p), p) /\ options.overwrite = "never"
                /\ tree' = WithParents(tree, p) /\ bodies' = bodies
      <4>1. p = planned.plan[at + 1].path
        BY <2>s DEF PathAt
      <4> QED
        BY <1>2, <2>0, <2>8, <2>s, <4>1, OfTarTree DEF OfTar!FileEntry, OfTar!InLoop, OfTar!Stopped, OfTar!waiting
    <3>2. PICK there : there = WithParents(tree, p)
      OBVIOUS
    <3>3. Known(there, N, st)
      BY <2>1, <2>s, <3>1, <3>2
    <3>4. CASE /\ ~ Taken(there, p) \/ options.overwrite = "always"
               /\ tree' = Cleared(there, p) /\ bodies' = Append(bodies, s)
      <4>1. Known(tree', N, Turns(st, s, "open"))
        BY <2>0, <2>2, <2>3, <2>4, <2>s, <3>1, <3>3, <3>4, LookedAt
      <4> QED
        BY <2>0, <2>1, <2>s, <3>1, <3>4, <4>1, TarEntryTurns
    <3>5. CASE /\ Taken(there, p) /\ options.overwrite = "never"
               /\ tree' = there /\ bodies' = bodies
      <4>1. Known(tree', N, Turns(st, s, "done"))
        BY <2>0, <2>2, <2>3, <2>4, <2>s, <3>1, <3>3, <3>5, PassedOver
      <4> QED
        BY <2>0, <2>1, <2>s, <3>1, <3>5, <4>1, TarEntryTurns
    <3> QED
      BY <3>1, <3>2, <3>4, <3>5
  <2> QED
    BY <2>5, <2>6, <2>7, <2>8
<1> QED
  BY <1>1, <1>2

(* A worker goes on with its body.                                          *)
LEMMA BodyGoesOn ==
  ASSUME IInv, format = "tar", phase = "bodies", Gathered(Len(planned.plan)), NEW st \in States, BodiesAre(st, work),
         NEW i \in DOMAIN work, NEW w, NEW states, states = [work EXCEPT ![i] = w]
  PROVE  BodiesAre(Turns(st, bodies[i + 1], BodyState(w)), states)
<1>0. DOMAIN work = 0 .. Len(bodies) - 1 /\ Len(bodies) \in Nat /\ DOMAIN bodies = 1 .. Len(bodies)
  BY DEF IInv, TarInv
<1>1. \A j \in DOMAIN work : j + 1 \in DOMAIN bodies
  BY <1>0
<1>a. \A j \in DOMAIN work : j # i => j + 1 # i + 1
  BY <1>0
<1>s. PICK s, v : s = bodies[i + 1] /\ v = Turns(st, s, BodyState(w))
  OBVIOUS
<1>2. /\ \A j \in DOMAIN work : bodies[j + 1] \in Ordinary
      /\ \A j \in DOMAIN work : j # i => bodies[j + 1] # s
      /\ s \in ToSet(bodies) /\ s \in Ordinary
  BY <1>1, <1>a, <1>s DEF Gathered, ToSet
<1>3. v[s] = BodyState(w) /\ \A r \in Ordinary : r # s => v[r] = st[r]
  BY <1>2, <1>s DEF Turns, States
<1>4. \A r \in Ordinary : r \notin ToSet(bodies) => v[r] = "done"
  BY <1>2, <1>3 DEF BodiesAre
<1>5. \A j \in DOMAIN work : v[bodies[j + 1]] = BodyState(states[j])
  BY <1>2, <1>3, <1>s DEF BodiesAre
<1>6. DOMAIN states = DOMAIN work
  OBVIOUS
<1> QED
  BY <1>4, <1>5, <1>6, <1>s DEF BodiesAre

(* The loop is over, and the bodies are shared out.                         *)
LEMMA TarBodiesStart ==
  ASSUME IInv, IInv', PlanMoves, TarLeft, format = "tar", OfTar!StartBodies
  PROVE  TarLeft'
<1>1. /\ phase = "entries" /\ at = Len(planned.plan) /\ phase' = "bodies" /\ at' = 0 /\ count' = Len(bodies)
      /\ work' = [i \in 0 .. Len(bodies) - 1 |-> "todo"]
      /\ UNCHANGED <<archive, options, before, planned, format, tree, bodies, pending, directories, done>>
  BY DEF OfTar!StartBodies, OfTar!plan, OfTar!waiting, PlanMoves
<1>2. PlanInv /\ Len(bodies) \in Nat /\ DOMAIN bodies = 1 .. Len(bodies)
  BY DEF IInv, TarInv
<1>3. PICK N, st, n : n = Len(planned.plan) /\ N = LoopNeeded(n) /\ LoopAre(st, n, bodies) /\ Known(tree, N, st) /\ Gathered(n) /\ done = {}
  BY <1>1 DEF TarLeft
<1>4. BodiesAre(st, work')
  <2>1. \A s \in Ordinary : ~ (n < s)
    <3>1. DOMAIN planned.plan = 1 .. Len(planned.plan) /\ Len(planned.plan) \in Nat
      BY <1>2, PlannedFacts
    <3> QED
      BY <1>3, <3>1 DEF Ordinary
  <2>2. \A s \in Ordinary : st[s] = IF s \in ToSet(bodies) THEN "open" ELSE "done"
    BY <1>3, <2>1 DEF LoopAre
  <2>3. \A i \in DOMAIN work' : work'[i] = "todo" /\ i + 1 \in DOMAIN bodies
    BY <1>1, <1>2
  <2>4. \A i \in DOMAIN work' : bodies[i + 1] \in Ordinary /\ bodies[i + 1] \in ToSet(bodies)
    BY <1>3, <2>3 DEF Gathered, ToSet
  <2> QED
    BY <2>2, <2>3, <2>4 DEF BodiesAre, BodyState
<1>5. Known(tree, N, st)'
  BY <1>1, <1>3, KnownStays
<1>6. /\ LoopNeeded(n)' = N /\ Gathered(n)' /\ n = Len(planned'.plan)
      /\ \A states : BodiesAre(st, states)' <=> BodiesAre(st, states)
  BY <1>1, <1>3, TarStays
<1>7. BodiesAre(st, work)'
  BY <1>1, <1>4, <1>6 DEF BodiesAre, BodyState
<1>8. LoopNeeded(Len(planned.plan))' = N /\ Gathered(Len(planned.plan))'
  BY <1>1, <1>3, <1>6 DEF Gathered, LoopNeeded
<1>9. count' = Len(bodies)' /\ done' = {}
  BY <1>1, <1>3
<1> QED
  BY <1>1, <1>5, <1>7, <1>8, <1>9 DEF TarLeft

(* The bodies.                                                              *)
LEMMA TarBodiesLeave ==
  ASSUME IInv, IInv', PlanMoves, TarLeft, format = "tar", NEW i \in DOMAIN work,
         OfTar!CreateBody(i) \/ OfTar!FailBody(i) \/ OfTar!CompleteBody(i)
  PROVE  TarLeft'
<1>0. /\ PlanInv /\ IsTree(tree) /\ phase = "bodies" /\ phase' = phase /\ at' = at
      /\ UNCHANGED <<archive, options, before, format, planned, bodies, pending, directories>>
      /\ DOMAIN work = 0 .. Len(bodies) - 1 /\ Len(bodies) \in Nat /\ DOMAIN bodies = 1 .. Len(bodies)
  BY DEF IInv, TreeInv, TarInv, OfTar!CreateBody, OfTar!FailBody, OfTar!CompleteBody, OfTar!InPool, OfTar!waiting, PlanMoves
<1>1. PICK N, st : N = LoopNeeded(Len(planned.plan)) /\ BodiesAre(st, work) /\ Known(tree, N, st)
  BY <1>0 DEF TarLeft
<1>2. at = 0 /\ count = Len(bodies) /\ (\A j \in done : j \in DOMAIN work /\ work[j] = "done") /\ Gathered(Len(planned.plan))
  BY <1>0 DEF TarLeft
<1>s. PICK s, p : s = bodies[i + 1] /\ p = PathAt(s)
  OBVIOUS
<1>3. /\ s \in Ordinary /\ planned.plan[s].kind = "file"
      /\ OfTar!Target(i) = p /\ OfTar!plan[bodies[i + 1]] = planned.plan[s]
  <2>1. i + 1 \in DOMAIN bodies
    BY <1>0
  <2> QED
    BY <1>2, <1>s, <2>1 DEF Gathered, OfTar!Target, OfTar!plan, PathAt
<1>4. st[s] = BodyState(work[i]) /\ st \in States
  BY <1>1, <1>s DEF BodiesAre, Known
<1>5. /\ count' = count
      /\ \E w \in {"partial", "done", "dead"} :
           /\ work' = [work EXCEPT ![i] = w] /\ Known(tree', N, Turns(st, s, w))
           /\ work[i] # "done"
           /\ done' = done \/ (done' = done \cup {i} /\ w = "done")
  <2>2. CASE OfTar!CreateBody(i)
    <3>1. /\ work[i] = "todo" /\ count' = count /\ done' = done
          /\ \/ /\ tree[p].kind # "dir" /\ work' = [work EXCEPT ![i] = "partial"]
                /\ tree' = IF tree[p].kind = "link" THEN tree
                           ELSE [tree EXCEPT ![p] = [kind |-> "partial", by |-> planned.plan[s].index]]
             \/ tree' = tree /\ work' = [work EXCEPT ![i] = "dead"]
      <4>1. /\ work[i] = "todo"
            /\ \/ /\ OfTar!Creatable(tree, p) /\ work' = [work EXCEPT ![i] = "partial"] /\ UNCHANGED OfTar!pool
                  /\ tree' = IF tree[p].kind = "link" THEN tree
                             ELSE [tree EXCEPT ![p] = [kind |-> "partial", by |-> planned.plan[s].index]]
               \/ tree' = tree /\ work' = [work EXCEPT ![i] = "dead"] /\ OfTar!Pool!Fail(OfTar!Pool!OfTask(i))
        BY <1>3, <2>2 DEF OfTar!CreateBody, OfTar!InPool, OfTar!Becomes
      <4>2. UNCHANGED OfTar!pool \/ OfTar!Pool!Fail(OfTar!Pool!OfTask(i)) => count' = count /\ done' = done
        BY DEF OfTar!pool, OfTar!Pool!Fail
      <4>3. OfTar!Creatable(tree, p) => tree[p].kind # "dir"
        BY CreatableFacts
      <4> QED
        BY <4>1, <4>2, <4>3
    <3>2. st[s] = "open"
      BY <1>4, <3>1 DEF BodyState
    <3>3. ASSUME tree[p].kind # "dir"
          PROVE  /\ tree[p].kind # "link"
                 /\ Known([tree EXCEPT ![p] = [kind |-> "partial", by |-> planned.plan[s].index]], N, Turns(st, s, "partial"))
      BY <1>0, <1>1, <1>3, <1>s, <3>2, <3>3, IsCreated
    <3>4. Known(tree, N, Turns(st, s, "dead"))
      BY <1>0, <1>1, <1>3, GivenUp
    <3> QED
      BY <3>1, <3>3, <3>4
  <2>3. CASE OfTar!FailBody(i)
    <3>1. /\ work[i] = "partial" /\ count' = count /\ done' = done /\ tree' = tree /\ work' = [work EXCEPT ![i] = "dead"]
      BY <2>3 DEF OfTar!FailBody, OfTar!InPool, OfTar!Becomes, OfTar!Pool!Fail
    <3>2. Known(tree, N, Turns(st, s, "dead"))
      BY <1>0, <1>1, <1>3, GivenUp
    <3> QED
      BY <3>1, <3>2
  <2>4. CASE OfTar!CompleteBody(i)
    <3>1. /\ work[i] = "partial" /\ count' = count /\ done' = done \cup {i} /\ work' = [work EXCEPT ![i] = "done"]
          /\ tree' = IF tree[p].kind = "partial" THEN [tree EXCEPT ![p].kind = "file"] ELSE tree
      BY <1>3, <2>4 DEF OfTar!CompleteBody, OfTar!InPool, OfTar!Becomes, OfTar!Pool!Complete
    <3>2. st[s] = "partial"
      BY <1>4, <3>1 DEF BodyState
    <3>3. tree[p].kind = "partial" /\ Known([tree EXCEPT ![p].kind = "file"], N, Turns(st, s, "done"))
      BY SMTT(40), <1>0, <1>1, <1>3, <1>s, <3>2, IsFinished
    <3> QED
      BY <3>1, <3>3
  <2> QED
    BY <2>2, <2>3, <2>4
<1>6. PICK w \in {"partial", "done", "dead"} :
        /\ work' = [work EXCEPT ![i] = w] /\ Known(tree', N, Turns(st, s, w))
        /\ work[i] # "done"
        /\ done' = done \/ (done' = done \cup {i} /\ w = "done")
  BY <1>5
<1>7. PICK v, states, n : v = Turns(st, s, w) /\ states = work' /\ n = Len(planned.plan)
  OBVIOUS
<1>8. BodiesAre(v, states)
  <2>1. w = BodyState(w)
    BY DEF BodyState
  <2> QED
    BY <1>0, <1>1, <1>2, <1>4, <1>6, <1>7, <1>s, <2>1, BodyGoesOn
<1>9. Known(tree, N, v)'
  BY <1>0, <1>6, <1>7, KnownStays
<1>10. /\ LoopNeeded(n)' = N /\ (Gathered(n)' <=> Gathered(n)) /\ n = Len(planned'.plan)
       /\ BodiesAre(v, states)'
  BY <1>0, <1>1, <1>7, <1>8, TarStays
<1>11. BodiesAre(v, work)'
  BY <1>7, <1>10 DEF BodiesAre
<1>12. LoopNeeded(Len(planned.plan))' = N /\ Gathered(Len(planned.plan))'
  BY <1>2, <1>7, <1>10 DEF Gathered, LoopNeeded
<1>13. \A j \in done' : j \in DOMAIN work' /\ work'[j] = "done"
  BY <1>2, <1>6
<1>14. at' = 0 /\ count' = Len(bodies)' /\ phase' = "bodies"
  BY <1>0, <1>2, <1>5
<1> QED
  BY <1>9, <1>11, <1>12, <1>13, <1>14 DEF TarLeft

(* The bodies are all there when for_each returns without a failure.        *)
LEMMA TarBodiesReturn ==
  ASSUME IInv, IInv', PlanMoves, TarLeft, format = "tar", OfTar!BodiesReturn
  PROVE  TarLeft'
<1>1. CASE phase' = "err"
  BY <1>1 DEF TarLeft
<1>2. CASE phase' # "err"
  <2>0. /\ PlanInv /\ phase = "bodies" /\ phase' = "hardlinks" /\ UNCHANGED <<tree, at, bodies, pending, directories>>
        /\ DOMAIN work = 0 .. Len(bodies) - 1 /\ Len(bodies) \in Nat /\ DOMAIN bodies = 1 .. Len(bodies)
        /\ pending \in Seq(LinkSlots)
        /\ UNCHANGED <<archive, options, before, format, planned>>
        /\ done = {i \in 0 .. MaxEntries : i < count}
    BY <1>2 DEF IInv, TarInv, OfTar!BodiesReturn, OfTar!waiting, OfTar!Pool!ReturnOk, OfTar!Pool!Index, PlanMoves
  <2>1. PICK N, st : N = LoopNeeded(Len(planned.plan)) /\ BodiesAre(st, work) /\ Known(tree, N, st)
    BY <2>0 DEF TarLeft
  <2>2. at = 0 /\ count = Len(bodies) /\ (\A j \in done : j \in DOMAIN work /\ work[j] = "done") /\ Gathered(Len(planned.plan))
    BY <2>0 DEF TarLeft
  <2>3. Len(bodies) <= MaxEntries /\ MaxEntries \in Nat
    <3>1. Len(planned.plan) \in Nat /\ Len(planned.plan) <= MaxEntries /\ DOMAIN planned.plan = 1 .. Len(planned.plan)
      BY <2>0, PlanIsShort, PlannedFacts
    <3>2. IsFiniteSet(1 .. Len(planned.plan)) /\ Cardinality(1 .. Len(planned.plan)) = Len(planned.plan)
      BY <3>1, CountUpto
    <3>3. IsFiniteSet(1 .. Len(bodies)) /\ Cardinality(1 .. Len(bodies)) = Len(bodies)
      BY <2>0, CountUpto
    <3>4. bodies \in Injection(1 .. Len(bodies), 1 .. Len(planned.plan))
      <4>1. \A m \in DOMAIN bodies : bodies[m] \in 1 .. Len(planned.plan)
        BY <2>2, <3>1 DEF Gathered, Ordinary
      <4>2. bodies \in [1 .. Len(bodies) -> 1 .. Len(planned.plan)]
        <5>1. bodies \in Seq(BodySlots)
          BY DEF IInv, TarInv
        <5> QED
          BY <2>0, <4>1, <5>1
      <4> QED
        BY <2>0, <2>2, <4>2 DEF Gathered, Injection, IsInjective
    <3>5. Len(bodies) <= Len(planned.plan)
      BY <3>2, <3>3, <3>4, FS_Injection
    <3>6. MaxEntries \in Nat
      BY BoundsAssumption
    <3> QED
      BY <2>0, <3>1, <3>5, <3>6
  <2>4. DOMAIN work = done
    BY <2>0, <2>2, <2>3
  <2>5. \A s \in Ordinary : st[s] = "done"
    <3> TAKE s \in Ordinary
    <3>1. CASE s \notin ToSet(bodies)
      BY <2>1, <3>1 DEF BodiesAre
    <3>2. CASE s \in ToSet(bodies)
      <4>1. PICK m \in DOMAIN bodies : bodies[m] = s
        BY <3>2 DEF ToSet
      <4>2. m - 1 \in DOMAIN work /\ (m - 1) + 1 = m
        BY <2>0, <4>1
      <4>3. st[bodies[(m - 1) + 1]] = BodyState(work[m - 1])
        BY <2>1, <4>2 DEF BodiesAre
      <4>4. st[s] = BodyState(work[m - 1])
        BY <4>1, <4>2, <4>3
      <4>5. work[m - 1] = "done"
        BY <2>2, <2>4, <4>2
      <4> QED
        BY <4>4, <4>5 DEF BodyState
    <3> QED
      BY <3>1, <3>2
  <2>6. \A E, items : Sealing(tree, N, E, items, 0)
    <3> TAKE E, items
    <3>1. Sealing(tree, N, {}, items, 0)
      BY <2>0, <2>1, <2>5, SealingBegins
    <3> QED
      BY <3>1 DEF Sealing
  <2>7. PICK E, M : E = LinkPlaces /\ M = LinkNeeded(0)
    OBVIOUS
  <2>8. M = N
    <3>1. \A m : m \in 1 .. 0 => FALSE
      OBVIOUS
    <3> QED
      BY <2>1, <2>7, <3>1 DEF LinkNeeded
  <2>9. Sealing(tree, M, E, <<>>, 0)'
    BY <2>0, <2>6, <2>8, SealingStays
  <2>10. LinkPlaces' = E /\ LinkNeeded(0)' = M /\ \A n : Gathered(n)' <=> Gathered(n)
    BY <2>0, <2>7, TarStays
  <2>11. LinkNeeded(at)' = M
    BY <2>0, <2>2, <2>10 DEF LinkNeeded
  <2>12. PICK n : n = Len(planned.plan)
    OBVIOUS
  <2>13. Gathered(Len(planned.plan))'
    BY <2>0, <2>2, <2>10, <2>12 DEF Gathered
  <2>14. at' <= Len(pending')
    BY <2>0, <2>2
  <2> QED
    BY <2>0, <2>9, <2>10, <2>11, <2>13, <2>14 DEF TarLeft
<1> QED
  BY <1>1, <1>2

(* A hard link changes its place and makes the directories above it.        *)
LEMMA LinkChanges ==
  ASSUME NEW t, IsTree(t), SealedIn(t) = {}, NEW N \in SUBSET Paths, NEW E, Sealing(t, N, E, <<>>, 0), NEW p \in Paths, p \in E,
         NEW u, \A q \in Paths : q # p => u[q] = WithParents(t, p)[q]
  PROVE  Sealing(u, N \cup Above(p), E, <<>>, 0)
<1>1. \A q \in Paths : WithParents(t, p)[q] = IF q \in Above(p) /\ t[q].kind # "dir" THEN Fresh ELSE t[q]
  <2>1. CASE Len(p) > 1
    <3>1. Ancestry(Front(p)) = Above(p)
      BY <2>1, PathFacts
    <3> QED
      BY <2>1, <3>1 DEF WithParents, WithDirectories, IsTree
  <2>2. CASE ~ (Len(p) > 1)
    <3>1. Above(p) = {}
      BY <2>2, PathFacts
    <3> QED
      BY <2>2, <3>1 DEF WithParents
  <2> QED
    BY <2>1, <2>2
<1>2. \A q \in Above(p) : q \in Paths
  BY PathFacts DEF Above
<1>3. \A q \in Paths : t[q].kind = "dir" => t[q].by = 0
  BY DEF SealedIn
<1>4. \A n \in 1 .. 0 : FALSE
  OBVIOUS
<1>5. \A q \in Paths : q \notin E => u[q] = IF q \in Above(p) /\ t[q].kind # "dir" THEN Fresh ELSE t[q]
  BY <1>1
<1>6. ASSUME NEW q \in Paths, q \notin (N \cup Above(p)) \cup E PROVE Final(u, q)
  <2>1. u[q] = t[q] /\ Final(t, q)
    BY <1>5, <1>6 DEF Sealing
  <2> QED
    BY <2>1 DEF Final
<1>7. ASSUME NEW q \in (N \cup Above(p)) \ E, q \in Paths PROVE u[q].kind = "dir" /\ u[q].by = 0
  <2>1. CASE q \in Above(p)
    BY <1>3, <1>5, <1>7, <2>1 DEF Fresh
  <2>2. CASE q \notin Above(p)
    <3>1. q \in N \ E /\ u[q] = t[q]
      BY <1>5, <1>7, <2>2
    <3>2. t[q].kind = "dir"
      BY <3>1 DEF Sealing
    <3> QED
      BY <1>3, <1>7, <3>1, <3>2
  <2> QED
    BY <2>1, <2>2
<1> QED
  BY <1>2, <1>4, <1>6, <1>7 DEF Sealing

(* The places that are needed are paths, and so are those of hard links.    *)
LEMMA LinkNeededGrows ==
  ASSUME IInv, format = "tar"
  PROVE  /\ \A n \in Nat : n <= Len(pending) => LinkNeeded(n) \in SUBSET Paths
         /\ \A n \in Nat : LinkNeeded(n + 1) = LinkNeeded(n) \cup Above(PathAt(pending[n + 1]))
         /\ \A m \in 1 .. Len(pending) : /\ pending[m] \in DOMAIN planned.plan /\ planned.plan[pending[m]].kind = "hard"
                                         /\ PathAt(pending[m]) \in Paths /\ PathAt(pending[m]) \in LinkPlaces
         /\ \A s \in DirSlots : PathAt(s) \in Paths /\ PathAt(s) \in LoopNeeded(Len(planned.plan))
<1>1. PlanInv /\ pending \in Seq(LinkSlots)
  BY DEF IInv, TarInv
<1>2. DOMAIN planned.plan = 1 .. Len(planned.plan) /\ Len(planned.plan) \in Nat /\ \A s \in DOMAIN planned.plan : PathAt(s) \in Paths
  BY <1>1, PlannedFacts DEF PathAt
<1>3. \A s \in DOMAIN planned.plan : LoopNeeds(s) \subseteq Paths
  BY <1>2, PathFacts DEF LoopNeeds, Above
<1>4. LoopNeeded(Len(planned.plan)) \subseteq Paths
  BY <1>2, <1>3 DEF LoopNeeded
<1>5. \A m \in 1 .. Len(pending) : pending[m] \in LinkSlots /\ pending[m] \in ToSet(pending)
  BY <1>1 DEF ToSet
<1>6. \A m \in 1 .. Len(pending) : /\ pending[m] \in DOMAIN planned.plan /\ planned.plan[pending[m]].kind = "hard"
                                   /\ PathAt(pending[m]) \in Paths /\ PathAt(pending[m]) \in LinkPlaces
  BY <1>2, <1>5 DEF LinkSlots, LinkPlaces
<1>7. \A m \in 1 .. Len(pending) : Above(PathAt(pending[m])) \subseteq Paths
  BY <1>6, PathFacts DEF Above
<1>8. ASSUME NEW n \in Nat, n <= Len(pending) PROVE LinkNeeded(n) \in SUBSET Paths
  <2>1. \A m \in 1 .. n : m \in 1 .. Len(pending)
    BY <1>1, <1>8
  <2> QED
    BY <1>4, <1>7, <2>1 DEF LinkNeeded
<1>9. ASSUME NEW n \in Nat PROVE LinkNeeded(n + 1) = LinkNeeded(n) \cup Above(PathAt(pending[n + 1]))
  <2>1. \A m : m \in 1 .. n + 1 <=> m \in 1 .. n \/ m = n + 1
    OBVIOUS
  <2> QED
    BY <2>1 DEF LinkNeeded
<1>10. \A s \in DirSlots : PathAt(s) \in Paths /\ PathAt(s) \in LoopNeeded(Len(planned.plan))
  <2> TAKE s \in DirSlots
  <2>1. s \in 1 .. Len(planned.plan) /\ LoopNeeds(s) = Ancestry(PathAt(s)) /\ PathAt(s) \in Paths
    BY <1>2 DEF DirSlots, LoopNeeds
  <2>2. PathAt(s) \in Ancestry(PathAt(s))
    BY <2>1, PathFacts
  <2> QED
    BY <2>1, <2>2 DEF LoopNeeded
<1> QED
  BY <1>6, <1>8, <1>9, <1>10

(* The hard links.                                                          *)
LEMMA TarLinksLeave ==
  ASSUME IInv, IInv', PlanMoves, TarLeft, format = "tar",
         OfTar!MakeHardLink \/ OfTar!SkipHardLink \/ OfTar!HardLinkFails \/ OfTar!LinksEnd
  PROVE  TarLeft'
<1>1. CASE phase' = "err"
  BY <1>1 DEF TarLeft
<1>2. CASE phase' # "err"
  <2>0. /\ PlanInv /\ IsTree(tree) /\ phase = "hardlinks" /\ UNCHANGED <<bodies, pending, directories>>
        /\ UNCHANGED <<archive, options, before, format, planned>> /\ at \in Nat
        /\ SealedIn(tree) = {} /\ pending \in Seq(LinkSlots)
    BY DEF IInv, TreeInv, TarInv, OfTar!MakeHardLink, OfTar!SkipHardLink, OfTar!HardLinkFails, OfTar!LinksEnd, OfTar!InLinks,
           OfTar!waiting, PlanMoves
  <2>1. PICK N, E : N = LinkNeeded(at) /\ E = LinkPlaces
    OBVIOUS
  <2>2. at <= Len(pending) /\ Sealing(tree, N, E, <<>>, 0) /\ Gathered(Len(planned.plan))
    BY <2>0, <2>1 DEF TarLeft
  <2>3. PICK n : n = Len(planned.plan)
    OBVIOUS
  <2>4. Gathered(Len(planned.plan))'
    <3>1. Gathered(n)' <=> Gathered(n)
      BY <2>0, TarStays
    <3> QED
      BY <2>0, <2>2, <2>3, <3>1 DEF Gathered
  <2>5. CASE OfTar!LinksEnd
    <3>1. phase' = "seal" /\ at' = 0 /\ tree' = tree /\ at = Len(pending)
      BY <2>5 DEF OfTar!LinksEnd
    <3>2. PICK items : items = DirectoryItems
      OBVIOUS
    <3>3. Sealing(tree', N, E, items, 0)
      <4>1. \A m \in 1 .. 0 : FALSE
        OBVIOUS
      <4> QED
        BY <2>2, <3>1, <4>1 DEF Sealing
    <3>4. Sealing(tree, N, E, items, 0)'
      BY <2>0, <3>3, SealingStays
    <3>5. DirectoryItems' = items /\ LinkPlaces' = E /\ \A m : LinkNeeded(m)' = LinkNeeded(m)
      BY <2>0, <2>1, <3>2, TarStays
    <3>6. LinkNeeded(Len(pending))' = N
      <4>1. PICK m : m = Len(pending)
        OBVIOUS
      <4>2. LinkNeeded(m)' = N
        BY <2>1, <3>1, <3>5, <4>1
      <4> QED
        BY <2>0, <4>1, <4>2 DEF LinkNeeded
    <3>7. at' <= Len(directories')
      <4>1. directories \in Seq(DirSlots)
        BY DEF IInv, TarInv
      <4> QED
        BY <2>0, <3>1, <4>1
    <3> QED
      BY <2>4, <3>1, <3>4, <3>5, <3>6, <3>7 DEF TarLeft
  <2>6. CASE OfTar!MakeHardLink \/ OfTar!SkipHardLink
    <3>1. /\ phase' = "hardlinks" /\ at' = at + 1 /\ at < Len(pending)
          /\ OfTar!linkPath = PathAt(pending[at + 1]) /\ OfTar!atParents = WithParents(tree, PathAt(pending[at + 1]))
      BY <2>0, <2>6, OfTarTree DEF OfTar!MakeHardLink, OfTar!SkipHardLink, OfTar!InLinks, OfTar!Onward, OfTar!linkPath, OfTar!plan,
         PathAt, OfTar!atParents
    <3>2. PICK p : p = PathAt(pending[at + 1])
      OBVIOUS
    <3>3. p \in Paths /\ p \in E /\ N \in SUBSET Paths /\ LinkNeeded(at + 1) = N \cup Above(p)
      <4>1. at + 1 \in 1 .. Len(pending)
        BY <2>0, <3>1
      <4> QED
        BY <2>0, <2>1, <2>2, <3>2, <4>1, LinkNeededGrows
    <3>4. \A q \in Paths : q # p => tree'[q] = WithParents(tree, p)[q]
      <4>1. PICK t : t = WithParents(tree, p)
        OBVIOUS
      <4>2. IsTree(t)
        BY <2>0, <3>3, <4>1, WithParentsFacts
      <4>3. \/ \E node : tree' = [Cleared(t, p) EXCEPT ![p] = node]
            \/ tree' = t \/ tree' = Cleared(t, p)
        BY <2>6, <3>1, <3>2, <4>1, OfTarTree DEF OfTar!MakeHardLink, OfTar!SkipHardLink
      <4>4. \A q \in Paths : q # p => Cleared(t, p)[q] = t[q]
        BY <4>2, ClearedFacts DEF Differs
      <4>5. IsTree(Cleared(t, p))
        BY <4>2, ClearedFacts
      <4>6. \A u : \A node : IsTree(u) => \A q \in Paths : q # p => [u EXCEPT ![p] = node][q] = u[q]
        BY DEF IsTree
      <4>7. PICK c : c = Cleared(t, p)
        OBVIOUS
      <4>8. ASSUME NEW node, tree' = [c EXCEPT ![p] = node] PROVE \A q \in Paths : q # p => tree'[q] = t[q]
        BY ONLY <4>4, <4>5, <4>6, <4>7, <4>8
      <4>9. tree' = t \/ tree' = c => \A q \in Paths : q # p => tree'[q] = t[q]
        BY ONLY <4>4, <4>7
      <4> QED
        BY <4>1, <4>3, <4>7, <4>8, <4>9
    <3>5. PICK M : M = LinkNeeded(at + 1)
      OBVIOUS
    <3>6. Sealing(tree', M, E, <<>>, 0)
      BY <2>0, <2>2, <3>3, <3>4, <3>5, LinkChanges
    <3>7. Sealing(tree, M, E, <<>>, 0)'
      BY <2>0, <3>6, SealingStays
    <3>8. LinkPlaces' = E /\ \A m : LinkNeeded(m)' = LinkNeeded(m)
      BY <2>0, <2>1, TarStays
    <3>9. LinkNeeded(at)' = M
      <4>1. PICK m : m = at + 1
        OBVIOUS
      <4>2. LinkNeeded(m)' = M
        BY <3>5, <3>8, <4>1
      <4> QED
        BY <3>1, <4>1, <4>2 DEF LinkNeeded
    <3>10. at' <= Len(pending')
      BY <2>0, <3>1
    <3> QED
      BY <2>4, <3>1, <3>7, <3>8, <3>9, <3>10 DEF TarLeft
  <2>7. ~ OfTar!HardLinkFails
    BY <1>2 DEF OfTar!HardLinkFails, OfTar!Stopped
  <2> QED
    BY <2>5, <2>6, <2>7
<1> QED
  BY <1>1, <1>2

(* The metadata of the directories, and the end.                            *)
LEMMA TarSealLeaves ==
  ASSUME IInv, IInv', PlanMoves, TarLeft, format = "tar", OfTar!Seal \/ OfTar!Finish
  PROVE  TarLeft'
<1>1. PICK N, E, items, q, n : N = LinkNeeded(Len(pending)) /\ E = LinkPlaces /\ items = DirectoryItems /\ q = directories
                              /\ n = Len(planned.plan)
  OBVIOUS
<1>0. /\ PlanInv /\ IsTree(tree) /\ phase = "seal" /\ UNCHANGED <<bodies, pending, directories>>
      /\ UNCHANGED <<archive, options, before, format, planned>> /\ at \in Nat
      /\ pending \in Seq(LinkSlots) /\ q \in Seq(DirSlots)
  BY <1>1 DEF IInv, TreeInv, TarInv, OfTar!Seal, OfTar!Finish, OfTar!waiting, PlanMoves
<1>2. /\ at <= Len(q) /\ (~ options.restore => at = 0) /\ Sealing(tree, N, E, items, at) /\ Gathered(n)
  BY <1>0, <1>1 DEF TarLeft
<1>3. N \in SUBSET Paths /\ \A s \in DirSlots : PathAt(s) \in Paths /\ PathAt(s) \in N
  <2>1. Len(pending) \in Nat
    BY <1>0
  <2> QED
    BY <1>1, <2>1, LinkNeededGrows DEF LinkNeeded
<1>4. Sorted(q, DirSlots, Ascending(DirSlots))
  <2>1. DirsTo(n) = DirSlots
    <3>1. DOMAIN planned.plan = 1 .. Len(planned.plan) /\ Len(planned.plan) \in Nat
      BY <1>0, PlannedFacts
    <3> QED
      BY <1>1, <3>1 DEF DirsTo, DirSlots
  <2> QED
    BY <1>1, <1>2, <2>1 DEF Gathered
<1>5. items = [m \in DOMAIN q |-> planned.plan[q[m]]]
  BY <1>1 DEF DirectoryItems
<1>6. /\ DOMAIN items = 1 .. Len(q) /\ Len(items) = Len(q) /\ Len(q) \in Nat
      /\ items \in Seq(PlanItems(archive, options))
      /\ \A m \in DOMAIN items : items[m].path \in Paths /\ items[m].path \in N
  <2>1. \A s \in DirSlots : planned.plan[s] \in PlanItems(archive, options)
    <3>1. planned.plan \in Seq(PlanItems(archive, options))
      BY <1>0, PlannedFacts
    <3> QED
      BY <3>1 DEF DirSlots
  <2>2. DOMAIN q = 1 .. Len(q) /\ Len(q) \in Nat /\ \A m \in DOMAIN q : q[m] \in DirSlots
    BY <1>0
  <2>3. items \in Seq(PlanItems(archive, options)) /\ DOMAIN items = DOMAIN q /\ Len(items) = Len(q)
    BY <1>5, <2>1, <2>2
  <2>4. \A m \in DOMAIN items : items[m].path = PathAt(q[m]) /\ q[m] \in DirSlots
    BY <1>5, <2>2, <2>3 DEF PathAt
  <2> QED
    BY <1>3, <2>2, <2>3, <2>4
<1>7. Len(DeepestFirst(items)) = Len(items) /\ \A m \in 1 .. Len(q) : DeepestFirst(items)[m] \in DOMAIN items
  <2>1. Sorted(DeepestFirst(items), DOMAIN items, Deeper(items))
    BY <1>6, DeepestFirstSorts
  <2>2. Cardinality(DOMAIN items) = Len(items)
    BY SMTT(40), <1>6, CountUpto
  <2> QED
    BY <1>6, <2>1, <2>2 DEF Sorted
<1>8. OfTar!Directories = items
  BY <1>1 DEF OfTar!Directories, OfTar!plan, DirectoryItems
<1>9. /\ DirectoryItems' = items /\ LinkPlaces' = E /\ LinkNeeded(Len(pending))' = N
      /\ Gathered(Len(planned.plan))'
  <2>1. DirectoryItems' = items /\ LinkPlaces' = E /\ (\A m : LinkNeeded(m)' = LinkNeeded(m)) /\ (Gathered(n)' <=> Gathered(n))
    BY <1>0, <1>1, TarStays
  <2>2. PICK m : m = Len(pending)
    OBVIOUS
  <2>3. LinkNeeded(m)' = N
    BY <1>1, <2>1, <2>2
  <2>4. LinkNeeded(Len(pending))' = N
    BY <1>0, <2>2, <2>3 DEF LinkNeeded
  <2>5. Gathered(Len(planned.plan))'
    BY <1>0, <1>1, <1>2, <2>1 DEF Gathered
  <2> QED
    BY <2>1, <2>4, <2>5
<1>10. CASE OfTar!Seal
  <2>1. PICK item, k : item = TurnOf(items, at + 1) /\ k = at + 1
    BY SMTT(40)
  <2>2. /\ at' = at + 1 /\ phase' = "seal" /\ at < Len(q) /\ Seals(item, tree, tree') /\ options'.restore
    BY <1>0, <1>1, <1>8, <1>10, <2>1, OfTarOrder DEF OfTar!Seal, Seals, TurnOf
  <2>3. item.path \in N
    <3>1. at + 1 \in 1 .. Len(q)
      BY <1>0, <1>6, <2>2
    <3> QED
      BY <1>6, <1>7, <2>1, <3>1 DEF TurnOf
  <2>4. Sealing(tree', N, E, items, at + 1)
    BY <1>0, <1>2, <1>3, <2>1, <2>2, <2>3, SealingGoesOn
  <2>5. Sealing(tree, N, E, items, k)'
    BY <1>0, <2>1, <2>4, SealingStays
  <2>6. Sealing(tree, LinkNeeded(Len(pending)), LinkPlaces, DirectoryItems, at)'
    BY <1>9, <2>1, <2>2, <2>5
  <2>7. at' <= Len(directories')
    BY <1>0, <1>1, <1>6, <2>2
  <2> QED
    BY <1>9, <2>2, <2>6, <2>7 DEF TarLeft
<1>11. CASE OfTar!Finish
  <2>1. phase' = "done" /\ tree' = tree /\ (options.restore => at = Len(q))
    BY <1>1, <1>11 DEF OfTar!Finish
  <2>2. at = IF options.restore THEN Len(q) ELSE 0
    BY <1>2, <2>1
  <2>3. Settled(tree, N, E)
    BY <1>0, <1>2, <1>3, <1>4, <1>5, <2>2, SealingSettles
  <2>4. Settled(tree, N, E)'
    BY <1>0, <2>1, <2>3, SealingStays
  <2> QED
    BY <1>9, <2>1, <2>4 DEF TarLeft
<1> QED
  BY <1>10, <1>11

(* The bookkeeping of for_each changes nothing of that.                     *)
LEMMA TarLeftStays ==
  ASSUME IInv, IInv', TarLeft, format = "tar",
         UNCHANGED <<archive, options, before, format, planned, tree, phase, at, work, count, done, bodies, pending, directories>>
  PROVE  TarLeft'
<1>1. /\ \A n : LoopNeeded(n)' = LoopNeeded(n) /\ LinkNeeded(n)' = LinkNeeded(n) /\ (Gathered(n)' <=> Gathered(n))
      /\ \A st, n, waits : LoopAre(st, n, waits)' <=> LoopAre(st, n, waits)
      /\ \A st, states : BodiesAre(st, states)' <=> BodiesAre(st, states)
      /\ LinkPlaces' = LinkPlaces /\ DirectoryItems' = DirectoryItems
  BY TarStays
<1>2. \A N, st : Known(tree, N, st) => Known(tree, N, st)'
  BY KnownStays
<1>3. /\ \A N, E, items, k : Sealing(tree, N, E, items, k) => Sealing(tree, N, E, items, k)'
      /\ \A N, E : Settled(tree, N, E) => Settled(tree, N, E)'
  BY SealingStays
<1>n. PICK n, l : n = Len(planned.plan) /\ l = Len(pending)
  OBVIOUS
<1>4. /\ LoopNeeded(Len(planned.plan))' = LoopNeeded(n)
      /\ LinkNeeded(Len(pending))' = LinkNeeded(l)
      /\ Gathered(Len(planned.plan))' <=> Gathered(n)
  <2>1. LoopNeeded(n)' = LoopNeeded(n) /\ LinkNeeded(l)' = LinkNeeded(l) /\ (Gathered(n)' <=> Gathered(n))
    BY <1>1
  <2> QED
    BY <1>n, <2>1 DEF LoopNeeded, LinkNeeded, Gathered
<1>5. CASE phase = "plan"
  <2>1. done' = {} /\ at' = 0 /\ phase' = "plan"
    BY <1>5 DEF TarLeft
  <2> QED
    BY <2>1 DEF TarLeft
<1>6. CASE phase = "entries"
  <2>1. PICK N, st, k, waits : /\ N = LoopNeeded(at) /\ LoopAre(st, at, bodies) /\ Known(tree, N, st) /\ k = at /\ waits = bodies
                               /\ Gathered(at)
    BY <1>6 DEF TarLeft
  <2>2. LoopNeeded(k)' = N /\ LoopAre(st, k, waits)' /\ Known(tree, N, st)' /\ Gathered(k)'
    BY <1>1, <1>2, <2>1
  <2>3. N = LoopNeeded(at)' /\ LoopAre(st, at, bodies)' /\ Gathered(at)'
    BY <2>1, <2>2 DEF LoopNeeded, LoopAre, Gathered
  <2>4. done' = {} /\ at' <= Len(planned'.plan) /\ phase' = "entries"
    BY <1>6 DEF TarLeft
  <2> QED
    BY <2>2, <2>3, <2>4 DEF TarLeft
<1>7. CASE phase = "bodies"
  <2>1. PICK N, st, states : N = LoopNeeded(n) /\ BodiesAre(st, work) /\ Known(tree, N, st) /\ states = work /\ Gathered(n)
    BY <1>7, <1>n DEF TarLeft
  <2>2. BodiesAre(st, states)' /\ Known(tree, N, st)'
    BY <1>1, <1>2, <2>1
  <2>3. BodiesAre(st, work)' /\ N = LoopNeeded(Len(planned.plan))' /\ Gathered(Len(planned.plan))'
    BY <1>4, <2>1, <2>2 DEF BodiesAre
  <2>4. at' = 0 /\ count' = Len(bodies') /\ (\A i \in done' : i \in DOMAIN work' /\ work'[i] = "done") /\ phase' = "bodies"
    BY <1>7 DEF TarLeft
  <2> QED
    BY <2>2, <2>3, <2>4 DEF TarLeft
<1>8. CASE phase = "hardlinks"
  <2>1. PICK N, E, k : N = LinkNeeded(at) /\ E = LinkPlaces /\ Sealing(tree, N, E, <<>>, 0) /\ k = at /\ Gathered(n)
    BY <1>8, <1>n DEF TarLeft
  <2>2. LinkNeeded(k)' = N /\ LinkPlaces' = E /\ Sealing(tree, N, E, <<>>, 0)' /\ Gathered(Len(planned.plan))'
    BY <1>1, <1>3, <1>4, <2>1
  <2>3. LinkNeeded(at)' = N
    BY <2>1, <2>2 DEF LinkNeeded
  <2>4. at' <= Len(pending') /\ phase' = "hardlinks"
    BY <1>8 DEF TarLeft
  <2> QED
    BY <2>2, <2>3, <2>4 DEF TarLeft
<1>9. CASE phase = "seal"
  <2>1. PICK N, E, items, k : /\ N = LinkNeeded(l) /\ E = LinkPlaces /\ items = DirectoryItems /\ k = at
                              /\ Sealing(tree, N, E, items, k) /\ Gathered(n)
    BY <1>9, <1>n DEF TarLeft
  <2>2. /\ LinkNeeded(Len(pending))' = N /\ LinkPlaces' = E /\ DirectoryItems' = items /\ k = at'
        /\ Sealing(tree, N, E, items, k)' /\ Gathered(Len(planned.plan))'
    BY <1>1, <1>3, <1>4, <2>1
  <2>3. at' <= Len(directories') /\ (~ options'.restore => at' = 0) /\ phase' = "seal"
    BY <1>9 DEF TarLeft
  <2> QED
    BY <2>2, <2>3 DEF TarLeft
<1>10. CASE phase = "done"
  <2>1. PICK N, E : N = LinkNeeded(l) /\ E = LinkPlaces /\ Settled(tree, N, E)
    BY <1>10, <1>n DEF TarLeft
  <2>2. LinkNeeded(Len(pending))' = N /\ LinkPlaces' = E /\ Settled(tree, N, E)' /\ phase' = "done"
    BY <1>1, <1>3, <1>4, <1>10, <2>1
  <2> QED
    BY <2>2 DEF TarLeft
<1>11. CASE phase \notin {"plan", "entries", "bodies", "hardlinks", "seal", "done"}
  BY <1>11 DEF TarLeft
<1> QED
  BY <1>5, <1>6, <1>7, <1>8, <1>9, <1>10, <1>11

(* A step of a tar keeps it.                                                *)
LEMMA TarLeftKept ==
  ASSUME IInv, IInv', PlanMoves, TarLeft, format = "tar", UNCHANGED format, OfTar!Next
  PROVE  TarLeft'
<1>1. CASE OfTar!OpenFails \/ OfTar!KeepFailure
  <2>1. UNCHANGED <<archive, options, before, format, planned, tree, phase, at, work, count, done, bodies, pending, directories>>
    BY <1>1 DEF OfTar!OpenFails, OfTar!KeepFailure, OfTar!Pool!Fail, OfTar!Pool!Keep, OfTar!input, OfTar!waiting
  <2> QED
    BY <2>1, TarLeftStays
<1>2. CASE OfTar!Ended
  <2>1. UNCHANGED <<archive, options, before, format, planned, tree, phase, at, work, count, done, bodies, pending, directories>>
    BY <1>2 DEF OfTar!Ended, OfTar!vars, OfTar!input, OfTar!pool, OfTar!waiting
  <2> QED
    BY <2>1, TarLeftStays
<1> QED
  BY <1>1, <1>2, TarStarts, TarEntriesLeave, TarBodiesStart, TarBodiesLeave, TarBodiesReturn, TarLinksLeave, TarSealLeaves DEF OfTar!Next

(* What is settled is what the property expects, but for hard links.        *)
LEMMA TarExpected ==
  ASSUME IInv, TarLeft, format = "tar"
  PROVE  OfTar!ResultIsDetermined
<1> SUFFICES ASSUME phase = "done", NEW p \in Paths, \A s \in ToSet(pending) : planned.plan[s].path # p PROVE tree[p] = OfTar!Expected(p)
  BY DEF OfTar!ResultIsDetermined, OfTar!plan, OfTar!ToSet, ToSet
<1>1. PlanInv /\ Settled(tree, LinkNeeded(Len(pending)), LinkPlaces) /\ OfTar!plan = planned.plan /\ pending \in Seq(LinkSlots)
  BY DEF TarLeft, IInv, TarInv, OfTar!plan
<1>2. p \notin LinkPlaces
  BY DEF LinkPlaces, PathAt
<1>3. OfTar!LastDirectory(p) = LastDirectory(p)
  BY <1>1 DEF OfTar!LastDirectory, LastDirectory
<1>4. OfTar!Restored(p) = Given(p)
  <2>1. \A s \in Ordinary : Makes(s) <=> \/ planned.plan[s].kind = "file"
                                         \/ /\ planned.plan[s].kind = "link" /\ options.symlinks
                                            /\ ~ archive[planned.plan[s].index].escapes
    BY DEF Makes
  <2>2. \A s \in DOMAIN planned.plan : planned.plan[s].kind \in {"file", "link"} => s \in Ordinary
    BY DEF Ordinary
  <2>3. Ordinary \subseteq DOMAIN planned.plan
    BY DEF Ordinary
  <2> QED
    BY <1>1, <2>1, <2>2, <2>3, OfTarTree DEF OfTar!Restored, Given, Free, PathAt
<1>5. OfTar!NeededPaths = LinkNeeded(Len(pending))
  <2>1. DOMAIN planned.plan = 1 .. Len(planned.plan) /\ Len(planned.plan) \in Nat
    BY <1>1, PlannedFacts
  <2>2. ASSUME NEW s \in DOMAIN planned.plan
        PROVE  OfTar!NeededBy(s) = LoopNeeds(s) \cup (IF s \in ToSet(pending) THEN Above(PathAt(s)) ELSE {})
    <3>1. planned.plan[s].kind \in {"dir", "file", "link", "hard", "special"}
      BY <1>1, PlannedKinds
    <3>2. s \in ToSet(pending) => planned.plan[s].kind = "hard"
      BY <1>1 DEF ToSet, LinkSlots
    <3>3. /\ OfTar!Above(PathAt(s)) = Above(PathAt(s)) /\ OfTar!Ancestry(PathAt(s)) = Ancestry(PathAt(s))
          /\ OfTar!ToSet(pending) = ToSet(pending) /\ OfTar!plan[s] = planned.plan[s] /\ PathAt(s) = planned.plan[s].path
      BY <1>1, OfTarTree DEF OfTar!Ancestry, Ancestry, OfTar!ToSet, ToSet, PathAt
    <3>4. CASE planned.plan[s].kind = "dir"
      BY <3>2, <3>3, <3>4 DEF OfTar!NeededBy, LoopNeeds
    <3>5. CASE planned.plan[s].kind = "hard"
      BY <3>2, <3>3, <3>5 DEF OfTar!NeededBy, LoopNeeds
    <3>6. CASE planned.plan[s].kind = "special"
      BY <3>2, <3>3, <3>6 DEF OfTar!NeededBy, LoopNeeds
    <3>7. CASE planned.plan[s].kind = "file"
      BY <3>2, <3>3, <3>7 DEF OfTar!NeededBy, LoopNeeds
    <3>8. CASE planned.plan[s].kind = "link"
      BY <3>2, <3>3, <3>8 DEF OfTar!NeededBy, LoopNeeds
    <3> QED
      BY <3>1, <3>4, <3>5, <3>6, <3>7, <3>8
  <2>3. OfTar!NeededPaths = UNION {LoopNeeds(s) \cup (IF s \in ToSet(pending) THEN Above(PathAt(s)) ELSE {}) : s \in DOMAIN planned.plan}
    BY <1>1, <2>2 DEF OfTar!NeededPaths
  <2>4. \A m \in 1 .. Len(pending) : pending[m] \in ToSet(pending) /\ pending[m] \in DOMAIN planned.plan
    BY <1>1 DEF ToSet, LinkSlots
  <2>5. \A s \in ToSet(pending) : \E m \in 1 .. Len(pending) : pending[m] = s
    BY <1>1 DEF ToSet
  <2>6. ASSUME NEW q \in OfTar!NeededPaths PROVE q \in LinkNeeded(Len(pending))
    <3>1. PICK s \in DOMAIN planned.plan : q \in LoopNeeds(s) \/ (s \in ToSet(pending) /\ q \in Above(PathAt(s)))
      BY <2>3, <2>6
    <3>2. CASE q \in LoopNeeds(s)
      BY <2>1, <3>2 DEF LinkNeeded, LoopNeeded
    <3>3. CASE s \in ToSet(pending) /\ q \in Above(PathAt(s))
      BY <2>5, <3>3 DEF LinkNeeded
    <3> QED
      BY <3>1, <3>2, <3>3
  <2>7. ASSUME NEW q \in LinkNeeded(Len(pending)) PROVE q \in OfTar!NeededPaths
    <3>1. CASE q \in LoopNeeded(Len(planned.plan))
      <4>1. PICK s \in DOMAIN planned.plan : q \in LoopNeeds(s)
        BY <2>1, <3>1 DEF LoopNeeded
      <4> QED
        BY <2>3, <4>1
    <3>2. CASE q \notin LoopNeeded(Len(planned.plan))
      <4>1. PICK m \in 1 .. Len(pending) : q \in Above(PathAt(pending[m]))
        BY <3>2 DEF LinkNeeded
      <4> QED
        BY <2>3, <2>4, <4>1
    <3> QED
      BY <3>1, <3>2
  <2> QED
    BY <2>6, <2>7
<1>6. tree[p] = IF p \in LinkNeeded(Len(pending)) THEN [kind |-> "dir", by |-> LastDirectory(p)] ELSE Elsewhere(p)
  BY <1>1, <1>2 DEF Settled
<1> QED
  BY <1>1, <1>3, <1>4, <1>5, <1>6 DEF OfTar!Expected, Elsewhere

-----------------------------------------------------------------------------
(* What a 7z leaves.  The files without bytes are taken in turn;            *)
EmptyAre(st, n) ==
  /\ \A s \in Ordinary : planned.plan[s].kind # "file" \/ FolderOf(s) # 0 => st[s] = "todo"
  /\ \A m \in 1 .. Len(EmptySlots) : st[EmptySlots[m]] = IF m <= n THEN "done" ELSE "todo"

(* in a folder the files behind the worker are done, and the next is in the *)
(* state it has it in, while links wait;                                    *)
Reached(n, behind, state, kind) ==
  IF n <= behind THEN IF kind = "file" THEN "done" ELSE "todo"
  ELSE IF n = behind + 1 /\ state \in {"open", "partial"} THEN state
  ELSE "todo"
FolderIs(st, g, state, behind) ==
  \A n \in 1 .. Len(GroupOf(g)) :
    (state = "dead" => n # behind + 1)
      => st[GroupOf(g)[n]] = Reached(n, behind, state, planned.plan[GroupOf(g)[n]].kind)
FoldersAre(st, states, behind) ==
  /\ \A s \in Ordinary : s \notin LocatedSlots => st[s] = IF planned.plan[s].kind = "file" THEN "done" ELSE "todo"
  /\ \A g \in DOMAIN states : FolderIs(st, g, states[g], behind[g])

(* a worker has not read past the entry it comes to next, and the links     *)
(* behind it are set aside, each with what the archive holds for it.        *)
InReach(g, behind, read) == \A n \in 1 .. Len(GroupOf(g)) : behind < n => read <= Offset(GroupOf(g)[n])
LinksRead(S) ==
  \A l \in S : l.slot \in LocatedSlots /\ planned.plan[l.slot].kind = "link" /\ l.by = planned.plan[l.slot].index
LinksBehind(S, g, behind) ==
  \A n \in 1 .. Len(GroupOf(g)) :
    n <= behind /\ planned.plan[GroupOf(g)[n]].kind = "link" => \E l \in S : l.slot = GroupOf(g)[n]
LinksTaken(st, n) ==
  /\ \A s \in Ordinary : (\A l \in links : l.slot # s) => st[s] = "done" \/ (st[s] = "todo" /\ ~ Makes(s))
  /\ \A m \in 1 .. Cardinality(links) : st[LinkList[m].slot] = IF m <= n THEN "done" ELSE "todo"

(* Nothing is claimed of what an anti item names, nor of anything where one *)
(* of them is led elsewhere.                                                *)
AntiPaths == {AntiPath(n) : n \in DOMAIN planned.anti}

SevenZLeft ==
  /\ phase \in {"plan", "directories", "empty"} => done = {} /\ (phase = "plan" => at = 0)
  /\ phase = "directories" =>
       at <= Len(planned.plan) /\ \E N, st : N = NeededTo(at) /\ st = AllWait /\ Known(tree, N, st)
  /\ phase = "empty" =>
       at <= Len(EmptySlots) /\ \E N, st : N = Needed(planned.plan) /\ Known(tree, N, st) /\ EmptyAre(st, at)
  /\ phase = "folders" =>
       /\ at = 0 /\ count = Len(FolderList)
       /\ \A g \in done : g \in DOMAIN work /\ work[g] = "done"
       /\ \A g \in DOMAIN work :
            /\ cursor[g] <= Len(GroupOf(g)) /\ (work[g] = "done" => cursor[g] = Len(GroupOf(g)))
            /\ work[g] \in {"open", "partial"} =>
                 cursor[g] < Len(GroupOf(g)) /\ planned.plan[GroupOf(g)[cursor[g] + 1]].kind = "file"
            /\ InReach(g, cursor[g], position[g]) /\ LinksBehind(links, g, cursor[g])
       /\ LinksRead(links)
       /\ \E N, st : N = Needed(planned.plan) /\ Known(tree, N, st) /\ FoldersAre(st, work, cursor)
  /\ phase = "links" =>
       /\ at <= Cardinality(links) /\ LinksRead(links)
       /\ \E N, st : N = Needed(planned.plan) /\ Known(tree, N, st) /\ LinksTaken(st, at)
  /\ phase = "deletions" /\ ~ AntiLed => Sealing(tree, Needed(planned.plan), AntiPaths, ItemsOf("dir"), 0)
  /\ phase = "seal" =>
       /\ at <= Len(SlotsOf("dir")) /\ (~ options.restore => at = 0)
       /\ ~ AntiLed => Sealing(tree, Needed(planned.plan), AntiPaths, ItemsOf("dir"), at)
  /\ phase = "done" /\ ~ AntiLed => Settled(tree, Needed(planned.plan), AntiPaths)

(* Every slot with bytes has one place in one folder, at an offset that     *)
(* grows with the place.                                                    *)
LEMMA GroupFacts ==
  ASSUME PlanInv, phase \notin {"plan", "err"}
  PROVE  /\ Len(FolderList) \in Nat /\ Len(FolderList) <= MaxEntries
         /\ LocatedSlots \subseteq Ordinary
         /\ \A s \in LocatedSlots : \E g \in 0 .. Len(FolderList) - 1 : \E n \in 1 .. Len(GroupOf(g)) : GroupOf(g)[n] = s
         /\ \A g : /\ Len(GroupOf(g)) \in Nat
                   /\ \A n \in 1 .. Len(GroupOf(g)) : GroupOf(g)[n] \in LocatedSlots /\ Offset(GroupOf(g)[n]) \in Nat
                   /\ \A m, n \in 1 .. Len(GroupOf(g)) : m < n => Offset(GroupOf(g)[m]) + 1 <= Offset(GroupOf(g)[n])
<1>1. /\ Sorted(FolderList, LocatedFolders, Below(FolderKeys, LocatedFolders))
      /\ IsFiniteSet(LocatedFolders) /\ Cardinality(LocatedFolders) <= Len(planned.plan)
  BY FoldersSort
<1>2. Len(FolderList) = Cardinality(LocatedFolders) /\ Len(FolderList) \in Nat /\ DOMAIN FolderList = 1 .. Len(FolderList)
  BY <1>1, FS_CardinalityType DEF Sorted
<1>3. Len(FolderList) <= MaxEntries
  <2>1. Len(planned.plan) \in Nat /\ Len(planned.plan) <= MaxEntries /\ MaxEntries \in Nat
    BY PlanIsShort, BoundsAssumption
  <2> QED
    BY <1>1, <1>2, <2>1
<1>4. LocatedSlots \subseteq Ordinary
  BY DEF LocatedSlots, Ordinary
<1>5. ASSUME NEW g
      PROVE  /\ Len(GroupOf(g)) \in Nat /\ DOMAIN GroupOf(g) = 1 .. Len(GroupOf(g))
             /\ \A n \in 1 .. Len(GroupOf(g)) : GroupOf(g)[n] \in SlotsIn(g) /\ Offset(GroupOf(g)[n]) \in Nat
             /\ \A s \in SlotsIn(g) : \E n \in 1 .. Len(GroupOf(g)) : GroupOf(g)[n] = s
             /\ \A m, n \in 1 .. Len(GroupOf(g)) : m < n => Offset(GroupOf(g)[m]) + 1 <= Offset(GroupOf(g)[n])
  <2> DEFINE q == GroupOf(g)
  <2>1. /\ Sorted(q, SlotsIn(g), Below(SlotKeys(g), SlotsIn(g))) /\ Cardinality(SlotsIn(g)) \in Nat
        /\ SlotKeys(g) \in [SlotsIn(g) -> Nat]
    BY GroupSorts, FS_CardinalityType
  <2>2. \A s \in SlotsIn(g) : Offset(s) \in Nat /\ SlotKeys(g)[s] = Offset(s)
    BY <2>1 DEF SlotKeys
  <2> HIDE DEF q
  <2>3. /\ Len(q) \in Nat /\ DOMAIN q = 1 .. Len(q) /\ \A n \in 1 .. Len(q) : q[n] \in SlotsIn(g)
        /\ \A s \in SlotsIn(g) : \E n \in 1 .. Len(q) : q[n] = s
        /\ \A m, n \in 1 .. Len(q) : m < n => q[m] \in Below(SlotKeys(g), SlotsIn(g))[q[n]]
    BY <2>1 DEF Sorted
  <2>4. \A m, n \in 1 .. Len(q) : m < n => SlotKeys(g)[q[m]] < SlotKeys(g)[q[n]]
    BY <2>3 DEF Below
  <2>5. ASSUME NEW m \in 1 .. Len(q), NEW n \in 1 .. Len(q), m < n PROVE Offset(q[m]) + 1 <= Offset(q[n])
    <3>1. Offset(q[m]) < Offset(q[n]) /\ Offset(q[m]) \in Nat /\ Offset(q[n]) \in Nat
      BY <2>2, <2>3, <2>4, <2>5
    <3> QED
      BY <3>1
  <2> QED
    BY <2>2, <2>3, <2>5 DEF q
<1>6. ASSUME NEW s \in LocatedSlots
      PROVE  \E g \in 0 .. Len(FolderList) - 1 : \E n \in 1 .. Len(GroupOf(g)) : GroupOf(g)[n] = s
  <2>1. FolderOf(s) \in LocatedFolders
    BY DEF LocatedFolders
  <2>2. PICK k \in DOMAIN FolderList : FolderList[k] = FolderOf(s)
    BY <1>1, <2>1 DEF Sorted
  <2>3. PICK g : g = k - 1
    OBVIOUS
  <2>4. g \in 0 .. Len(FolderList) - 1 /\ g + 1 = k
    BY <1>2, <2>2, <2>3
  <2>5. s \in SlotsIn(g)
    BY <2>2, <2>4 DEF SlotsIn
  <2> QED
    BY <1>5, <2>4, <2>5
<1>7. \A g : SlotsIn(g) \subseteq LocatedSlots
  BY DEF SlotsIn
<1> QED
  BY <1>2, <1>3, <1>4, <1>5, <1>6, <1>7

(* What lies at the offset of a slot is the entry it was planned for.       *)
LEMMA EntryIsRead ==
  ASSUME PlanInv, phase \notin {"plan", "err"}, NEW s \in LocatedSlots, NEW n \in Nat, n <= Offset(s)
  PROVE  /\ OfSevenZ!EntryAt(OfSevenZ!Folder(s), IF Offset(s) > n THEN Offset(s) ELSE n) = planned.plan[s].index
         /\ planned.plan[s].index # 0
         /\ (IF Offset(s) > n THEN Offset(s) ELSE n) = Offset(s)
<1> DEFINE i == planned.plan[s].index
           f == FolderOf(s)
<1>1. IsArchive(archive) /\ i \in DOMAIN archive /\ DOMAIN archive = 1 .. Len(archive)
  BY PlannedFacts DEF PlanInv, IsArchive, LocatedSlots
<1>2. i \in LyingIn(f) /\ i # 0
  BY <1>1 DEF LyingIn, FolderOf
<1>3. Offset(s) = OffsetOf(i)
  BY DEF Offset
<1>4. /\ OffsetOf(i) \in Nat /\ OffsetOf(i) < Cardinality(LyingIn(f))
      /\ \A j \in LyingIn(f) : OffsetOf(j) = OffsetOf(i) => j = i
  BY <1>1, <1>2, OffsetFacts
<1>5. (IF Offset(s) > n THEN Offset(s) ELSE n) = Offset(s)
  BY <1>3, <1>4
<1>6. OfSevenZ!EntryAt(f, OffsetOf(i)) = CHOOSE j \in LyingIn(f) : OffsetOf(j) = OffsetOf(i)
  BY <1>4, OfSevenZSlots
<1>7. (CHOOSE j \in LyingIn(f) : OffsetOf(j) = OffsetOf(i)) = i
  BY <1>2, <1>4
<1>8. OfSevenZ!Folder(s) = f
  BY OfSevenZSlots
<1> QED
  BY <1>2, <1>3, <1>5, <1>6, <1>7, <1>8

(* The files without bytes are all of them.                                 *)
LEMMA EmptySort ==
  ASSUME PlanInv
  PROVE  /\ Len(EmptySlots) \in Nat
         /\ \A n \in 1 .. Len(EmptySlots) :
              /\ EmptySlots[n] \in Ordinary /\ planned.plan[EmptySlots[n]].kind = "file"
              /\ EmptySlots[n] \notin LocatedSlots /\ FolderOf(EmptySlots[n]) = 0
         /\ \A s \in Ordinary : planned.plan[s].kind = "file" /\ FolderOf(s) = 0
              => \E n \in 1 .. Len(EmptySlots) : EmptySlots[n] = s
         /\ \A m, n \in 1 .. Len(EmptySlots) : EmptySlots[m] = EmptySlots[n] => m = n
<1> DEFINE S == {s \in DOMAIN planned.plan : planned.plan[s].kind = "file" /\ FolderOf(s) = 0}
           q == EmptySlots
<1>1. DOMAIN planned.plan = 1 .. Len(planned.plan) /\ Len(planned.plan) \in Nat /\ S \subseteq DOMAIN planned.plan
  BY PlannedFacts
<1>2. S \in SUBSET Nat /\ IsFiniteSet(S)
  <2>1. IsFiniteSet(DOMAIN planned.plan)
    BY <1>1, CountUpto
  <2> HIDE DEF S
  <2> QED
    BY <1>1, <2>1, FS_Subset
<1>3. Sorted(q, S, Ascending(S)) /\ Cardinality(S) \in Nat
  BY <1>2, InOrderAscending, FS_CardinalityType DEF EmptySlots
<1>4. S \subseteq Ordinary /\ (\A s \in S : planned.plan[s].kind = "file" /\ s \notin LocatedSlots /\ FolderOf(s) = 0)
      /\ \A s \in Ordinary : planned.plan[s].kind = "file" /\ FolderOf(s) = 0 => s \in S
  BY DEF Ordinary, LocatedSlots
<1> HIDE DEF q, S
<1>5. /\ DOMAIN q = 1 .. Len(q) /\ Len(q) \in Nat
      /\ \A n \in DOMAIN q : q[n] \in S
      /\ \A s \in S : \E n \in DOMAIN q : q[n] = s
      /\ \A m, n \in DOMAIN q : m < n => q[m] \in Ascending(S)[q[n]]
  BY <1>3 DEF Sorted
<1>6. \A m, n \in DOMAIN q : m < n => q[m] < q[n]
  BY <1>5 DEF Ascending
<1>7. \A m, n \in DOMAIN q : q[m] = q[n] => m = n
  <2> TAKE m, n \in DOMAIN q
  <2> HAVE q[m] = q[n]
  <2>1. q[m] \in S /\ q[n] \in S
    BY <1>5
  <2>2. m \in 1 .. Len(q) /\ n \in 1 .. Len(q)
    BY <1>5
  <2>3. q[m] \in Nat /\ q[n] \in Nat
    BY <1>2, <2>1
  <2>4. ~ (m < n) /\ ~ (n < m)
    BY <1>6, <2>3
  <2> QED
    BY <1>5, <2>2, <2>4
<1> QED
  BY <1>4, <1>5, <1>7 DEF q

(* The links that were set aside come in turn.                              *)
LEMMA LinkListFacts ==
  ASSUME IInv, format = "7z"
  PROVE  /\ Cardinality(links) \in Nat
         /\ \A m \in 1 .. Cardinality(links) : LinkList[m] \in links
         /\ \A l \in links : \E m \in 1 .. Cardinality(links) : LinkList[m] = l
         /\ \A m, n \in 1 .. Cardinality(links) : LinkList[m].slot = LinkList[n].slot => m = n
<1>1. IsFiniteSet(links) /\ (\A l \in links : l.slot \in Nat) /\ \A l, m \in links : l.slot = m.slot => l = m
  BY DEF IInv, SevenZInv, AreSetAside
<1>2. Sorted(LinkList, links, Below(LinkKeys, links)) /\ Cardinality(links) \in Nat
  BY <1>1, LinksSort, FS_CardinalityType
<1>3. /\ \A m \in 1 .. Cardinality(links) : LinkList[m] \in links
      /\ \A l \in links : \E m \in 1 .. Cardinality(links) : LinkList[m] = l
      /\ DOMAIN LinkList = 1 .. Cardinality(links)
  BY <1>2 DEF Sorted
<1>4. LinkKeys \in [links -> Nat]
  BY <1>1 DEF LinkKeys
<1>5. \A m, n \in 1 .. Cardinality(links) : LinkList[m] = LinkList[n] => m = n
  BY <1>2, <1>3, <1>4, SortedOnce
<1> QED
  BY <1>1, <1>2, <1>3, <1>5

(* All of that depends on the plan, the archive and the links alone.        *)
LEMMA SevenZStays ==
  ASSUME UNCHANGED <<archive, options, before, planned, format>>
  PROVE  /\ Ordinary' = Ordinary /\ LocatedSlots' = LocatedSlots /\ EmptySlots' = EmptySlots /\ FolderList' = FolderList
         /\ \A g : GroupOf(g)' = GroupOf(g)
         /\ \A st, n : EmptyAre(st, n)' <=> EmptyAre(st, n)
         /\ \A st, states, behind : FoldersAre(st, states, behind)' <=> FoldersAre(st, states, behind)
         /\ \A g, n, k : InReach(g, n, k)' <=> InReach(g, n, k)
         /\ \A S, g, n : LinksBehind(S, g, n)' <=> LinksBehind(S, g, n)
         /\ \A S : LinksRead(S)' <=> LinksRead(S)
         /\ links' = links => LinkList' = LinkList /\ \A st, n : LinksTaken(st, n)' <=> LinksTaken(st, n)
         /\ NeededTo(at') = NeededTo(at)' /\ AllWait' = AllWait /\ Needed(planned.plan)' = Needed(planned.plan)
         /\ (AntiLed' <=> AntiLed) /\ AntiPaths' = AntiPaths
<1>1. /\ Ordinary' = Ordinary /\ LocatedSlots' = LocatedSlots /\ EmptySlots' = EmptySlots
      /\ \A s : FolderOf(s)' = FolderOf(s) /\ (Makes(s)' <=> Makes(s))
  BY DEF Ordinary, LocatedSlots, EmptySlots, InOrder, FolderOf, Makes
<1>2. FolderList' = FolderList /\ \A g : GroupOf(g)' = GroupOf(g)
  BY GroupsStay
<1>3. \A s : Offset(s)' = Offset(s)
  BY DEF Offset, OffsetOf, LyingIn
<1>4. \A st, n : EmptyAre(st, n)' <=> EmptyAre(st, n)
  BY <1>1 DEF EmptyAre
<1>5. \A st, states, behind : FoldersAre(st, states, behind)' <=> FoldersAre(st, states, behind)
  <2>1. \A st, g, state, behind : FolderIs(st, g, state, behind)' <=> FolderIs(st, g, state, behind)
    BY <1>2 DEF FolderIs
  <2> QED
    BY <1>1, <2>1 DEF FoldersAre
<1>6. \A g, n, k : InReach(g, n, k)' <=> InReach(g, n, k)
  BY <1>2, <1>3 DEF InReach
<1>7. \A S, g, n : LinksBehind(S, g, n)' <=> LinksBehind(S, g, n)
  BY <1>2 DEF LinksBehind
<1>8. \A S : LinksRead(S)' <=> LinksRead(S)
  BY <1>1 DEF LinksRead
<1>9. ASSUME links' = links PROVE LinkList' = LinkList /\ \A st, n : LinksTaken(st, n)' <=> LinksTaken(st, n)
  <2>1. LinkList' = LinkList
    BY <1>9 DEF LinkList, InOrder
  <2> QED
    BY <1>1, <1>9, <2>1 DEF LinksTaken
<1>10. NeededTo(at') = NeededTo(at)' /\ AllWait' = AllWait /\ Needed(planned.plan)' = Needed(planned.plan)
  BY <1>1 DEF NeededTo, NeededAt, PathAt, AllWait
<1>11. (AntiLed' <=> AntiLed) /\ AntiPaths' = AntiPaths
  BY AntiStays DEF AntiPaths
<1> QED
  BY <1>1, <1>2, <1>4, <1>5, <1>6, <1>7, <1>8, <1>9, <1>10, <1>11

(* The directories.                                                         *)
LEMMA SevenZDirectoriesLeave ==
  ASSUME IInv, IInv', PlanMoves, SevenZLeft, format = "7z",
         OfSevenZ!Plan \/ OfSevenZ!MakeDirectory \/ OfSevenZ!MakeParents \/ OfSevenZ!DirectoriesEnd
  PROVE  SevenZLeft'
<1>0. PlanInv /\ PlanInv' /\ IsTree(tree) /\ at \in Nat /\ OfSevenZ!plan = planned.plan /\ done' = done
      /\ UNCHANGED <<archive, options, before, format>>
  BY DEF IInv, TreeInv, SevenZInv, OfSevenZ!plan, PlanMoves, OfSevenZ!Plan, OfSevenZ!MakeDirectory, OfSevenZ!MakeParents,
         OfSevenZ!DirectoriesEnd, OfSevenZ!InLoop, OfSevenZ!LoopEnds, OfSevenZ!pool
<1>1. CASE OfSevenZ!Plan
  <2>1. phase = "plan" /\ phase' \in {"directories", "err"} /\ at' = at /\ tree' = tree
    BY <1>1 DEF OfSevenZ!Plan
  <2>2. at = 0 /\ tree' = before' /\ done' = {}
    BY <1>0, <2>1 DEF SevenZLeft, PlanInv
  <2>3. PICK st : st = AllWait'
    OBVIOUS
  <2>4. Known(tree, {}, st)'
    BY <1>0, <2>2, <2>3, WaitsAtFirst
  <2>5. NeededTo(at)' = {} /\ at' <= Len(planned.plan)'
    <3>1. Len(planned'.plan) \in Nat
      <4>1. PICK a, o : a = archive' /\ o = options'
        OBVIOUS
      <4>2. IsArchive(a) /\ IsOptions(o) /\ planned' = BuildPlan(a, o)
        BY <1>0, <2>1, <4>1 DEF PlanInv
      <4>3. BuildPlan(a, o) \in Plans(a, o)
        BY <4>2, BuildPlanType
      <4> QED
        BY <4>2, <4>3, PlansFacts
    <3>2. \A n : n \in 1 .. 0 => FALSE
      OBVIOUS
    <3> QED
      BY <2>1, <2>2, <3>1, <3>2 DEF NeededTo
  <2>6. phase' = "directories" => \E N, r : N = NeededTo(at)' /\ r = AllWait' /\ Known(tree, N, r)'
    BY <2>3, <2>4, <2>5
  <2> QED
    BY <2>1, <2>2, <2>5, <2>6 DEF SevenZLeft
<1>2. ASSUME phase = "directories", at < Len(planned.plan), at' = at + 1, phase' = phase, planned' = planned,
             \/ /\ planned.plan[at + 1].kind = "dir" /\ tree' = WithDirectories(tree, planned.plan[at + 1].path)
             \/ /\ planned.plan[at + 1].kind # "dir" /\ tree' = WithParents(tree, planned.plan[at + 1].path)
      PROVE  SevenZLeft'
  <2> DEFINE s == at + 1
             path == planned.plan[s].path
  <2>1. s \in DOMAIN planned.plan /\ path \in Paths /\ at + 1 <= Len(planned.plan)
    <3>1. s \in DOMAIN planned.plan
      BY <1>0, <1>2, PlannedFacts
    <3> QED
      BY <1>0, <1>2, <3>1, PlannedFacts
  <2> HIDE DEF s
  <2>2. PICK N, st : N = NeededTo(at) /\ st = AllWait /\ Known(tree, N, st)
    BY <1>2 DEF SevenZLeft
  <2>3. SealedIn(tree) = {} /\ \A r \in Ordinary : st[r] # "partial"
    BY <1>2, <2>2 DEF IInv, TreeInv, AllWait
  <2> HIDE DEF path
  <2>4. /\ Known(WithDirectories(tree, path), N \cup Ancestry(path), st)
        /\ Known(WithParents(tree, path), N \cup Above(path), st)
    BY <1>0, <1>2, <2>1, <2>2, <2>3, DirectoriesHold
  <2>5. PICK M : M = N \cup NeededAt(s)
    OBVIOUS
  <2>6. Known(tree', M, st)
    BY <1>2, <2>4, <2>5 DEF NeededAt, PathAt, path, s
  <2>7. Known(tree, M, st)'
    BY <1>0, <1>2, <2>6, KnownStays
  <2>8. M = NeededTo(at)'
    <3>1. NeededTo(at + 1) = NeededTo(at) \cup NeededAt(at + 1)
      BY <1>0, NeededGrows
    <3>2. NeededTo(at)' = NeededTo(at + 1)
      BY <1>2 DEF NeededTo, NeededAt, PathAt
    <3> QED
      BY <2>2, <2>5, <3>1, <3>2 DEF s
  <2>9. st = AllWait'
    BY <1>2, <2>2 DEF AllWait, Ordinary
  <2> QED
    BY <1>0, <1>2, <2>1, <2>7, <2>8, <2>9 DEF SevenZLeft
<1>3. ASSUME phase = "directories", phase' = "err" PROVE SevenZLeft'
  BY <1>3 DEF SevenZLeft
<1>4. CASE OfSevenZ!MakeDirectory
  <2>1. \/ phase = "directories" /\ phase' = "err"
        \/ /\ phase = "directories" /\ at < Len(planned.plan) /\ at' = at + 1 /\ phase' = phase /\ planned' = planned
           /\ planned.plan[at + 1].kind = "dir" /\ tree' = WithDirectories(tree, planned.plan[at + 1].path)
    BY <1>0, <1>4, OfSevenZTree DEF OfSevenZ!MakeDirectory, OfSevenZ!InLoop, OfSevenZ!Onward, OfSevenZ!Stopped, OfSevenZ!item
  <2> QED
    BY <1>2, <1>3, <2>1
<1>5. CASE OfSevenZ!MakeParents
  <2>1. \/ phase = "directories" /\ phase' = "err"
        \/ /\ phase = "directories" /\ at < Len(planned.plan) /\ at' = at + 1 /\ phase' = phase /\ planned' = planned
           /\ planned.plan[at + 1].kind # "dir" /\ tree' = WithParents(tree, planned.plan[at + 1].path)
    BY <1>0, <1>5, OfSevenZTree DEF OfSevenZ!MakeParents, OfSevenZ!InLoop, OfSevenZ!Onward, OfSevenZ!item
  <2> QED
    BY <1>2, <1>3, <2>1
<1>6. CASE OfSevenZ!DirectoriesEnd
  <2>1. phase = "directories" /\ at = Len(planned.plan) /\ phase' = "empty" /\ planned' = planned /\ tree' = tree /\ at' = 0
    BY <1>0, <1>6 DEF OfSevenZ!DirectoriesEnd, OfSevenZ!LoopEnds
  <2>2. PICK N, st : N = NeededTo(at) /\ st = AllWait /\ Known(tree, N, st)
    BY <2>1 DEF SevenZLeft
  <2>3. N = Needed(planned.plan) /\ Needed(planned.plan)' = N
    BY <1>0, <2>1, <2>2, NeededGrows
  <2>4. Known(tree, N, st)'
    BY <1>0, <2>1, <2>2, KnownStays
  <2>5. done' = {} /\ at' = 0 /\ EmptySlots' = EmptySlots /\ \A n : EmptyAre(st, n)' <=> EmptyAre(st, n)
    BY <1>0, <2>1, SevenZStays DEF SevenZLeft
  <2>6. EmptyAre(st, 0) /\ at' <= Len(EmptySlots)
    <3>1. \A s \in Ordinary : st[s] = "todo"
      BY <2>2 DEF AllWait
    <3>2. Len(EmptySlots) \in Nat /\ \A n \in 1 .. Len(EmptySlots) : EmptySlots[n] \in Ordinary
      BY <1>0, EmptySort
    <3>3. \A n \in 1 .. Len(EmptySlots) : ~ (n <= 0)
      BY <3>2
    <3> QED
      BY <2>5, <3>1, <3>2, <3>3 DEF EmptyAre
  <2>7. EmptyAre(st, at)'
    <3>1. PICK n : n = 0
      OBVIOUS
    <3>2. EmptyAre(st, n)' /\ at' = n
      BY <2>5, <2>6, <3>1
    <3> QED
      BY <3>2 DEF EmptyAre
  <2> QED
    BY <2>1, <2>3, <2>4, <2>5, <2>6, <2>7 DEF SevenZLeft
<1> QED
  BY <1>1, <1>4, <1>5, <1>6

(* The files without bytes.                                                 *)
LEMMA SevenZEmptyLeave ==
  ASSUME IInv, IInv', PlanMoves, SevenZLeft, format = "7z", OfSevenZ!WriteEmpty
  PROVE  SevenZLeft'
<1> DEFINE q == EmptySlots
<1>0. /\ PlanInv /\ IsTree(tree) /\ phase = "empty" /\ at \in Nat /\ at < Len(q)
      /\ UNCHANGED <<archive, options, before, format, planned, done>>
  BY OfSevenZSlots DEF IInv, TreeInv, SevenZInv, OfSevenZ!WriteEmpty, OfSevenZ!InLoop, OfSevenZ!pool, PlanMoves
<1>s. PICK s, p, n : s = q[at + 1] /\ p = PathAt(s) /\ n = at + 1
  OBVIOUS
<1>1. PICK N, st : N = Needed(planned.plan) /\ Known(tree, N, st) /\ EmptyAre(st, at) /\ done = {}
  BY <1>0 DEF SevenZLeft
<1>2. n \in 1 .. Len(q) /\ s \in Ordinary /\ planned.plan[s].kind = "file" /\ FolderOf(s) = 0
  <2>1. Len(q) \in Nat
    BY <1>0, EmptySort
  <2>2. n \in 1 .. Len(q)
    BY <1>0, <1>s, <2>1
  <2> QED
    BY <1>0, <1>s, <2>2, EmptySort
<1>3. st[s] = "todo"
  <2>1. ~ (n <= at)
    BY <1>0, <1>s
  <2> QED
    BY <1>1, <1>2, <1>s, <2>1 DEF EmptyAre
<1>4. CASE phase' = "err"
  BY <1>4 DEF SevenZLeft
<1>5. CASE phase' # "err"
  <2>1. /\ at' = n /\ phase' = "empty"
        /\ \/ /\ ~ Taken(tree, p) \/ options.overwrite = "always"
              /\ OfSevenZ!Creatable(Cleared(tree, p), p)
              /\ tree' = [tree EXCEPT ![p] = [kind |-> "file", by |-> planned.plan[s].index]]
           \/ Taken(tree, p) /\ options.overwrite = "never" /\ tree' = tree
    BY <1>0, <1>5, <1>s, OfSevenZTree, OfSevenZSlots DEF OfSevenZ!WriteEmpty, OfSevenZ!InLoop, OfSevenZ!Onward, OfSevenZ!Stopped, PathAt
  <2>2. Known(tree', N, Turns(st, s, "done"))
    <3>1. CASE /\ ~ Taken(tree, p) \/ options.overwrite = "always"
               /\ OfSevenZ!Creatable(Cleared(tree, p), p)
               /\ tree' = [tree EXCEPT ![p] = [kind |-> "file", by |-> planned.plan[s].index]]
      <4>1. Makes(s) /\ Cleared(tree, p)[p].kind # "dir"
        BY <1>2, <3>1, CreatableFacts DEF Makes
      <4>2. Known([tree EXCEPT ![p] = [kind |-> planned.plan[s].kind, by |-> planned.plan[s].index]], N, Turns(st, s, "done"))
        BY <1>0, <1>1, <1>2, <1>3, <1>s, <3>1, <4>1, MadeAtOnce
      <4> QED
        BY <1>2, <3>1, <4>2
    <3>2. CASE Taken(tree, p) /\ options.overwrite = "never" /\ tree' = tree
      BY <1>0, <1>1, <1>2, <1>3, <1>s, <3>2, PassedOver
    <3> QED
      BY <2>1, <3>1, <3>2
  <2>3. PICK v : v = Turns(st, s, "done")
    OBVIOUS
  <2>4. Known(tree, N, v)'
    BY <1>0, <2>2, <2>3, KnownStays
  <2>5. EmptyAre(v, n)
    <3>1. v[s] = "done" /\ \A r \in Ordinary : r # s => v[r] = st[r]
      BY <1>1, <1>2, <2>3 DEF Turns, Known, States
    <3>2. \A r \in Ordinary : planned.plan[r].kind # "file" \/ FolderOf(r) # 0 => v[r] = "todo"
      BY <1>1, <1>2, <3>1 DEF EmptyAre
    <3>3. ASSUME NEW m \in 1 .. Len(q) PROVE v[q[m]] = IF m <= n THEN "done" ELSE "todo"
      <4>1. q[m] \in Ordinary /\ (q[m] = s => m = n)
        BY <1>0, <1>2, <1>s, EmptySort
      <4>2. st[q[m]] = IF m <= at THEN "done" ELSE "todo"
        BY <1>1 DEF EmptyAre
      <4>3. m = n => q[m] = s
        BY <1>s
      <4> HIDE DEF q
      <4>4. m # n => (m <= n <=> m <= at)
        BY <1>0, <1>s
      <4>5. m = n => m <= n
        BY <1>0, <1>s
      <4>6. CASE m = n
        BY <3>1, <4>3, <4>5, <4>6
      <4>7. CASE m # n
        BY <3>1, <4>1, <4>2, <4>4, <4>7
      <4> QED
        BY <4>6, <4>7
    <3> QED
      BY <3>2, <3>3 DEF EmptyAre
  <2>6. EmptySlots' = q /\ Needed(planned.plan)' = N /\ EmptyAre(v, n)'
    BY <1>0, <1>1, <2>5, SevenZStays
  <2>7. EmptyAre(v, at)'
    BY <2>1, <2>6 DEF EmptyAre
  <2>8. at' <= Len(EmptySlots)'
    BY <1>2, <2>1, <2>6
  <2>9. done' = {}
    BY <1>0, <1>1
  <2> QED
    BY <2>1, <2>4, <2>6, <2>7, <2>8, <2>9 DEF SevenZLeft
<1> QED
  BY SMTT(40), <1>4, <1>5

(* The folders are shared out.                                              *)
LEMMA SevenZFoldersStart ==
  ASSUME IInv, IInv', PlanMoves, SevenZLeft, format = "7z", OfSevenZ!StartFolders
  PROVE  SevenZLeft'
<1>1. /\ phase = "empty" /\ at = Len(EmptySlots) /\ phase' = "folders" /\ at' = 0
      /\ count' = Len(FolderList)
      /\ work' = [g \in 0 .. Len(FolderList) - 1 |-> "todo"]
      /\ cursor' = [g \in 0 .. Len(FolderList) - 1 |-> 0] /\ position' = [g \in 0 .. Len(FolderList) - 1 |-> 0]
      /\ UNCHANGED <<archive, options, before, planned, format, tree, links, done>>
  BY OfSevenZSlots DEF OfSevenZ!StartFolders, PlanMoves
<1>2. PlanInv /\ links = {}
  BY <1>1 DEF IInv, SevenZInv
<1>3. PICK N, st : N = Needed(planned.plan) /\ Known(tree, N, st) /\ EmptyAre(st, Len(EmptySlots)) /\ done = {}
  BY <1>1 DEF SevenZLeft
<1>4. \A s \in Ordinary : st[s] = IF planned.plan[s].kind = "file" /\ FolderOf(s) = 0 THEN "done" ELSE "todo"
  <2> TAKE s \in Ordinary
  <2>1. CASE planned.plan[s].kind = "file" /\ FolderOf(s) = 0
    <3>1. PICK n \in 1 .. Len(EmptySlots) : EmptySlots[n] = s
      BY <1>2, <2>1, EmptySort
    <3>2. n <= Len(EmptySlots)
      BY <1>2, EmptySort
    <3> QED
      BY <1>3, <2>1, <3>1, <3>2 DEF EmptyAre
  <2>2. CASE ~ (planned.plan[s].kind = "file" /\ FolderOf(s) = 0)
    BY <1>3, <2>2 DEF EmptyAre
  <2> QED
    BY <2>1, <2>2
<1>5. \A g : /\ Len(GroupOf(g)) \in Nat
             /\ \A n \in 1 .. Len(GroupOf(g)) : /\ GroupOf(g)[n] \in Ordinary /\ FolderOf(GroupOf(g)[n]) # 0
                                                /\ Offset(GroupOf(g)[n]) \in Nat /\ ~ (n <= 0)
  <2>1. phase \notin {"plan", "err"}
    BY <1>1
  <2> TAKE g
  <2>2. Len(GroupOf(g)) \in Nat /\ \A n \in 1 .. Len(GroupOf(g)) : GroupOf(g)[n] \in LocatedSlots /\ Offset(GroupOf(g)[n]) \in Nat
    BY <1>2, <2>1, GroupFacts
  <2>3. \A s \in LocatedSlots : s \in Ordinary /\ FolderOf(s) # 0
    BY DEF LocatedSlots, Ordinary
  <2>4. \A n \in 1 .. Len(GroupOf(g)) : ~ (n <= 0)
    BY <2>2
  <2> QED
    BY <2>2, <2>3, <2>4
<1>6. FoldersAre(st, work', cursor')
  <2>1. \A s \in Ordinary : s \notin LocatedSlots => st[s] = IF planned.plan[s].kind = "file" THEN "done" ELSE "todo"
    BY <1>4 DEF Ordinary, LocatedSlots
  <2>2. \A g \in DOMAIN work' : work'[g] = "todo" /\ cursor'[g] = 0
    BY <1>1
  <2>3. \A g : FolderIs(st, g, "todo", 0)
    BY <1>4, <1>5 DEF FolderIs, Reached
  <2> QED
    BY <2>1, <2>2, <2>3 DEF FoldersAre
<1>7. \A g : InReach(g, 0, 0) /\ LinksBehind(links, g, 0)
  BY <1>5 DEF InReach, LinksBehind
<1>8. LinksRead(links)
  BY <1>2 DEF LinksRead
<1>9. PICK S, states, behind, read : S = links' /\ states = work' /\ behind = cursor' /\ read = position'
  OBVIOUS
<1>10. /\ Needed(planned.plan)' = N /\ FolderList' = FolderList /\ \A g : GroupOf(g)' = GroupOf(g)
       /\ FoldersAre(st, states, behind)' /\ LinksRead(S)'
       /\ \A g \in DOMAIN states : InReach(g, behind[g], read[g])' /\ LinksBehind(S, g, behind[g])'
  <2>1. \A g \in DOMAIN states : behind[g] = 0 /\ read[g] = 0
    BY <1>1, <1>9
  <2>2. FoldersAre(st, states, behind) /\ LinksRead(S) /\ \A g \in DOMAIN states : InReach(g, behind[g], read[g]) /\ LinksBehind(S, g, behind[g])
    BY <1>1, <1>6, <1>7, <1>8, <1>9, <2>1
  <2> QED
    BY <1>1, <1>3, <2>2, SevenZStays
<1>11. /\ FoldersAre(st, work, cursor)' /\ LinksRead(links)'
       /\ \A g \in DOMAIN work' : InReach(g, cursor[g], position[g])' /\ LinksBehind(links, g, cursor[g])'
  BY <1>9, <1>10 DEF FoldersAre, FolderIs, LinksRead, InReach, LinksBehind
<1>12. Known(tree, N, st)'
  BY <1>1, <1>3, KnownStays
<1>13. \A g \in DOMAIN work' : work'[g] = "todo" /\ cursor'[g] <= Len(GroupOf(g)')
  BY <1>1, <1>5, <1>10
<1>14. count' = Len(FolderList)' /\ done' = {}
  BY <1>1, <1>3, <1>10
<1> QED
  BY <1>1, <1>10, <1>11, <1>12, <1>13, <1>14 DEF SevenZLeft

(* A worker comes to an entry, begins a file, leaves it behind, sets a link *)
(* aside or gives up.                                                       *)
LEMMA FolderTurns ==
  ASSUME PlanInv, phase \notin {"plan", "err"}, NEW g \in 0 .. Len(FolderList) - 1, NEW st \in States, NEW k \in Nat,
         NEW state, state # "dead", FolderIs(st, g, state, k)
  PROVE  /\ FolderIs(st, g, "dead", k)
         /\ state \in {"todo", "entry"} => \A w \in {"entry", "done"} : FolderIs(st, g, w, k)
         /\ k < Len(GroupOf(g)) =>
              /\ GroupOf(g)[k + 1] \in Ordinary
              /\ \A w \in {"open", "partial"} : FolderIs(Turns(st, GroupOf(g)[k + 1], w), g, w, k)
              /\ planned.plan[GroupOf(g)[k + 1]].kind = "file" => FolderIs(Turns(st, GroupOf(g)[k + 1], "done"), g, "entry", k + 1)
              /\ planned.plan[GroupOf(g)[k + 1]].kind = "link" /\ state = "entry" => FolderIs(st, g, "entry", k + 1)
<1> DEFINE q == GroupOf(g)
<1>0. /\ Len(q) \in Nat /\ \A n \in 1 .. Len(q) : q[n] \in Ordinary
      /\ \A m, n \in 1 .. Len(q) : q[m] = q[n] => m = n
  <2>1. Len(q) \in Nat /\ \A n \in 1 .. Len(q) : q[n] \in Ordinary
    BY GroupFacts
  <2> QED
    BY <2>1, GroupsApart
<1>1. \A n \in 1 .. Len(q) : n # k + 1 => st[q[n]] = Reached(n, k, state, planned.plan[q[n]].kind)
  BY DEF FolderIs
<1>2. \A n \in 1 .. Len(q) : st[q[n]] = Reached(n, k, state, planned.plan[q[n]].kind)
  BY DEF FolderIs
<1>3. \A n, w, kind : n # k + 1 => Reached(n, k, w, kind) = Reached(n, k, state, kind)
  BY DEF Reached
<1>4. FolderIs(st, g, "dead", k)
  BY <1>1, <1>3 DEF FolderIs
<1>5. ASSUME state \in {"todo", "entry"}, NEW w \in {"entry", "done"} PROVE FolderIs(st, g, w, k)
  <2>1. \A n, kind : Reached(n, k, w, kind) = Reached(n, k, state, kind)
    BY <1>5 DEF Reached
  <2> QED
    BY <1>2, <2>1 DEF FolderIs
<1>6. ASSUME k < Len(q)
      PROVE  /\ q[k + 1] \in Ordinary
             /\ \A w \in {"open", "partial"} : FolderIs(Turns(st, q[k + 1], w), g, w, k)
             /\ planned.plan[q[k + 1]].kind = "file" => FolderIs(Turns(st, q[k + 1], "done"), g, "entry", k + 1)
             /\ planned.plan[q[k + 1]].kind = "link" /\ state = "entry" => FolderIs(st, g, "entry", k + 1)
  <2>s. PICK s, j : s = q[k + 1] /\ j = k + 1
    OBVIOUS
  <2>1. j \in 1 .. Len(q) /\ s \in Ordinary /\ j \in Nat /\ ~ (j <= k) /\ j <= j
    BY <1>0, <1>6, <2>s
  <2>2. \A w : /\ Turns(st, s, w)[s] = w
               /\ \A n \in 1 .. Len(q) : n # j => Turns(st, s, w)[q[n]] = st[q[n]]
    <3>1. \A n \in 1 .. Len(q) : n # j => q[n] \in Ordinary /\ q[n] # s
      BY <1>0, <2>1, <2>s
    <3> QED
      BY <2>1, <3>1 DEF Turns, States
  <2>3. \A n \in 1 .. Len(q) : n # j => ((n <= j <=> n <= k) /\ (n = j + 1 => ~ (n <= k)))
    BY <2>1, <2>s
  <2>4. ASSUME NEW w \in {"open", "partial"} PROVE FolderIs(Turns(st, s, w), g, w, k)
    <3>1. \A kind : Reached(j, k, w, kind) = w
      BY <2>1, <2>s DEF Reached
    <3>2. \A n \in 1 .. Len(q) : Turns(st, s, w)[q[n]] = Reached(n, k, w, planned.plan[q[n]].kind)
      <4> TAKE n \in 1 .. Len(q)
      <4>1. CASE n = j
        BY <2>2, <2>s, <3>1, <4>1
      <4>2. CASE n # j
        BY <1>1, <1>3, <2>2, <2>s, <4>2
      <4> QED
        BY <4>1, <4>2
    <3> QED
      BY <3>2 DEF FolderIs
  <2>5. \A n \in 1 .. Len(q) : \A kind : n # j => Reached(n, j, "entry", kind) = Reached(n, k, state, kind)
    BY <2>3, <2>s DEF Reached
  <2>6. ASSUME planned.plan[s].kind = "file" PROVE FolderIs(Turns(st, s, "done"), g, "entry", j)
    <3>1. Reached(j, j, "entry", "file") = "done"
      BY <2>1 DEF Reached
    <3>2. \A n \in 1 .. Len(q) : Turns(st, s, "done")[q[n]] = Reached(n, j, "entry", planned.plan[q[n]].kind)
      <4> TAKE n \in 1 .. Len(q)
      <4>1. CASE n = j
        BY <2>2, <2>6, <2>s, <3>1, <4>1
      <4>2. CASE n # j
        BY <1>1, <2>2, <2>5, <2>s, <4>2
      <4> QED
        BY <4>1, <4>2
    <3> QED
      BY <3>2 DEF FolderIs
  <2>7. ASSUME planned.plan[s].kind = "link", state = "entry" PROVE FolderIs(st, g, "entry", j)
    <3>1. Reached(j, j, "entry", "link") = "todo" /\ Reached(j, k, "entry", "link") = "todo"
      BY <2>1 DEF Reached
    <3>2. \A n \in 1 .. Len(q) : st[q[n]] = Reached(n, j, "entry", planned.plan[q[n]].kind)
      <4> TAKE n \in 1 .. Len(q)
      <4>1. CASE n = j
        BY <1>2, <2>7, <2>s, <3>1, <4>1
      <4>2. CASE n # j
        BY <1>2, <2>5, <4>2
      <4> QED
        BY <4>1, <4>2
    <3> QED
      BY <3>2 DEF FolderIs
  <2> QED
    BY <2>1, <2>4, <2>6, <2>7, <2>s
<1> QED
  BY <1>4, <1>5, <1>6

(* The other folders have nothing to do with that.                          *)
LEMMA FolderGoesOn ==
  ASSUME PlanInv, phase \notin {"plan", "err"}, NEW st, NEW states, NEW behind, FoldersAre(st, states, behind),
         DOMAIN states = 0 .. Len(FolderList) - 1, DOMAIN behind = DOMAIN states, NEW g \in DOMAIN states,
         NEW v, \A s \in Ordinary : (\A n \in 1 .. Len(GroupOf(g)) : GroupOf(g)[n] # s) => v[s] = st[s],
         NEW w, NEW k, FolderIs(v, g, w, k)
  PROVE  FoldersAre(v, [states EXCEPT ![g] = w], [behind EXCEPT ![g] = k])
<1>1. \A h : Len(GroupOf(h)) \in Nat /\ \A n \in 1 .. Len(GroupOf(h)) : GroupOf(h)[n] \in LocatedSlots /\ GroupOf(h)[n] \in Ordinary
  BY GroupFacts
<1>2. \A s \in Ordinary : s \notin LocatedSlots => v[s] = IF planned.plan[s].kind = "file" THEN "done" ELSE "todo"
  BY <1>1 DEF FoldersAre
<1>3. ASSUME NEW h \in DOMAIN states, h # g PROVE FolderIs(v, h, states[h], behind[h])
  <2>1. FolderIs(st, h, states[h], behind[h])
    BY DEF FoldersAre
  <2>2. \A n \in 1 .. Len(GroupOf(h)) : v[GroupOf(h)[n]] = st[GroupOf(h)[n]]
    <3> TAKE n \in 1 .. Len(GroupOf(h))
    <3>1. \A m \in 1 .. Len(GroupOf(g)) : GroupOf(g)[m] # GroupOf(h)[n]
      BY <1>3, GroupsApart
    <3> QED
      BY <1>1, <3>1
  <2> QED
    BY <2>1, <2>2 DEF FolderIs
<1> QED
  BY <1>2, <1>3 DEF FoldersAre

(* What a worker finds at the entry it comes to.                            *)
LEMMA FolderHere ==
  ASSUME IInv, SevenZLeft, format = "7z", phase = "folders", NEW g \in DOMAIN work,
         NEW k, k = cursor[g], k < Len(GroupOf(g)), NEW s, s = GroupOf(g)[k + 1]
  PROVE  /\ s \in Ordinary /\ s \in LocatedSlots /\ planned.plan[s].kind \in {"file", "link"} /\ k + 1 <= Len(GroupOf(g))
         /\ OfSevenZ!slot(g) = s /\ OfSevenZ!Target(g) = PathAt(s) /\ OfSevenZ!Discarded(g) = Offset(s)
         /\ OfSevenZ!EntryAt(OfSevenZ!Folder(s), OfSevenZ!Discarded(g)) = planned.plan[s].index /\ planned.plan[s].index # 0
         /\ InReach(g, k + 1, Offset(s) + 1)
         /\ planned.plan[s].kind = "file" => LinksBehind(links, g, k + 1)
         /\ \A l : l.slot = s => LinksBehind(links \cup {l}, g, k + 1)
<1> DEFINE q == GroupOf(g)
<1>0. PlanInv /\ phase \notin {"plan", "err"} /\ k \in Nat /\ position[g] \in Nat
  BY DEF IInv, SevenZInv
<1>1. /\ Len(q) \in Nat /\ \A n \in 1 .. Len(q) : q[n] \in LocatedSlots /\ Offset(q[n]) \in Nat
      /\ \A m, n \in 1 .. Len(q) : m < n => Offset(q[m]) + 1 <= Offset(q[n])
      /\ LocatedSlots \subseteq Ordinary
  BY <1>0, GroupFacts
<1>2. k + 1 \in 1 .. Len(q) /\ k + 1 <= Len(q) /\ k < k + 1
  BY <1>0, <1>1
<1>3. InReach(g, k, position[g]) /\ LinksBehind(links, g, k)
  BY DEF SevenZLeft
<1>4. s \in LocatedSlots /\ s \in Ordinary /\ position[g] <= Offset(s)
  BY <1>1, <1>2, <1>3 DEF InReach
<1>5. planned.plan[s].kind \in {"file", "link"}
  BY <1>0, <1>4, PlannedKinds DEF Ordinary
<1>6. OfSevenZ!slot(g) = s /\ OfSevenZ!Target(g) = PathAt(s)
  BY OfSevenZSlots DEF OfSevenZ!slot, OfSevenZ!Target, PathAt
<1>7. OfSevenZ!Discarded(g) = IF Offset(s) > position[g] THEN Offset(s) ELSE position[g]
  BY <1>6, OfSevenZSlots DEF OfSevenZ!Discarded, Offset
<1>8. /\ OfSevenZ!EntryAt(OfSevenZ!Folder(s), OfSevenZ!Discarded(g)) = planned.plan[s].index
      /\ planned.plan[s].index # 0 /\ OfSevenZ!Discarded(g) = Offset(s)
  BY <1>0, <1>4, <1>7, EntryIsRead
<1>9. InReach(g, k + 1, Offset(s) + 1)
  BY <1>1, <1>2 DEF InReach
<1>10. \A n \in 1 .. Len(q) : n <= k + 1 => n <= k \/ n = k + 1
  BY <1>0
<1>11. planned.plan[s].kind = "file" => LinksBehind(links, g, k + 1)
  BY <1>3, <1>10 DEF LinksBehind
<1>12. \A l : l.slot = s => LinksBehind(links \cup {l}, g, k + 1)
  BY SMTT(40), <1>3, <1>10 DEF LinksBehind
<1> QED
  BY <1>2, <1>4, <1>5, <1>6, <1>8, <1>9, <1>11, <1>12

(* A worker goes on in its folder.                                          *)
LEMMA FolderLeaves ==
  ASSUME IInv, SevenZLeft, format = "7z", phase = "folders",
         UNCHANGED <<archive, options, before, format, phase, planned, at, count>>,
         NEW g \in DOMAIN work, NEW N, N = Needed(planned.plan), NEW st, FoldersAre(st, work, cursor),
         NEW v, Known(tree', N, v),
         \A s \in Ordinary : (\A n \in 1 .. Len(GroupOf(g)) : GroupOf(g)[n] # s) => v[s] = st[s],
         NEW w, NEW k, NEW r, FolderIs(v, g, w, k),
         work' = [work EXCEPT ![g] = w] \/ (work' = work /\ w = work[g]), cursor' = [cursor EXCEPT ![g] = k], position' = [position EXCEPT ![g] = r],
         k <= Len(GroupOf(g)), w = "done" => k = Len(GroupOf(g)),
         w \in {"open", "partial"} => k < Len(GroupOf(g)) /\ planned.plan[GroupOf(g)[k + 1]].kind = "file",
         InReach(g, k, r), links \subseteq links', LinksRead(links'), LinksBehind(links', g, k),
         work[g] # "done", done' = done \/ (done' = done \cup {g} /\ w = "done")
  PROVE  SevenZLeft'
<1>0. /\ PlanInv /\ phase \notin {"plan", "err"} /\ DOMAIN work = 0 .. Len(FolderList) - 1
      /\ DOMAIN cursor = DOMAIN work /\ DOMAIN position = DOMAIN work
  BY DEF IInv, SevenZInv
<1>1. FoldersAre(v, work', cursor')
  <2>1. FoldersAre(v, [work EXCEPT ![g] = w], cursor')
    BY <1>0, FolderGoesOn
  <2>2. CASE work' = work /\ w = work[g]
    <3>1. DOMAIN [work EXCEPT ![g] = w] = DOMAIN work' /\ \A h \in DOMAIN work : [work EXCEPT ![g] = w][h] = work'[h]
      BY <2>2
    <3> QED
      BY <2>1, <3>1 DEF FoldersAre
  <2> QED
    BY <2>1, <2>2
<1>2. /\ DOMAIN work' = DOMAIN work /\ work'[g] = w /\ cursor'[g] = k /\ position'[g] = r
      /\ \A h \in DOMAIN work : h # g => work'[h] = work[h] /\ cursor'[h] = cursor[h] /\ position'[h] = position[h]
  BY <1>0
<1>3. /\ at = 0 /\ count = Len(FolderList)
      /\ \A h \in done : h \in DOMAIN work /\ work[h] = "done"
      /\ \A h \in DOMAIN work :
           /\ cursor[h] <= Len(GroupOf(h)) /\ (work[h] = "done" => cursor[h] = Len(GroupOf(h)))
           /\ work[h] \in {"open", "partial"} =>
                cursor[h] < Len(GroupOf(h)) /\ planned.plan[GroupOf(h)[cursor[h] + 1]].kind = "file"
           /\ InReach(h, cursor[h], position[h]) /\ LinksBehind(links, h, cursor[h])
  BY DEF SevenZLeft
<1>4. \A h \in done' : h \in DOMAIN work' /\ work'[h] = "done"
  <2>1. \A h \in done : h # g /\ h \in DOMAIN work
    BY <1>3
  <2> QED
    BY <1>2, <1>3, <2>1
<1>5. PICK S, states, behind, read : S = links' /\ states = work' /\ behind = cursor' /\ read = position'
  OBVIOUS
<1>6. ASSUME NEW h \in DOMAIN states
      PROVE  /\ behind[h] <= Len(GroupOf(h)) /\ (states[h] = "done" => behind[h] = Len(GroupOf(h)))
             /\ states[h] \in {"open", "partial"} =>
                  behind[h] < Len(GroupOf(h)) /\ planned.plan[GroupOf(h)[behind[h] + 1]].kind = "file"
             /\ InReach(h, behind[h], read[h]) /\ LinksBehind(S, h, behind[h])
  <2>1. CASE h = g
    BY <1>2, <1>5, <2>1
  <2>2. CASE h # g
    <3>1. h \in DOMAIN work /\ states[h] = work[h] /\ behind[h] = cursor[h] /\ read[h] = position[h]
      BY <1>2, <1>5, <2>2
    <3>2. LinksBehind(links, h, cursor[h]) => LinksBehind(S, h, cursor[h])
      BY <1>5 DEF LinksBehind
    <3> QED
      BY <1>3, <3>1, <3>2
  <2> QED
    BY <2>1, <2>2
<1>7. /\ Needed(planned.plan)' = N /\ FolderList' = FolderList /\ \A h : GroupOf(h)' = GroupOf(h)
      /\ FoldersAre(v, states, behind)' /\ LinksRead(S)'
      /\ \A h \in DOMAIN states : InReach(h, behind[h], read[h])' /\ LinksBehind(S, h, behind[h])'
  BY <1>1, <1>5, <1>6, SevenZStays
<1>8. /\ FoldersAre(v, work, cursor)' /\ LinksRead(links)'
      /\ \A h \in DOMAIN work' : InReach(h, cursor[h], position[h])' /\ LinksBehind(links, h, cursor[h])'
  BY <1>5, <1>7 DEF FoldersAre, FolderIs, LinksRead, InReach, LinksBehind
<1>9. Known(tree, N, v)'
  BY KnownStays
<1>10. \A h \in DOMAIN work' :
         /\ cursor'[h] <= Len(GroupOf(h)') /\ (work'[h] = "done" => cursor'[h] = Len(GroupOf(h)'))
         /\ work'[h] \in {"open", "partial"} =>
              cursor'[h] < Len(GroupOf(h)') /\ planned'.plan[GroupOf(h)'[cursor'[h] + 1]].kind = "file"
  BY <1>5, <1>6, <1>7
<1>11. at' = 0 /\ count' = Len(FolderList)' /\ phase' = "folders"
  BY <1>3, <1>7
<1> QED
  BY <1>4, <1>7, <1>8, <1>9, <1>10, <1>11 DEF SevenZLeft

(* The folders.                                                             *)
LEMMA SevenZFoldersLeave ==
  ASSUME IInv, IInv', PlanMoves, SevenZLeft, format = "7z", NEW g \in DOMAIN work,
         OfSevenZ!OpenFolder(g) \/ OfSevenZ!ReadLink(g) \/ OfSevenZ!CheckFile(g) \/ OfSevenZ!CreateFile(g)
           \/ OfSevenZ!FailFile(g) \/ OfSevenZ!CompleteFile(g) \/ OfSevenZ!CompleteFolder(g)
  PROVE  SevenZLeft'
<1> DEFINE q == GroupOf(g)
<1>0. /\ PlanInv /\ IsTree(tree) /\ phase = "folders" /\ phase \notin {"plan", "err"}
      /\ UNCHANGED <<archive, options, before, format, phase, planned, at, count>>
      /\ DOMAIN work = 0 .. Len(FolderList) - 1 /\ cursor \in [DOMAIN work -> Nat] /\ position \in [DOMAIN work -> Nat]
      /\ work[g] \in {"todo", "entry", "open", "partial"}
  <2>1. PlanInv /\ IsTree(tree) /\ UNCHANGED <<archive, options, before, format>>
    BY DEF IInv, TreeInv, PlanMoves
  <2>2. phase = "folders" /\ UNCHANGED <<phase, planned, at>> /\ work[g] \in {"todo", "entry", "open", "partial"}
    BY DEF OfSevenZ!OpenFolder, OfSevenZ!ReadLink, OfSevenZ!CheckFile, OfSevenZ!CreateFile, OfSevenZ!FailFile,
           OfSevenZ!CompleteFile, OfSevenZ!CompleteFolder, OfSevenZ!InPool
  <2>3. count' = count
    BY DEF OfSevenZ!OpenFolder, OfSevenZ!ReadLink, OfSevenZ!CheckFile, OfSevenZ!CreateFile, OfSevenZ!FailFile,
           OfSevenZ!CompleteFile, OfSevenZ!CompleteFolder, OfSevenZ!pool, OfSevenZ!FolderFails, OfSevenZ!Pool!Fail, OfSevenZ!Pool!Complete
  <2> QED
    BY <2>1, <2>2, <2>3 DEF IInv, SevenZInv
<1>k. PICK k, s, p, r, i : k = cursor[g] /\ s = q[k + 1] /\ p = PathAt(s) /\ r = position[g] /\ i = planned.plan[s].index
  OBVIOUS
<1>1. PICK N, st : N = Needed(planned.plan) /\ Known(tree, N, st) /\ FoldersAre(st, work, cursor) /\ st \in States
  BY <1>0 DEF SevenZLeft, Known
<1>2. /\ k \in Nat /\ Len(q) \in Nat /\ k <= Len(q)
      /\ work[g] \in {"open", "partial"} => k < Len(q) /\ planned.plan[s].kind = "file"
      /\ InReach(g, k, r) /\ LinksBehind(links, g, k) /\ LinksRead(links) /\ FolderIs(st, g, work[g], k)
  <2>1. Len(q) \in Nat
    BY <1>0, GroupFacts
  <2>2. FolderIs(st, g, work[g], k)
    BY <1>1, <1>k DEF FoldersAre
  <2> QED
    BY <1>0, <1>k, <2>1, <2>2 DEF SevenZLeft
<1>3. cursor = [cursor EXCEPT ![g] = k] /\ position = [position EXCEPT ![g] = r]
  BY SMTT(40), <1>0, <1>k
<1>4. /\ FolderIs(st, g, "dead", k)
      /\ work[g] \in {"todo", "entry"} => \A w \in {"entry", "done"} : FolderIs(st, g, w, k)
      /\ k < Len(q) =>
           /\ \A w \in {"open", "partial"} : FolderIs(Turns(st, s, w), g, w, k)
           /\ planned.plan[s].kind = "file" => FolderIs(Turns(st, s, "done"), g, "entry", k + 1)
           /\ planned.plan[s].kind = "link" /\ work[g] = "entry" => FolderIs(st, g, "entry", k + 1)
  <2>1. work[g] # "dead" /\ g \in 0 .. Len(FolderList) - 1
    BY <1>0
  <2> QED
    BY <1>0, <1>1, <1>2, <1>k, <2>1, FolderTurns
<1>5. ASSUME k < Len(q)
      PROVE  /\ s \in Ordinary /\ s \in LocatedSlots /\ planned.plan[s].kind \in {"file", "link"} /\ k + 1 <= Len(q) /\ k + 1 \in Nat
             /\ OfSevenZ!slot(g) = s /\ OfSevenZ!Target(g) = p /\ OfSevenZ!Discarded(g) = Offset(s)
             /\ OfSevenZ!EntryAt(OfSevenZ!Folder(s), OfSevenZ!Discarded(g)) = i /\ i # 0
             /\ InReach(g, k + 1, Offset(s) + 1)
             /\ planned.plan[s].kind = "file" => LinksBehind(links, g, k + 1)
             /\ \A l : l.slot = s => LinksBehind(links \cup {l}, g, k + 1)
             /\ work[g] \in {"todo", "entry"} => st[s] = "todo"
             /\ work[g] \in {"open", "partial"} => st[s] = work[g]
             /\ cursor[g] + 1 = k + 1
  <2>1. k + 1 \in 1 .. Len(q) /\ ~ (k + 1 <= k) /\ work[g] # "dead"
    BY <1>0, <1>2, <1>5
  <2>2. st[s] = Reached(k + 1, k, work[g], planned.plan[s].kind)
    BY <1>2, <1>k, <2>1 DEF FolderIs
  <2>3. (work[g] \in {"todo", "entry"} => st[s] = "todo") /\ (work[g] \in {"open", "partial"} => st[s] = work[g])
    BY <2>1, <2>2 DEF Reached
  <2> QED
    BY <1>0, <1>2, <1>5, <1>k, <2>1, <2>3, FolderHere
<1>7. ASSUME k < Len(q), NEW w
      PROVE  \A t \in Ordinary : (\A n \in 1 .. Len(q) : q[n] # t) => Turns(st, s, w)[t] = st[t]
  <2>1. k + 1 \in 1 .. Len(q)
    BY <1>2, <1>7
  <2>2. \A t \in Ordinary : (\A n \in 1 .. Len(q) : q[n] # t) => t # s
    BY <1>k, <2>1
  <2> QED
    BY <1>1, <2>2 DEF Turns, States
<1> HIDE DEF q
<1>8. ASSUME OfSevenZ!FolderFails(g), tree' = tree PROVE SevenZLeft'
  <2>1. work' = [work EXCEPT ![g] = "dead"] /\ UNCHANGED <<cursor, position, links, done>>
    BY <1>8 DEF OfSevenZ!FolderFails, OfSevenZ!Becomes, OfSevenZ!Pool!Fail
  <2>2. cursor' = [cursor EXCEPT ![g] = k] /\ position' = [position EXCEPT ![g] = r]
    BY <1>3, <2>1
  <2>3. links \subseteq links' /\ LinksRead(links') /\ LinksBehind(links', g, k)
    BY <1>2, <2>1
  <2> QED
    BY <1>0, <1>1, <1>2, <1>4, <1>8, <2>1, <2>2, <2>3, FolderLeaves DEF q
<1>9. CASE OfSevenZ!OpenFolder(g)
  <2>1. /\ work[g] = "todo" /\ tree' = tree
        /\ \/ work' = [work EXCEPT ![g] = "entry"] /\ UNCHANGED <<cursor, position, links, done>>
           \/ OfSevenZ!FolderFails(g)
    BY <1>9 DEF OfSevenZ!OpenFolder, OfSevenZ!InPool, OfSevenZ!Becomes, OfSevenZ!pool
  <2>2. ASSUME work' = [work EXCEPT ![g] = "entry"], UNCHANGED <<cursor, position, links, done>> PROVE SevenZLeft'
    <3>1. cursor' = [cursor EXCEPT ![g] = k] /\ position' = [position EXCEPT ![g] = r] /\ FolderIs(st, g, "entry", k)
      BY <1>3, <1>4, <2>1, <2>2
    <3>2. links \subseteq links' /\ LinksRead(links') /\ LinksBehind(links', g, k)
      BY <1>2, <2>2
    <3> QED
      BY <1>0, <1>1, <1>2, <2>1, <2>2, <3>1, <3>2, FolderLeaves DEF q
  <2> QED
    BY <1>8, <2>1, <2>2
<1>10. CASE OfSevenZ!ReadLink(g)
  <2>1. /\ work[g] = "entry" /\ tree' = tree /\ k < Len(q)
    BY <1>10, <1>k, OfSevenZSlots DEF OfSevenZ!ReadLink, OfSevenZ!InPool, OfSevenZ!HasNext, q
  <2>2. planned.plan[s].kind = "link"
    BY <1>10, <1>5, <2>1, OfSevenZSlots DEF OfSevenZ!ReadLink
  <2>3. \/ /\ links' = links \cup {[slot |-> s, by |-> i]} /\ UNCHANGED <<work, done>>
           /\ position' = [position EXCEPT ![g] = Offset(s) + 1] /\ cursor' = [cursor EXCEPT ![g] = k + 1]
        \/ OfSevenZ!FolderFails(g)
    <3>1. cursor' = [cursor EXCEPT ![g] = @ + 1] => cursor' = [cursor EXCEPT ![g] = k + 1]
      BY <1>k
    <3> QED
      BY <1>10, <1>5, <2>1, <3>1 DEF OfSevenZ!ReadLink, OfSevenZ!NextEntry, OfSevenZ!pool
  <2>4. ASSUME links' = links \cup {[slot |-> s, by |-> i]}, UNCHANGED <<work, done>>,
               position' = [position EXCEPT ![g] = Offset(s) + 1], cursor' = [cursor EXCEPT ![g] = k + 1]
        PROVE  SevenZLeft'
    <3>1. [slot |-> s, by |-> i].slot = s /\ [slot |-> s, by |-> i].by = i
      OBVIOUS
    <3>2. links \subseteq links' /\ LinksRead(links') /\ LinksBehind(links', g, k + 1)
      <4>1. LinksRead(links')
        BY <1>2, <1>5, <1>k, <2>1, <2>2, <2>4, <3>1 DEF LinksRead
      <4>2. LinksBehind(links', g, k + 1)
        BY <1>5, <2>1, <2>4, <3>1
      <4> QED
        BY SMTT(40), <2>4, <4>1, <4>2
    <3>3. work' = work /\ work[g] = "entry" /\ tree' = tree
      BY <2>1, <2>4
    <3>4. FolderIs(st, g, "entry", k + 1) /\ InReach(g, k + 1, Offset(s) + 1) /\ k + 1 <= Len(q)
      BY <1>4, <1>5, <2>1, <2>2
    <3> QED
      BY <1>0, <1>1, <2>1, <2>4, <3>2, <3>3, <3>4, FolderLeaves DEF q
  <2> QED
    BY <1>8, <2>1, <2>3, <2>4
<1>11. CASE OfSevenZ!CheckFile(g)
  <2>1. work[g] = "entry" /\ k < Len(q)
    BY <1>11, <1>k, OfSevenZSlots DEF OfSevenZ!CheckFile, OfSevenZ!InPool, OfSevenZ!HasNext, q
  <2>2. planned.plan[s].kind = "file"
    BY <1>11, <1>5, <2>1, OfSevenZSlots DEF OfSevenZ!CheckFile
  <2>3. \/ /\ ~ Taken(tree, p) \/ options.overwrite = "always"
           /\ tree' = Cleared(tree, p) /\ work' = [work EXCEPT ![g] = "open"] /\ UNCHANGED <<cursor, position, links, done>>
        \/ /\ Taken(tree, p) /\ options.overwrite = "never" /\ UNCHANGED <<tree, work, links, done>>
           /\ position' = [position EXCEPT ![g] = Offset(s) + 1] /\ cursor' = [cursor EXCEPT ![g] = k + 1]
        \/ OfSevenZ!FolderFails(g) /\ tree' = tree
    <3>1. cursor' = [cursor EXCEPT ![g] = @ + 1] => cursor' = [cursor EXCEPT ![g] = k + 1]
      BY <1>k
    <3> QED
      BY <1>11, <1>5, <2>1, <3>1, OfSevenZTree DEF OfSevenZ!CheckFile, OfSevenZ!Becomes, OfSevenZ!NextEntry, OfSevenZ!pool
  <2>4. ASSUME ~ Taken(tree, p) \/ options.overwrite = "always",
               tree' = Cleared(tree, p), work' = [work EXCEPT ![g] = "open"], UNCHANGED <<cursor, position, links, done>>
        PROVE  SevenZLeft'
    <3>1. Known(tree', N, Turns(st, s, "open"))
      BY <1>0, <1>1, <1>5, <1>k, <2>1, <2>4, LookedAt
    <3>2. cursor' = [cursor EXCEPT ![g] = k] /\ position' = [position EXCEPT ![g] = r] /\ FolderIs(Turns(st, s, "open"), g, "open", k)
      BY <1>3, <1>4, <2>1, <2>4
    <3>3. links \subseteq links' /\ LinksRead(links') /\ LinksBehind(links', g, k)
      BY <1>2, <2>4
    <3>4. planned.plan[q[k + 1]].kind = "file"
      BY <1>k, <2>2 DEF q
    <3>5. \A t \in Ordinary : (\A n \in 1 .. Len(q) : q[n] # t) => Turns(st, s, "open")[t] = st[t]
      BY <1>7, <2>1
    <3> QED
      BY ZenonT(40), <1>0, <1>1, <1>2, <2>1, <2>4, <3>1, <3>2, <3>3, <3>4, <3>5, FolderLeaves DEF q
  <2>5. ASSUME Taken(tree, p), options.overwrite = "never", UNCHANGED <<tree, work, links, done>>,
               position' = [position EXCEPT ![g] = Offset(s) + 1], cursor' = [cursor EXCEPT ![g] = k + 1]
        PROVE  SevenZLeft'
    <3>1. Known(tree', N, Turns(st, s, "done"))
      BY <1>0, <1>1, <1>5, <1>k, <2>1, <2>5, PassedOver
    <3>2. work' = work /\ work[g] = "entry"
      BY <2>1, <2>5
    <3>3. links \subseteq links' /\ LinksRead(links') /\ LinksBehind(links', g, k + 1)
      BY <1>2, <1>5, <2>1, <2>2, <2>5
    <3>4. FolderIs(Turns(st, s, "done"), g, "entry", k + 1) /\ InReach(g, k + 1, Offset(s) + 1) /\ k + 1 <= Len(q)
      BY <1>4, <1>5, <2>1, <2>2
    <3>5. \A t \in Ordinary : (\A n \in 1 .. Len(q) : q[n] # t) => Turns(st, s, "done")[t] = st[t]
      BY <1>7, <2>1
    <3> QED
      BY <1>0, <1>1, <2>1, <2>5, <3>1, <3>2, <3>3, <3>4, <3>5, FolderLeaves DEF q
  <2> QED
    BY <1>8, <2>3, <2>4, <2>5
<1>12. CASE OfSevenZ!CreateFile(g)
  <2>1. work[g] = "open"
    BY <1>12 DEF OfSevenZ!CreateFile, OfSevenZ!InPool
  <2>2. k < Len(q) /\ planned.plan[s].kind = "file" /\ st[s] = "open"
    BY <1>2, <1>5, <2>1
  <2>3. \/ /\ tree[p].kind # "dir" /\ work' = [work EXCEPT ![g] = "partial"] /\ UNCHANGED <<cursor, position, links, done>>
           /\ tree' = IF tree[p].kind = "link" THEN tree
                      ELSE [tree EXCEPT ![p] = [kind |-> "partial", by |-> i]]
        \/ OfSevenZ!FolderFails(g) /\ tree' = tree
    <3>1. OfSevenZ!Creatable(tree, p) => tree[p].kind # "dir"
      BY CreatableFacts
    <3> QED
      BY <1>12, <1>5, <2>2, <3>1 DEF OfSevenZ!CreateFile, OfSevenZ!Becomes, OfSevenZ!pool
  <2>4. ASSUME tree[p].kind # "dir", work' = [work EXCEPT ![g] = "partial"], UNCHANGED <<cursor, position, links, done>>,
               tree' = IF tree[p].kind = "link" THEN tree
                       ELSE [tree EXCEPT ![p] = [kind |-> "partial", by |-> i]]
        PROVE  SevenZLeft'
    <3>1. Known(tree', N, Turns(st, s, "partial"))
      BY <1>0, <1>1, <1>5, <1>k, <2>2, <2>4, IsCreated
    <3>2. cursor' = [cursor EXCEPT ![g] = k] /\ position' = [position EXCEPT ![g] = r] /\ FolderIs(Turns(st, s, "partial"), g, "partial", k)
      BY <1>3, <1>4, <2>2, <2>4
    <3>3. links \subseteq links' /\ LinksRead(links') /\ LinksBehind(links', g, k)
      BY <1>2, <2>4
    <3>4. planned.plan[q[k + 1]].kind = "file"
      BY <1>k, <2>2 DEF q
    <3>5. \A t \in Ordinary : (\A n \in 1 .. Len(q) : q[n] # t) => Turns(st, s, "partial")[t] = st[t]
      BY <1>7, <2>2
    <3>6. work' = [work EXCEPT ![g] = "partial"] /\ done' = done /\ k <= Len(q) /\ k < Len(q) /\ InReach(g, k, r) /\ work[g] # "done"
      BY <1>2, <2>1, <2>2, <2>4
    <3> QED
      BY ONLY <1>0, <1>1, <3>1, <3>2, <3>3, <3>4, <3>5, <3>6, IInv, SevenZLeft, format = "7z", g \in DOMAIN work, FolderLeaves DEF q
  <2> QED
    BY <1>8, <2>3, <2>4
<1>13. CASE OfSevenZ!FailFile(g)
  <2>1. OfSevenZ!FolderFails(g) /\ tree' = tree
    BY <1>13 DEF OfSevenZ!FailFile
  <2> QED
    BY <1>8, <2>1
<1>14. CASE OfSevenZ!CompleteFile(g)
  <2>1. work[g] = "partial"
    BY <1>14 DEF OfSevenZ!CompleteFile, OfSevenZ!InPool
  <2>2. k < Len(q) /\ planned.plan[s].kind = "file" /\ st[s] = "partial"
    BY <1>2, <1>5, <2>1
  <2>3. /\ tree' = IF tree[p].kind = "partial" THEN [tree EXCEPT ![p].kind = "file"] ELSE tree
        /\ work' = [work EXCEPT ![g] = "entry"] /\ UNCHANGED <<links, done>>
        /\ position' = [position EXCEPT ![g] = Offset(s) + 1] /\ cursor' = [cursor EXCEPT ![g] = k + 1]
    <3>1. cursor' = [cursor EXCEPT ![g] = @ + 1] => cursor' = [cursor EXCEPT ![g] = k + 1]
      BY <1>k
    <3> QED
      BY <1>14, <1>5, <2>2, <3>1 DEF OfSevenZ!CompleteFile, OfSevenZ!Becomes, OfSevenZ!NextEntry, OfSevenZ!pool
  <2>4. Known(tree', N, Turns(st, s, "done"))
    BY ZenonT(40), <1>0, <1>1, <1>5, <1>k, <2>2, <2>3, IsFinished
  <2>5. links \subseteq links' /\ LinksRead(links') /\ LinksBehind(links', g, k + 1)
    BY <1>2, <1>5, <2>2, <2>3
  <2>6. FolderIs(Turns(st, s, "done"), g, "entry", k + 1) /\ InReach(g, k + 1, Offset(s) + 1) /\ k + 1 <= Len(q)
    BY <1>4, <1>5, <2>2
  <2> QED
    BY ZenonT(40), <1>0, <1>1, <1>7, <2>1, <2>2, <2>3, <2>4, <2>5, <2>6, FolderLeaves DEF q
<1>15. CASE OfSevenZ!CompleteFolder(g)
  <2>1. /\ work[g] = "entry" /\ ~ (k < Len(q)) /\ tree' = tree /\ UNCHANGED <<cursor, position, links>>
        /\ work' = [work EXCEPT ![g] = "done"] /\ done' = done \cup {g}
    BY <1>15, <1>k, OfSevenZSlots DEF OfSevenZ!CompleteFolder, OfSevenZ!InPool, OfSevenZ!HasNext, OfSevenZ!Becomes, OfSevenZ!Pool!Complete, q
  <2>2. cursor' = [cursor EXCEPT ![g] = k] /\ position' = [position EXCEPT ![g] = r] /\ FolderIs(st, g, "done", k) /\ k = Len(q)
    BY <1>2, <1>3, <1>4, <2>1
  <2>3. links \subseteq links' /\ LinksRead(links') /\ LinksBehind(links', g, k)
    BY <1>2, <2>1
  <2> QED
    BY <1>0, <1>1, <1>2, <2>1, <2>2, <2>3, FolderLeaves DEF q
<1> QED
  BY <1>9, <1>10, <1>11, <1>12, <1>13, <1>14, <1>15

(* When for_each returns without a failure each link that has bytes was set *)
(* aside, and nothing else is left to be made.                              *)
LEMMA SevenZFoldersReturn ==
  ASSUME IInv, IInv', PlanMoves, SevenZLeft, format = "7z", OfSevenZ!FoldersReturn
  PROVE  SevenZLeft'
<1>0. /\ PlanInv /\ phase = "folders" /\ phase \notin {"plan", "err"} /\ DOMAIN work = 0 .. Len(FolderList) - 1
      /\ UNCHANGED <<archive, options, before, format, planned, tree, at, links>>
  BY DEF IInv, SevenZInv, OfSevenZ!FoldersReturn, OfSevenZ!folders, PlanMoves
<1>1. CASE phase' = "err"
  BY <1>1 DEF SevenZLeft
<1>2. CASE phase' # "err"
  <2>1. done = {i \in 0 .. MaxEntries : i < count} /\ phase' = "links"
    BY <1>2 DEF OfSevenZ!FoldersReturn, OfSevenZ!Pool!ReturnOk, OfSevenZ!Pool!Index
  <2>2. PICK N, st : N = Needed(planned.plan) /\ Known(tree, N, st) /\ FoldersAre(st, work, cursor)
    BY <1>0 DEF SevenZLeft
  <2>3. /\ count = Len(FolderList) /\ (\A g \in done : work[g] = "done") /\ at = 0 /\ LinksRead(links)
        /\ \A g \in DOMAIN work : (work[g] = "done" => cursor[g] = Len(GroupOf(g))) /\ LinksBehind(links, g, cursor[g])
    BY <1>0 DEF SevenZLeft
  <2>4. Len(FolderList) \in Nat /\ Len(FolderList) <= MaxEntries /\ MaxEntries \in Nat
    BY <1>0, GroupFacts, BoundsAssumption
  <2>5. \A g \in DOMAIN work : g \in done
    BY <1>0, <2>1, <2>3, <2>4
  <2>6. \A g \in DOMAIN work : work[g] = "done" /\ FolderIs(st, g, "done", Len(GroupOf(g))) /\ LinksBehind(links, g, Len(GroupOf(g)))
    <3> TAKE g \in DOMAIN work
    <3>1. work[g] = "done" /\ cursor[g] = Len(GroupOf(g))
      BY <2>3, <2>5
    <3>2. FolderIs(st, g, work[g], cursor[g]) /\ LinksBehind(links, g, cursor[g])
      BY <2>2, <2>3 DEF FoldersAre
    <3> QED
      BY <3>1, <3>2
  <2>7. \A s \in LocatedSlots :
          /\ st[s] = IF planned.plan[s].kind = "file" THEN "done" ELSE "todo"
          /\ planned.plan[s].kind = "link" => \E l \in links : l.slot = s
    <3> TAKE s \in LocatedSlots
    <3>1. PICK g \in 0 .. Len(FolderList) - 1 : \E n \in 1 .. Len(GroupOf(g)) : GroupOf(g)[n] = s
      BY <1>0, GroupFacts
    <3>2. PICK n \in 1 .. Len(GroupOf(g)) : GroupOf(g)[n] = s
      BY <3>1
    <3>3. n <= Len(GroupOf(g))
      BY <1>0, GroupFacts
    <3>4. FolderIs(st, g, "done", Len(GroupOf(g))) /\ LinksBehind(links, g, Len(GroupOf(g)))
      BY <1>0, <2>6
    <3> QED
      BY <3>2, <3>3, <3>4 DEF FolderIs, LinksBehind, Reached
  <2>8. LinksTaken(st, 0)
    <3>1. ASSUME NEW s \in Ordinary, \A l \in links : l.slot # s PROVE st[s] = "done" \/ (st[s] = "todo" /\ ~ Makes(s))
      <4>1. s \in DOMAIN planned.plan /\ planned.plan[s].kind \in {"file", "link"}
        BY <1>0, PlannedKinds DEF Ordinary
      <4>2. CASE s \in LocatedSlots
        BY <2>7, <3>1, <4>1, <4>2
      <4>3. CASE s \notin LocatedSlots
        <5>1. st[s] = IF planned.plan[s].kind = "file" THEN "done" ELSE "todo"
          BY <2>2, <4>3 DEF FoldersAre
        <5>2. archive[planned.plan[s].index].folder = 0
          BY <4>1, <4>3 DEF LocatedSlots, FolderOf
        <5> QED
          BY <4>1, <5>1, <5>2 DEF Makes
      <4> QED
        BY <4>2, <4>3
    <3>2. ASSUME NEW m \in 1 .. Cardinality(links) PROVE st[LinkList[m].slot] = IF m <= 0 THEN "done" ELSE "todo"
      <4>1. LinkList[m] \in links /\ ~ (m <= 0)
        BY LinkListFacts
      <4>2. LinkList[m].slot \in LocatedSlots /\ planned.plan[LinkList[m].slot].kind = "link"
        BY <2>3, <4>1 DEF LinksRead
      <4> QED
        BY <2>7, <4>1, <4>2
    <3> QED
      BY <3>1, <3>2 DEF LinksTaken
  <2>9. PICK n : n = 0
    OBVIOUS
  <2>10. Needed(planned.plan)' = N /\ LinksTaken(st, n)' /\ LinksRead(links)' /\ Known(tree, N, st)'
    <3>1. \A S : LinksRead(S)' <=> LinksRead(S)
      BY <1>0, SevenZStays
    <3>2. PICK S : S = links
      OBVIOUS
    <3>3. LinksRead(S)'
      BY <2>3, <3>1, <3>2
    <3>4. LinksRead(links)'
      BY <1>0, <3>2, <3>3 DEF LinksRead
    <3> QED
      BY <1>0, <2>2, <2>8, <2>9, <3>4, SevenZStays, KnownStays
  <2>11. LinksTaken(st, at)' /\ at' = 0
    <3>1. at' = n
      BY <1>0, <2>3, <2>9
    <3> QED
      BY <2>9, <2>10, <3>1 DEF LinksTaken
  <2>12. at' <= Cardinality(links)'
    <3>1. Cardinality(links) \in Nat
      BY LinkListFacts
    <3> QED
      BY <1>0, <2>11, <3>1
  <2> QED
    BY <2>1, <2>10, <2>11, <2>12 DEF SevenZLeft
<1> QED
  BY <1>1, <1>2

(* The links.                                                               *)
LEMMA SevenZLinksLeave ==
  ASSUME IInv, IInv', PlanMoves, SevenZLeft, format = "7z", OfSevenZ!MakeLink \/ OfSevenZ!LinksEnd
  PROVE  SevenZLeft'
<1>0. /\ PlanInv /\ IsTree(tree) /\ phase = "links" /\ at \in Nat
      /\ UNCHANGED <<archive, options, before, format, planned, links>>
  BY DEF IInv, TreeInv, SevenZInv, OfSevenZ!MakeLink, OfSevenZ!LinksEnd, OfSevenZ!InLoop, OfSevenZ!LoopEnds, OfSevenZ!folders, PlanMoves
<1>1. PICK N, st : N = Needed(planned.plan) /\ Known(tree, N, st) /\ LinksTaken(st, at)
  BY <1>0 DEF SevenZLeft
<1>2. at <= Cardinality(links) /\ LinksRead(links) /\ Cardinality(links) \in Nat
  BY <1>0, LinkListFacts DEF SevenZLeft
<1>3. Needed(planned.plan)' = N
  BY <1>0, <1>1, SevenZStays
<1>4. CASE phase' = "err"
  BY <1>4 DEF SevenZLeft
<1>5. CASE OfSevenZ!LinksEnd
  <2>1. at = Cardinality(links) /\ phase' = "deletions" /\ at' = 0 /\ tree' = tree
    BY SMTT(40), <1>5, OfSevenZSlots DEF OfSevenZ!LinksEnd, OfSevenZ!LoopEnds
  <2>2. \A r \in Ordinary : st[r] = "done" \/ (st[r] = "todo" /\ ~ Makes(r))
    <3> TAKE r \in Ordinary
    <3>1. CASE \A l \in links : l.slot # r
      BY <1>1, <3>1 DEF LinksTaken
    <3>2. CASE \E l \in links : l.slot = r
      <4>1. PICK m \in 1 .. Cardinality(links) : LinkList[m].slot = r
        BY <3>2, LinkListFacts
      <4>2. m <= at
        BY <1>2, <2>1
      <4> QED
        BY <1>1, <4>1, <4>2 DEF LinksTaken
    <3> QED
      BY <3>1, <3>2
  <2>3. PICK items, E : items = ItemsOf("dir") /\ E = AntiPaths
    OBVIOUS
  <2>4. Sealing(tree, N, {}, items, 0)
    <3>1. Known(tree, N, [s \in Ordinary |-> "done"])
      BY <1>1, <2>2, NothingElseIsMade
    <3> QED
      BY <1>0, <3>1, SealingBegins
  <2>5. Sealing(tree', N, E, items, 0)
    BY <2>1, <2>4 DEF Sealing
  <2>6. Sealing(tree, N, E, items, 0)'
    BY <1>0, <2>5, SealingStays
  <2>7. items = ItemsOf("dir")' /\ E = AntiPaths'
    BY <1>0, <2>3, SealingStays, SevenZStays
  <2>8. Sealing(tree, Needed(planned.plan), AntiPaths, ItemsOf("dir"), 0)'
    BY <1>3, <2>6, <2>7
  <2> QED
    BY <2>1, <2>8 DEF SevenZLeft
<1>6. CASE OfSevenZ!MakeLink /\ phase' # "err"
  <2>1. at < Cardinality(links) /\ at' = at + 1 /\ phase' = phase
    BY SMTT(40), <1>0, <1>6, OfSevenZSlots DEF OfSevenZ!MakeLink, OfSevenZ!InLoop, OfSevenZ!Onward, OfSevenZ!Stopped
  <2>2. PICK n, l, s, p, i : n = at + 1 /\ l = LinkList[n] /\ s = l.slot /\ p = PathAt(s) /\ i = planned.plan[s].index
    OBVIOUS
  <2>3. n \in 1 .. Cardinality(links) /\ ~ (n <= at) /\ n <= n
    BY <1>0, <1>2, <2>1, <2>2
  <2>4. l \in links /\ s \in LocatedSlots /\ planned.plan[s].kind = "link" /\ l.by = i
    BY <1>2, <2>2, <2>3, LinkListFacts DEF LinksRead
  <2>5. s \in Ordinary /\ st[s] = "todo" /\ archive[i].folder # 0
    <3>1. s \in Ordinary /\ archive[i].folder # 0
      BY <2>2, <2>4 DEF LocatedSlots, Ordinary, FolderOf
    <3>2. st[s] = "todo"
      BY <1>1, <2>2, <2>3 DEF LinksTaken
    <3> QED
      BY SMTT(40), <3>1, <3>2
  <2>6. OfSevenZ!link.path = p /\ OfSevenZ!escapes = archive[i].escapes /\ OfSevenZ!LinkOrder[at + 1].by = i
    BY <2>2, <2>4, OfSevenZSlots DEF OfSevenZ!link, OfSevenZ!escapes, PathAt
  <2>7. \/ /\ options.symlinks /\ ~ archive[i].escapes
           /\ ~ Taken(tree, p) \/ options.overwrite = "always"
           /\ OfSevenZ!Creatable(Cleared(tree, p), p)
           /\ tree' = [tree EXCEPT ![p] = [kind |-> "link", by |-> i]]
        \/ Taken(tree, p) /\ options.overwrite = "never" /\ tree' = tree
        \/ (~ options.symlinks \/ archive[i].escapes) /\ tree' = tree
    BY <1>6, <2>6, OfSevenZTree DEF OfSevenZ!MakeLink, OfSevenZ!Stopped
  <2>8. Known(tree', N, Turns(st, s, "done"))
    <3>1. CASE /\ options.symlinks /\ ~ archive[i].escapes
               /\ ~ Taken(tree, p) \/ options.overwrite = "always"
               /\ OfSevenZ!Creatable(Cleared(tree, p), p)
               /\ tree' = [tree EXCEPT ![p] = [kind |-> "link", by |-> i]]
      <4>1. Makes(s) /\ Cleared(tree, p)[p].kind # "dir"
        BY <2>2, <2>4, <2>5, <3>1, CreatableFacts DEF Makes
      <4>2. Known([tree EXCEPT ![p] = [kind |-> planned.plan[s].kind, by |-> planned.plan[s].index]], N, Turns(st, s, "done"))
        BY <1>0, <1>1, <2>2, <2>5, <3>1, <4>1, MadeAtOnce
      <4> QED
        BY <2>2, <2>4, <3>1, <4>2
    <3>2. CASE Taken(tree, p) /\ options.overwrite = "never" /\ tree' = tree
      BY <1>0, <1>1, <2>2, <2>5, <3>2, PassedOver
    <3>3. CASE (~ options.symlinks \/ archive[i].escapes) /\ tree' = tree
      <4>1. ~ Makes(s)
        BY <2>2, <2>4, <3>3 DEF Makes
      <4> QED
        BY <1>0, <1>1, <2>5, <3>3, <4>1, LeftOut
    <3> QED
      BY SMTT(40), <2>7, <3>1, <3>2, <3>3
  <2>9. PICK v : v = Turns(st, s, "done")
    OBVIOUS
  <2>10. Known(tree, N, v)'
    BY <1>0, <2>8, <2>9, KnownStays
  <2>11. LinksTaken(v, n)
    <3>1. v[s] = "done" /\ \A r \in Ordinary : r # s => v[r] = st[r]
      BY <1>1, <2>5, <2>9 DEF Turns, Known, States
    <3>2. ASSUME NEW r \in Ordinary, \A k \in links : k.slot # r PROVE v[r] = "done" \/ (v[r] = "todo" /\ ~ Makes(r))
      BY <1>1, <3>1, <3>2 DEF LinksTaken
    <3>3. ASSUME NEW m \in 1 .. Cardinality(links) PROVE v[LinkList[m].slot] = IF m <= n THEN "done" ELSE "todo"
      <4>1. LinkList[m].slot \in Ordinary /\ (LinkList[m].slot = s => m = n)
        <5>1. LinkList[m] \in links
          BY LinkListFacts
        <5>2. LinkList[m].slot \in Ordinary
          BY <1>2, <5>1 DEF LinksRead, LocatedSlots, Ordinary
        <5> QED
          BY <2>2, <2>3, <5>2, LinkListFacts
      <4>2. st[LinkList[m].slot] = IF m <= at THEN "done" ELSE "todo"
        BY <1>1 DEF LinksTaken
      <4>3. m = n => LinkList[m].slot = s
        BY <2>2
      <4>4. m # n => (m <= n <=> m <= at)
        BY <1>0, <1>2, <2>2
      <4>6. CASE m = n
        BY <2>3, <3>1, <4>3, <4>6
      <4>7. CASE m # n
        BY <3>1, <4>1, <4>2, <4>4, <4>7
      <4> QED
        BY <4>6, <4>7
    <3> QED
      BY <3>2, <3>3 DEF LinksTaken
  <2>12. LinksTaken(v, n)' /\ LinksRead(links)'
    <3>1. \A S : LinksRead(S)' <=> LinksRead(S)
      BY <1>0, SevenZStays
    <3>2. PICK S : S = links
      OBVIOUS
    <3>3. LinksRead(S)'
      BY <1>2, <3>1, <3>2
    <3>4. LinksRead(links)'
      BY <1>0, <3>2, <3>3 DEF LinksRead
    <3> QED
      BY <1>0, <2>11, <3>4, SevenZStays
  <2>13. LinksTaken(v, at)'
    BY <2>1, <2>2, <2>12 DEF LinksTaken
  <2>14. at' <= Cardinality(links)'
    BY <1>0, <2>1, <2>2, <2>3
  <2> QED
    BY <1>0, <1>3, <2>1, <2>10, <2>12, <2>13, <2>14 DEF SevenZLeft
<1> QED
  BY <1>4, <1>5, <1>6

(* What anti items name is left out of the claim as soon as it is deleted.  *)
LEMMA SevenZDeletionsLeave ==
  ASSUME IInv, IInv', AntiInv, PlanMoves, SevenZLeft, format = "7z",
         OfSevenZ!Delete \/ OfSevenZ!DeleteThroughLink \/ OfSevenZ!DeletionsEnd
  PROVE  SevenZLeft'
<1>0. /\ PlanInv /\ IsTree(tree) /\ LinksOnly(tree) /\ phase = "deletions" /\ phase \notin {"plan", "err"} /\ at \in Nat
      /\ OfSevenZ!plan = planned.plan /\ UNCHANGED <<archive, options, before, format, planned>>
  BY DEF IInv, TreeInv, SevenZInv, AntiInv, OfSevenZ!plan, OfSevenZ!Delete, OfSevenZ!DeleteThroughLink, OfSevenZ!DeletionsEnd,
         OfSevenZ!InLoop, OfSevenZ!LoopEnds, PlanMoves
<1>1. PICK N, E, items : N = Needed(planned.plan) /\ E = AntiPaths /\ items = ItemsOf("dir")
  OBVIOUS
<1>2. /\ Needed(planned.plan)' = N /\ AntiPaths' = E /\ ItemsOf("dir")' = items /\ SlotsOf("dir")' = SlotsOf("dir")
      /\ AntiLed' <=> AntiLed
  BY <1>0, <1>1, SevenZStays, SealingStays
<1>3. ~ AntiLed => Sealing(tree, N, E, items, 0)
  BY <1>0, <1>1 DEF SevenZLeft
<1>4. ASSUME ~ AntiLed => Sealing(tree', N, E, items, 0)
      PROVE  ~ AntiLed' => Sealing(tree, Needed(planned.plan), AntiPaths, ItemsOf("dir"), 0)'
  <2>1. ~ AntiLed => Sealing(tree, N, E, items, 0)'
    BY <1>0, <1>4, SealingStays
  <2> QED
    BY <1>2, <2>1
<1>5. CASE phase' = "err"
  BY <1>5 DEF SevenZLeft
<1>6. CASE OfSevenZ!DeletionsEnd
  <2>1. phase' = "seal" /\ at' = 0 /\ tree' = tree
    BY <1>6 DEF OfSevenZ!DeletionsEnd, OfSevenZ!LoopEnds
  <2>2. at' <= Len(SlotsOf("dir"))'
    <3>1. Len(SlotsOf("dir")) \in Nat
      BY <1>0, SlotsSort
    <3> QED
      BY <1>2, <2>1, <3>1
  <2>3. ~ AntiLed' => Sealing(tree, Needed(planned.plan), AntiPaths, ItemsOf("dir"), 0)'
    BY <1>3, <1>4, <2>1
  <2>4. ~ AntiLed' => Sealing(tree, Needed(planned.plan), AntiPaths, ItemsOf("dir"), at)'
    BY <2>1, <2>3
  <2> QED
    BY <2>1, <2>2, <2>4 DEF SevenZLeft
<1>7. CASE (OfSevenZ!Delete \/ OfSevenZ!DeleteThroughLink) /\ phase' # "err"
  <2>1. at < Len(planned.anti) /\ phase' = "deletions"
    BY <1>0, <1>7 DEF OfSevenZ!Delete, OfSevenZ!DeleteThroughLink, OfSevenZ!InLoop, OfSevenZ!Onward, OfSevenZ!Stopped
  <2>2. PICK n : n = DeepestFirst(planned.anti)[at + 1]
    OBVIOUS
  <2>3. n \in DOMAIN planned.anti /\ AntiPath(n) \in Paths
    <3>1. /\ DOMAIN planned.anti = 1 .. Len(planned.anti) /\ Len(planned.anti) \in Nat
          /\ \A m \in DOMAIN planned.anti : planned.anti[m].path \in Paths
          /\ planned.anti \in Seq(AntiItems(archive, options))
      BY <1>0, PlannedFacts DEF Plans
    <3>2. Sorted(DeepestFirst(planned.anti), DOMAIN planned.anti, Deeper(planned.anti))
      BY <3>1, DeepestFirstSorts
    <3>3. Cardinality(DOMAIN planned.anti) = Len(planned.anti)
      BY SMTT(40), <3>1, CountUpto
    <3>4. at + 1 \in 1 .. Len(planned.anti)
      BY <1>0, <2>1, <3>1
    <3>5. DeepestFirst(planned.anti)[at + 1] \in DOMAIN planned.anti
      BY <3>2, <3>3, <3>4 DEF Sorted
    <3> QED
      BY <2>2, <3>1, <3>5 DEF AntiPath
  <2>4. PICK p : p = AntiPath(n)
    OBVIOUS
  <2>5. OfSevenZ!anti = p /\ p \in E /\ p \in Paths
    BY <1>1, <2>2, <2>3, <2>4, OfSevenZOrder DEF OfSevenZ!anti, AntiPath, AntiPaths
  <2>6. ASSUME ~ AntiLed PROVE Sealing(tree', N, E, items, 0)
    <3>1. \A q \in Above(p) : tree[q].kind # "link"
      <4>1. \A q \in Above(p) : ~ MayBeLink(q)
        BY <2>3, <2>4, <2>6 DEF AntiLed, AntiPath
      <4>2. Above(p) \subseteq Paths
        BY <2>5, PathFacts
      <4> QED
        BY SMTT(40), <1>0, <4>1, <4>2 DEF LinksOnly
    <3>2. ~ OfSevenZ!DeleteThroughLink
      <4>1. CASE Len(p) > 1
        <5>1. OfSevenZ!Front(p) = Front(p) /\ OfSevenZ!Ancestry(Front(p)) = Above(p)
          BY <2>5, <4>1, PathFacts DEF OfSevenZ!Front, Front, OfSevenZ!Ancestry, Ancestry
        <5> QED
          BY <2>5, <3>1, <5>1 DEF OfSevenZ!DeleteThroughLink, OfSevenZ!LinkOnTheWay
      <4>2. CASE ~ (Len(p) > 1)
        BY <2>5, <4>2 DEF OfSevenZ!DeleteThroughLink
      <4> QED
        BY <4>1, <4>2
    <3>3. tree' = tree \/ tree' = [tree EXCEPT ![p] = Missing]
      BY <1>7, <2>5, <3>2, OfSevenZTree DEF OfSevenZ!Delete
    <3>4. \A q \in Paths : q \notin E => tree'[q] = tree[q]
      BY <1>0, <2>5, <3>3 DEF IsTree
    <3>5. N \subseteq Paths
      BY <1>0, <1>1, NeededGrows
    <3>6. Sealing(tree, N, E, items, 0)
      BY <1>3, <2>6
    <3>7. \A q \in Paths : q \notin N \cup E => Final(tree', q)
      BY <3>4, <3>6 DEF Sealing, Final
    <3>8. \A q \in N \ E : tree'[q] = tree[q]
      BY <3>4, <3>5
    <3> QED
      BY <3>6, <3>7, <3>8 DEF Sealing
  <2>7. ~ AntiLed' => Sealing(tree, Needed(planned.plan), AntiPaths, ItemsOf("dir"), 0)'
    BY <1>4, <2>6
  <2> QED
    BY <2>1, <2>7 DEF SevenZLeft
<1> QED
  BY <1>5, <1>6, <1>7

(* The metadata of the directories, and the end.                            *)
LEMMA SevenZSealLeaves ==
  ASSUME IInv, IInv', PlanMoves, SevenZLeft, format = "7z", OfSevenZ!Seal \/ OfSevenZ!Finish
  PROVE  SevenZLeft'
<1> DEFINE items == ItemsOf("dir")
           q == SlotsOf("dir")
<1>0. /\ PlanInv /\ IsTree(tree) /\ phase = "seal" /\ at \in Nat
      /\ UNCHANGED <<archive, options, before, format, planned>>
  BY DEF IInv, TreeInv, SevenZInv, OfSevenZ!Seal, OfSevenZ!Finish, OfSevenZ!InLoop, PlanMoves
<1>n. PICK N, E : N = Needed(planned.plan) /\ E = AntiPaths
  OBVIOUS
<1>1. at <= Len(q) /\ (~ options.restore => at = 0) /\ (~ AntiLed => Sealing(tree, N, E, items, at))
  BY <1>0, <1>n DEF SevenZLeft
<1>2. /\ items \in Seq(PlanItems(archive, options)) /\ DOMAIN items = 1 .. Len(q) /\ Len(items) = Len(q) /\ Len(q) \in Nat
      /\ \A n \in DOMAIN items : items[n].path \in Paths /\ items[n].path \in N
      /\ Sorted(q, DirSlots, Ascending(DirSlots)) /\ items = [n \in DOMAIN q |-> planned.plan[q[n]]]
  <2>1. \A n \in 1 .. Len(q) : items[n] = planned.plan[q[n]] /\ q[n] \in DOMAIN planned.plan /\ planned.plan[q[n]].kind = "dir"
    BY ZenonT(40), <1>0, SlotsSort
  <2>2. \A s \in DOMAIN planned.plan : planned.plan[s].kind = "dir" => planned.plan[s].path \in N /\ planned.plan[s].path \in Paths
    BY <1>0, <1>n, PlannedFacts, NeededFacts, PathFacts
  <2>3. items \in Seq(PlanItems(archive, options)) /\ DOMAIN items = 1 .. Len(q) /\ Len(items) = Len(q) /\ Len(q) \in Nat
    BY <1>0, SlotsFacts
  <2>4. Sorted(q, DirSlots, Ascending(DirSlots))
    BY <1>0, SlotsSort DEF DirSlots
  <2>5. items = [n \in DOMAIN q |-> planned.plan[q[n]]]
    BY DEF ItemsOf
  <2> HIDE DEF items, q
  <2> QED
    BY <2>1, <2>2, <2>3, <2>4, <2>5
<1>3. Len(DeepestFirst(items)) = Len(items) /\ \A n \in 1 .. Len(q) : DeepestFirst(items)[n] \in DOMAIN items
  <2> HIDE DEF items, q
  <2>1. Sorted(DeepestFirst(items), DOMAIN items, Deeper(items))
    BY <1>2, DeepestFirstSorts
  <2>2. Cardinality(DOMAIN items) = Len(items)
    BY SMTT(40), <1>2, CountUpto
  <2> QED
    BY <1>2, <2>1, <2>2 DEF Sorted
<1>4. OfSevenZ!Directories = items /\ OfSevenZ!DeepestFirst(items) = DeepestFirst(items)
  BY SMTT(40), OfSevenZSlots, OfSevenZOrder
<1>6. Needed(planned.plan)' = N /\ AntiPaths' = E /\ ItemsOf("dir")' = items /\ SlotsOf("dir")' = q /\ (AntiLed' <=> AntiLed)
  BY <1>0, <1>n, SealingStays, SevenZStays
<1>7. N \in SUBSET Paths
  BY <1>0, <1>n, NeededGrows
<1>l. PICK l : l = items
  OBVIOUS
<1> HIDE DEF items, q
<1>8. CASE OfSevenZ!Seal
  <2> DEFINE item == TurnOf(l, at + 1)
  <2>1. /\ at' = at + 1 /\ phase' = "seal" /\ at < Len(l) /\ Seals(item, tree, tree') /\ options'.restore
    BY <1>0, <1>3, <1>4, <1>8, <1>l DEF OfSevenZ!Seal, OfSevenZ!InLoop, OfSevenZ!Onward, Seals, TurnOf
  <2>2. item.path \in N
    <3>1. at + 1 \in 1 .. Len(q)
      BY <1>0, <1>2, <1>l, <2>1
    <3> QED
      BY <1>2, <1>3, <1>l, <3>1 DEF TurnOf
  <2>3. PICK k : k = at + 1
    OBVIOUS
  <2>4. ~ AntiLed => Sealing(tree', N, E, l, k)
    <3> HIDE DEF item
    <3>1. item.path \in N \cup E /\ item = TurnOf(l, at + 1)
      BY <2>2 DEF item
    <3> QED
      BY <1>0, <1>1, <1>7, <1>l, <2>1, <2>3, <3>1, SealingGoesOn
  <2>5. ~ AntiLed => Sealing(tree, N, E, l, k)'
    BY <1>0, <2>4, SealingStays
  <2>6. ~ AntiLed' => Sealing(tree, Needed(planned.plan), AntiPaths, ItemsOf("dir"), at)'
    BY <1>6, <1>l, <2>1, <2>3, <2>5
  <2>7. at' <= Len(SlotsOf("dir"))'
    BY <1>0, <1>2, <1>6, <1>l, <2>1
  <2> QED
    BY <2>1, <2>6, <2>7 DEF SevenZLeft
<1>9. CASE OfSevenZ!Finish
  <2>1. phase' = "done" /\ tree' = tree /\ (options.restore => at = Len(q))
    BY <1>2, <1>4, <1>9 DEF OfSevenZ!Finish
  <2>2. at = IF options.restore THEN Len(q) ELSE 0
    BY SMTT(40), <1>1, <2>1
  <2>3. ~ AntiLed => Settled(tree, N, E)
    BY <1>0, <1>1, <1>2, <1>7, <2>2, SealingSettles
  <2>4. ~ AntiLed => Settled(tree, N, E)'
    BY <1>0, <2>1, <2>3, SealingStays
  <2> QED
    BY <1>6, <2>1, <2>4 DEF SevenZLeft
<1> QED
  BY <1>8, <1>9

(* The bookkeeping of for_each changes nothing of that.                     *)
LEMMA SevenZLeftStays ==
  ASSUME IInv, IInv', SevenZLeft, format = "7z",
         UNCHANGED <<archive, options, before, format, planned, tree, phase, at, work, cursor, position, links, count, done>>
  PROVE  SevenZLeft'
<1>1. /\ EmptySlots' = EmptySlots /\ FolderList' = FolderList
      /\ \A g : GroupOf(g)' = GroupOf(g)
      /\ \A st, n : EmptyAre(st, n)' <=> EmptyAre(st, n)
      /\ \A st, states, behind : FoldersAre(st, states, behind)' <=> FoldersAre(st, states, behind)
      /\ \A g, n, k : InReach(g, n, k)' <=> InReach(g, n, k)
      /\ \A S, g, n : LinksBehind(S, g, n)' <=> LinksBehind(S, g, n)
      /\ \A S : LinksRead(S)' <=> LinksRead(S)
      /\ \A st, n : LinksTaken(st, n)' <=> LinksTaken(st, n)
      /\ AllWait' = AllWait /\ Needed(planned.plan)' = Needed(planned.plan)
      /\ (AntiLed' <=> AntiLed) /\ AntiPaths' = AntiPaths
  BY SevenZStays
<1>2. NeededTo(at)' = NeededTo(at)
  BY DEF NeededTo, NeededAt, PathAt
<1>3. \A N, st : Known(tree, N, st) => Known(tree, N, st)'
  BY KnownStays
<1>4. /\ \A N, E, items, k : Sealing(tree, N, E, items, k) => Sealing(tree, N, E, items, k)'
      /\ \A N, E : Settled(tree, N, E) => Settled(tree, N, E)'
      /\ \A kind : SlotsOf(kind)' = SlotsOf(kind) /\ ItemsOf(kind)' = ItemsOf(kind)
  BY SealingStays
<1>5. CASE phase = "plan"
  <2>1. done' = {} /\ at' = 0 /\ phase' = "plan"
    BY <1>5 DEF SevenZLeft
  <2> QED
    BY <2>1 DEF SevenZLeft
<1>6. CASE phase = "directories"
  <2>1. PICK N, st : N = NeededTo(at) /\ st = AllWait /\ Known(tree, N, st)
    BY <1>6 DEF SevenZLeft
  <2>2. N = NeededTo(at)' /\ st = AllWait' /\ Known(tree, N, st)'
    BY <1>1, <1>2, <1>3, <2>1
  <2>3. done' = {} /\ at' <= Len(planned'.plan) /\ phase' = "directories"
    BY <1>6 DEF SevenZLeft
  <2> QED
    BY <2>2, <2>3 DEF SevenZLeft
<1>7. CASE phase = "empty"
  <2>1. PICK N, st, n : N = Needed(planned.plan) /\ Known(tree, N, st) /\ EmptyAre(st, at) /\ n = at
    BY <1>7 DEF SevenZLeft
  <2>2. Needed(planned.plan)' = N /\ Known(tree, N, st)' /\ EmptyAre(st, n)'
    BY <1>1, <1>3, <2>1
  <2>3. EmptyAre(st, at)'
    BY <2>1, <2>2 DEF EmptyAre
  <2>4. done' = {} /\ at' <= Len(EmptySlots') /\ phase' = "empty"
    BY <1>1, <1>7 DEF SevenZLeft
  <2> QED
    BY <2>2, <2>3, <2>4 DEF SevenZLeft
<1>8. CASE phase = "folders"
  <2>1. PICK N, st, S, states, behind, read :
          /\ N = Needed(planned.plan) /\ Known(tree, N, st) /\ FoldersAre(st, work, cursor)
          /\ S = links /\ states = work /\ behind = cursor /\ read = position
    BY <1>8 DEF SevenZLeft
  <2>2. /\ at = 0 /\ count = Len(FolderList)
        /\ \A g \in done : g \in DOMAIN work /\ work[g] = "done"
        /\ \A g \in DOMAIN work :
             /\ cursor[g] <= Len(GroupOf(g)) /\ (work[g] = "done" => cursor[g] = Len(GroupOf(g)))
             /\ work[g] \in {"open", "partial"} =>
                  cursor[g] < Len(GroupOf(g)) /\ planned.plan[GroupOf(g)[cursor[g] + 1]].kind = "file"
             /\ InReach(g, cursor[g], position[g]) /\ LinksBehind(links, g, cursor[g])
        /\ LinksRead(links)
    BY <1>8 DEF SevenZLeft
  <2>3. /\ Needed(planned.plan)' = N /\ Known(tree, N, st)' /\ FoldersAre(st, states, behind)' /\ LinksRead(S)'
        /\ \A g \in DOMAIN states : InReach(g, behind[g], read[g])' /\ LinksBehind(S, g, behind[g])'
    <3>1. FoldersAre(st, states, behind) /\ LinksRead(S) /\ \A g \in DOMAIN states : InReach(g, behind[g], read[g]) /\ LinksBehind(S, g, behind[g])
      BY <2>1, <2>2
    <3> QED
      BY <1>1, <1>3, <2>1, <3>1
  <2>4. /\ FoldersAre(st, work, cursor)' /\ LinksRead(links)'
        /\ \A g \in DOMAIN work' : InReach(g, cursor[g], position[g])' /\ LinksBehind(links, g, cursor[g])'
    <3>1. S = links' /\ states = work' /\ behind = cursor' /\ read = position'
      BY <2>1
    <3> QED
      BY <2>3, <3>1 DEF FoldersAre, FolderIs, LinksRead, InReach, LinksBehind
  <2>5. /\ at' = 0 /\ count' = Len(FolderList)' /\ phase' = "folders"
        /\ \A g \in done' : g \in DOMAIN work' /\ work'[g] = "done"
        /\ \A g \in DOMAIN work' :
             /\ cursor'[g] <= Len(GroupOf(g)') /\ (work'[g] = "done" => cursor'[g] = Len(GroupOf(g)'))
             /\ work'[g] \in {"open", "partial"} =>
                  cursor'[g] < Len(GroupOf(g)') /\ planned'.plan[GroupOf(g)'[cursor'[g] + 1]].kind = "file"
    BY <1>1, <1>8, <2>2
  <2> QED
    BY <2>3, <2>4, <2>5 DEF SevenZLeft
<1>9. CASE phase = "links"
  <2>1. PICK N, st, S, n : N = Needed(planned.plan) /\ Known(tree, N, st) /\ LinksTaken(st, at) /\ S = links /\ n = at
    BY <1>9 DEF SevenZLeft
  <2>2. at <= Cardinality(links) /\ LinksRead(links)
    BY <1>9 DEF SevenZLeft
  <2>3. Needed(planned.plan)' = N /\ Known(tree, N, st)' /\ LinksTaken(st, n)' /\ LinksRead(S)'
    BY <1>1, <1>3, <2>1, <2>2
  <2>4. LinksTaken(st, at)' /\ LinksRead(links)' /\ phase' = "links" /\ at' <= Cardinality(links)'
    <3>1. S = links' /\ n = at'
      BY <2>1
    <3> QED
      BY <1>9, <2>2, <2>3, <3>1 DEF LinksTaken, LinksRead
  <2> QED
    BY <2>3, <2>4 DEF SevenZLeft
<1>10. CASE phase = "deletions"
  <2>1. PICK N, E, items : N = Needed(planned.plan) /\ E = AntiPaths /\ items = ItemsOf("dir")
    OBVIOUS
  <2>2. ~ AntiLed => Sealing(tree, N, E, items, 0)
    BY <1>10, <2>1 DEF SevenZLeft
  <2>3. ~ AntiLed => Sealing(tree, N, E, items, 0)'
    BY <1>4, <2>2
  <2>4. Needed(planned.plan)' = N /\ AntiPaths' = E /\ ItemsOf("dir")' = items /\ phase' = "deletions"
    BY <1>1, <1>4, <1>10, <2>1
  <2> QED
    BY <1>1, <2>3, <2>4 DEF SevenZLeft
<1>11. CASE phase = "seal"
  <2>1. PICK N, E, items, k : N = Needed(planned.plan) /\ E = AntiPaths /\ items = ItemsOf("dir") /\ k = at
    OBVIOUS
  <2>2. ~ AntiLed => Sealing(tree, N, E, items, k)
    BY <1>11, <2>1 DEF SevenZLeft
  <2>3. ~ AntiLed => Sealing(tree, N, E, items, k)'
    BY <1>4, <2>2
  <2>4. Needed(planned.plan)' = N /\ AntiPaths' = E /\ ItemsOf("dir")' = items /\ phase' = "seal" /\ k = at'
    BY <1>1, <1>4, <1>11, <2>1
  <2>5. at' <= Len(SlotsOf("dir"))' /\ (~ options'.restore => at' = 0)
    BY <1>4, <1>11 DEF SevenZLeft
  <2> QED
    BY <1>1, <2>3, <2>4, <2>5 DEF SevenZLeft
<1>12. CASE phase = "done"
  <2>1. PICK N, E : N = Needed(planned.plan) /\ E = AntiPaths
    OBVIOUS
  <2>2. ~ AntiLed => Settled(tree, N, E)
    BY <1>12, <2>1 DEF SevenZLeft
  <2>3. ~ AntiLed => Settled(tree, N, E)'
    BY <1>4, <2>2
  <2>4. Needed(planned.plan)' = N /\ AntiPaths' = E /\ phase' = "done"
    BY <1>1, <1>12, <2>1
  <2> QED
    BY <1>1, <2>3, <2>4 DEF SevenZLeft
<1>13. CASE phase \notin {"plan", "directories", "empty", "folders", "links", "deletions", "seal", "done"}
  BY <1>13 DEF SevenZLeft
<1> QED
  BY <1>5, <1>6, <1>7, <1>8, <1>9, <1>10, <1>11, <1>12, <1>13

(* A step of a 7z keeps it.                                                 *)
LEMMA SevenZLeftKept ==
  ASSUME IInv, IInv', AntiInv, PlanMoves, SevenZLeft, format = "7z", UNCHANGED format, OfSevenZ!Next
  PROVE  SevenZLeft'
<1>1. CASE OfSevenZ!KeepFailure
  <2>1. UNCHANGED <<archive, options, before, format, planned, tree, phase, at, work, cursor, position, links, count, done>>
    BY <1>1 DEF OfSevenZ!KeepFailure, OfSevenZ!Pool!Keep, OfSevenZ!input, OfSevenZ!folders
  <2> QED
    BY <2>1, SevenZLeftStays
<1>2. CASE OfSevenZ!Ended
  <2>1. UNCHANGED <<archive, options, before, format, planned, tree, phase, at, work, cursor, position, links, count, done>>
    BY <1>2 DEF OfSevenZ!Ended, OfSevenZ!vars, OfSevenZ!input, OfSevenZ!pool, OfSevenZ!folders
  <2> QED
    BY <2>1, SevenZLeftStays
<1>3. ASSUME NEW g \in DOMAIN work,
             OfSevenZ!OpenFolder(g) \/ OfSevenZ!ReadLink(g) \/ OfSevenZ!CheckFile(g) \/ OfSevenZ!CreateFile(g)
               \/ OfSevenZ!FailFile(g) \/ OfSevenZ!CompleteFile(g) \/ OfSevenZ!CompleteFolder(g)
      PROVE  SevenZLeft'
  BY <1>3, SevenZFoldersLeave
<1>4. CASE OfSevenZ!Plan \/ OfSevenZ!MakeDirectory \/ OfSevenZ!MakeParents \/ OfSevenZ!DirectoriesEnd
  BY <1>4, SevenZDirectoriesLeave
<1>5. CASE OfSevenZ!WriteEmpty \/ OfSevenZ!StartFolders \/ OfSevenZ!FoldersReturn
  BY <1>5, SevenZEmptyLeave, SevenZFoldersStart, SevenZFoldersReturn
<1>6. CASE OfSevenZ!MakeLink \/ OfSevenZ!LinksEnd
  BY <1>6, SevenZLinksLeave
<1>7. CASE OfSevenZ!Delete \/ OfSevenZ!DeleteThroughLink \/ OfSevenZ!DeletionsEnd
  BY <1>7, SevenZDeletionsLeave
<1>8. CASE OfSevenZ!Seal \/ OfSevenZ!Finish
  BY <1>8, SevenZSealLeaves
<1> QED
  BY <1>1, <1>2, <1>3, <1>4, <1>5, <1>6, <1>7, <1>8 DEF OfSevenZ!Next

(* What is settled is what the property expects, but for anti items.        *)
LEMMA SevenZExpected ==
  ASSUME IInv, SevenZLeft, format = "7z"
  PROVE  OfSevenZ!ResultIsDetermined
<1> SUFFICES ASSUME phase = "done", NEW p \in Paths, ~ OfSevenZ!Deletable(p) PROVE tree[p] = OfSevenZ!Expected(p)
  BY DEF OfSevenZ!ResultIsDetermined
<1>0. OfSevenZ!plan = planned.plan /\ PlanInv
  BY DEF IInv, OfSevenZ!plan
<1>1. ~ AntiLed /\ p \notin AntiPaths
  <2>1. OfSevenZ!LinkLeads <=> AntiLed
    BY <1>0, OfSevenZTree DEF OfSevenZ!LinkLeads, AntiLed, MayBeLink
  <2> QED
    BY <2>1 DEF OfSevenZ!Deletable, AntiPaths, AntiPath
<1>2. Settled(tree, Needed(planned.plan), AntiPaths)
  BY <1>1 DEF SevenZLeft
<1>3. OfSevenZ!LastDirectory(p) = LastDirectory(p)
  BY <1>0 DEF OfSevenZ!LastDirectory, LastDirectory
<1>4. OfSevenZ!Restored(p) = Given(p)
  <2>1. \A s \in Ordinary : Makes(s) <=> \/ planned.plan[s].kind = "file"
                                         \/ /\ planned.plan[s].kind = "link" /\ options.symlinks
                                            /\ ~ archive[planned.plan[s].index].escapes /\ FolderOf(s) # 0
    BY DEF Makes, FolderOf
  <2>2. \A s \in Ordinary : planned.plan[s].kind \in {"file", "link"}
    BY <1>0, PlannedKinds DEF Ordinary
  <2>3. /\ \A s \in DOMAIN planned.plan : s \in Ordinary <=> planned.plan[s].kind # "dir"
        /\ Ordinary \subseteq DOMAIN planned.plan
    BY DEF Ordinary
  <2>4. \A s : OfSevenZ!Folder(s) = FolderOf(s)
    BY OfSevenZSlots
  <2> QED
    BY <1>0, <2>1, <2>2, <2>3, <2>4, OfSevenZTree DEF OfSevenZ!Restored, Given, Free, PathAt
<1>5. OfSevenZ!Needed(OfSevenZ!plan) = Needed(planned.plan)
  BY <1>0, OfSevenZTree DEF OfSevenZ!Needed, Needed, OfSevenZ!Ancestry, Ancestry
<1>6. tree[p] = IF p \in Needed(planned.plan) THEN [kind |-> "dir", by |-> LastDirectory(p)] ELSE Elsewhere(p)
  BY <1>1, <1>2 DEF Settled
<1> QED
  BY <1>0, <1>3, <1>4, <1>5, <1>6 DEF OfSevenZ!Expected, Elsewhere

-----------------------------------------------------------------------------
(* So whatever the format, the archive, the options and the destination,    *)
(* and however the workers take turns, an extraction that succeeds leaves   *)
(* what they determine: each directory that is needed with the metadata of  *)
(* the last entry for it, each entry where it may be, all else as it was;   *)
(* but for hard links of a tar and anti items of a 7z.                      *)
THEOREM ResultDoesNotVary == Spec => []ResultIsDetermined
<1> DEFINE Left == /\ format = "zip" => ZipLeft
                   /\ format = "tar" => TarLeft
                   /\ format = "7z" => SevenZLeft
           Anti == format = "7z" => AntiInv
<1>1. Init => Left
  BY DEF Init, OfZip!Init, OfTar!Init, OfSevenZ!Init, ZipLeft, TarLeft, SevenZLeft
<1>2. IInv /\ IInv' /\ Anti /\ [Next]_vars /\ Left => Left'
  <2> SUFFICES ASSUME IInv, IInv', Anti, [Next]_vars, Left PROVE Left'
    OBVIOUS
  <2>1. CASE Next
    <3>1. /\ UNCHANGED format
          /\ \/ format = "zip" /\ OfZip!Next
             \/ format = "tar" /\ OfTar!Next
             \/ format = "7z" /\ OfSevenZ!Next
      BY SMTT(40), <2>1 DEF Next
    <3>2. CASE format = "zip" /\ OfZip!Next
      BY <2>1, <3>1, <3>2, ZipMoves, ZipLeftKept
    <3>3. CASE format = "tar" /\ OfTar!Next
      BY <2>1, <3>1, <3>3, TarMoves, TarLeftKept
    <3>4. CASE format = "7z" /\ OfSevenZ!Next
      BY <2>1, <3>1, <3>4, SevenZMoves, SevenZLeftKept
    <3> QED
      BY <3>1, <3>2, <3>3, <3>4
  <2>2. CASE UNCHANGED vars
    <3>1. UNCHANGED <<archive, options, before, format, planned, tree, phase, at, work, cursor, position, links, count, done,
                      bodies, pending, directories>>
      BY <2>2 DEF vars, shared, sevenZOnly, tarOnly
    <3> QED
      BY <3>1, ZipLeftStays, TarLeftStays, SevenZLeftStays
  <2> QED
    BY <2>1, <2>2
<1>3. IInv /\ Left => ResultIsDetermined
  BY ZipExpected, TarExpected, SevenZExpected DEF ResultIsDetermined, For
<1> QED
  BY <1>1, <1>2, <1>3, IInvAlways, AntiAlways, PTL DEF Spec
=============================================================================
