------------------------------ MODULE WorkPool ------------------------------
(***************************************************************************)
(* pipeline::pool::for_each, the one place where this crate starts threads. *)
(* A call runs `task` for every index below count.  With one thread it is a *)
(* plain loop.  With more, scoped workers each make their own state with    *)
(* `init`, then claim indices from the shared counter `next` until it runs  *)
(* past count or some worker has raised `failed`; the first error stored    *)
(* under the mutex is the one the call returns.                             *)
(*                                                                          *)
(* Every atomic access and every step under the mutex is a step of its own, *)
(* so a worker may poll `failed` before another raises it and claim after.  *)
(* `errs` and `done` are history: the failures that happened, the tasks     *)
(* that completed.                                                          *)
(***************************************************************************)
EXTENDS Naturals, FiniteSets

CONSTANTS
  MaxCount,   \* bound on the argument `count`
  MaxThreads  \* bound on the argument `threads`

ASSUME MaxCountAssumption == MaxCount \in Nat
ASSUME MaxThreadsAssumption == MaxThreads \in Nat

VARIABLES
  count,      \* the argument `count`
  threads,    \* the argument `threads`
  caller,     \* where the calling thread is
  pc,         \* where each worker is
  at,         \* the index each worker claimed last
  mine,       \* the failure a worker is about to record
  next,       \* AtomicUsize, or the loop index when there is one thread
  failed,     \* AtomicBool
  lock,       \* holder of the error mutex, 0 when it is free
  done, errs, error, result

args == <<count, threads>>
vars == <<args, caller, pc, at, mine, next, failed, lock, done, errs, error, result>>

F == INSTANCE ForEach

Index == F!Index
None == F!None
OfInit(w) == F!OfInit(w)
OfTask(i) == F!OfTask(i)
Worker == 1 .. MaxThreads

TypeOK ==
  /\ count \in 0 .. MaxCount
  /\ threads \in 0 .. MaxThreads
  /\ caller \in {"called", "alone", "scope", "returned"}
  /\ pc \in [Worker -> {"unborn", "init", "poll", "claim", "run", "record", "raise", "exit"}]
  /\ at \in [Worker -> Nat]
  /\ mine \in [Worker -> F!Failure \cup {None}]
  /\ next \in Nat
  /\ failed \in BOOLEAN
  /\ lock \in 0 .. MaxThreads
  /\ done \in SUBSET Index
  /\ errs \in SUBSET F!Failure
  /\ error \in F!Failure \cup {None}
  /\ result \in {"open", "ok", "err"}

Init ==
  /\ threads \in 0 .. MaxThreads
  /\ caller = "called"
  /\ pc = [w \in Worker |-> "unborn"]
  /\ at = [w \in Worker |-> 0]
  /\ mine = [w \in Worker |-> None]
  /\ next = 0
  /\ failed = FALSE
  /\ lock = 0
  /\ F!FInit

Goto(w, here, there) == pc[w] = here /\ pc' = [pc EXCEPT ![w] = there]

------------------------------------------------------------------------------
(* The calling thread.                                                      *)

ReturnAtOnce ==
  /\ caller = "called" /\ count = 0
  /\ caller' = "returned" /\ result' = "ok"
  /\ UNCHANGED <<args, pc, at, mine, next, failed, lock, done, errs, error>>

StartAlone ==
  /\ caller = "called" /\ count > 0 /\ threads <= 1
  /\ \/ /\ caller' = "alone"
        /\ UNCHANGED <<errs, error, result>>
     \/ /\ errs' = {OfInit(0)} /\ error' = OfInit(0)
        /\ caller' = "returned" /\ result' = "err"
  /\ UNCHANGED <<args, pc, at, mine, next, failed, lock, done>>

(* Mutant: an inclusive range, 0..=count.                                   *)
RunAloneInclusive ==
  /\ caller = "alone" /\ next <= count
  /\ done' = done \cup {next} /\ next' = next + 1
  /\ UNCHANGED <<args, caller, pc, at, mine, failed, lock, errs, error, result>>

RunAlone ==
  /\ caller = "alone" /\ next < count
  /\ \/ /\ done' = done \cup {next} /\ next' = next + 1
        /\ UNCHANGED <<caller, errs, error, result>>
     \/ /\ errs' = {OfTask(next)} /\ error' = OfTask(next)
        /\ caller' = "returned" /\ result' = "err"
        /\ UNCHANGED <<done, next>>
  /\ UNCHANGED <<args, pc, at, mine, failed, lock>>

FinishAlone ==
  /\ caller = "alone" /\ next >= count
  /\ caller' = "returned" /\ result' = "ok"
  /\ UNCHANGED <<args, pc, at, mine, next, failed, lock, done, errs, error>>

Spawn ==
  /\ caller = "called" /\ count > 0 /\ threads > 1
  /\ caller' = "scope"
  /\ pc' = [w \in Worker |-> IF w <= threads THEN "init" ELSE "unborn"]
  /\ UNCHANGED <<args, at, mine, next, failed, lock, done, errs, error, result>>

(* Mutant: the caller leaves as soon as a failure is flagged.               *)
JoinEarly ==
  /\ caller = "scope"
  /\ failed \/ \A w \in Worker : pc[w] \in {"unborn", "exit"}
  /\ caller' = "returned"
  /\ result' = IF error = None THEN "ok" ELSE "err"
  /\ UNCHANGED <<args, pc, at, mine, next, failed, lock, done, errs, error>>

(* thread::scope joins every worker before the stored error is looked at.   *)
Join ==
  /\ caller = "scope" /\ \A w \in Worker : pc[w] \in {"unborn", "exit"}
  /\ caller' = "returned"
  /\ result' = IF error = None THEN "ok" ELSE "err"
  /\ UNCHANGED <<args, pc, at, mine, next, failed, lock, done, errs, error>>

------------------------------------------------------------------------------
(* A worker.                                                                *)

InitOk(w) ==
  /\ Goto(w, "init", "poll")
  /\ UNCHANGED <<args, caller, at, mine, next, failed, lock, done, errs, error, result>>

InitFails(w) ==
  /\ Goto(w, "init", "record")
  /\ mine' = [mine EXCEPT ![w] = OfInit(w)]
  /\ errs' = errs \cup {OfInit(w)}
  /\ UNCHANGED <<args, caller, at, next, failed, lock, done, error, result>>

Poll(w) ==
  /\ IF failed THEN Goto(w, "poll", "exit") ELSE Goto(w, "poll", "claim")
  /\ UNCHANGED <<args, caller, at, mine, next, failed, lock, done, errs, error, result>>

(* Mutant: a load and a store in place of fetch_add, so an update is lost.  *)
ClaimLoadStore(w) ==
  /\ IF next >= count THEN Goto(w, "claim", "exit") ELSE Goto(w, "claim", "run")
  /\ at' = [at EXCEPT ![w] = next]
  /\ next' \in {next, next + 1}
  /\ UNCHANGED <<args, caller, mine, failed, lock, done, errs, error, result>>

(* Mutant: `continue` in place of `return` past the end.                    *)
ClaimForever(w) ==
  /\ IF next >= count THEN Goto(w, "claim", "poll") ELSE Goto(w, "claim", "run")
  /\ at' = [at EXCEPT ![w] = next]
  /\ next' = next + 1
  /\ UNCHANGED <<args, caller, mine, failed, lock, done, errs, error, result>>

Claim(w) ==
  /\ IF next >= count THEN Goto(w, "claim", "exit") ELSE Goto(w, "claim", "run")
  /\ at' = [at EXCEPT ![w] = next]
  /\ next' = next + 1
  /\ UNCHANGED <<args, caller, mine, failed, lock, done, errs, error, result>>

TaskOk(w) ==
  /\ Goto(w, "run", "poll")
  /\ done' = done \cup {at[w]}
  /\ UNCHANGED <<args, caller, at, mine, next, failed, lock, errs, error, result>>

TaskFails(w) ==
  /\ Goto(w, "run", "record")
  /\ mine' = [mine EXCEPT ![w] = OfTask(at[w])]
  /\ errs' = errs \cup {OfTask(at[w])}
  /\ UNCHANGED <<args, caller, at, next, failed, lock, done, error, result>>

(* Mutant: only the flag is raised.                                         *)
RecordNothing(w) ==
  /\ Goto(w, "record", "raise")
  /\ lock = 0 /\ lock' = w
  /\ UNCHANGED <<args, caller, at, mine, next, failed, done, errs, error, result>>

(* record(e): the first half, under the mutex, keeps the earliest error ... *)
Record(w) ==
  /\ Goto(w, "record", "raise")
  /\ lock = 0 /\ lock' = w
  /\ error' = IF error = None THEN mine[w] ELSE error
  /\ UNCHANGED <<args, caller, at, mine, next, failed, done, errs, result>>

(* Mutant: the guard is leaked.                                             *)
RaiseLocked(w) ==
  /\ Goto(w, "raise", "exit")
  /\ failed' = TRUE
  /\ UNCHANGED <<args, caller, at, mine, next, lock, done, errs, error, result>>

(* ... and the second raises the flag; the guard is dropped after it.       *)
Raise(w) ==
  /\ Goto(w, "raise", "exit")
  /\ failed' = TRUE
  /\ lock' = 0
  /\ UNCHANGED <<args, caller, at, mine, next, done, errs, error, result>>

Work(w) ==
  \/ InitOk(w) \/ InitFails(w)
  \/ Poll(w) \/ Claim(w)
  \/ TaskOk(w) \/ TaskFails(w)
  \/ Record(w) \/ Raise(w)

Calling == ReturnAtOnce \/ StartAlone \/ RunAlone \/ FinishAlone \/ Spawn \/ Join

Next == Calling \/ \E w \in Worker : Work(w)

Spec == Init /\ [][Next]_vars

(* The scheduler runs every thread, and init and task return.               *)
FairSpec == Spec /\ WF_vars(Calling) /\ \A w \in Worker : WF_vars(Work(w))

------------------------------------------------------------------------------
(* No index is worked on by two workers at once, nor again after its task   *)
(* completed or failed: what lets callers hand slot i to the task of i.     *)
OneTaskPerIndex ==
  \A w \in Worker : pc[w] = "run" =>
    /\ at[w] \in Index \ done
    /\ OfTask(at[w]) \notin errs
    /\ \A v \in Worker \ {w} : pc[v] = "run" => at[v] # at[w]

(* The counter leaves no hole behind it: every index it has passed has      *)
(* completed, has failed, or is being run.                                  *)
NoIndexLost ==
  \A i \in Index : i < next =>
    \/ i \in done
    \/ OfTask(i) \in errs
    \/ \E w \in Worker : pc[w] = "run" /\ at[w] = i

(* The caller is told Ok exactly when every task completed and nothing, in  *)
(* a task or in an init, failed; and otherwise gets an error that happened. *)
ResultIsTrue ==
  /\ result = "ok" => done = Index /\ errs = {}
  /\ result = "err" => error \in errs

(* When the call has returned, no worker still touches the caller's data,   *)
(* and the error mutex is free.                                             *)
NothingOutlivesTheCall ==
  caller = "returned" => lock = 0 /\ \A w \in Worker : pc[w] \in {"unborn", "exit"}

(* Once stored, the first error is the one that stays.                      *)
FirstErrorStays == [][error # None => error' = error]_vars

(* The claim counter overshoots count by at most one per worker, so it      *)
(* cannot wrap around and hand out an index a second time.                  *)
CounterBounded == next <= count + threads

(* Every call returns.                                                      *)
Returns == <>(caller = "returned")

(* for_each implements its contract.                                        *)
ImplementsForEach == F!FSpec
==============================================================================
