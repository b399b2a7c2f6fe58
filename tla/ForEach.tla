------------------------------- MODULE ForEach -------------------------------
(***************************************************************************)
(* What pipeline::pool::for_each promises its callers, whatever the number  *)
(* of threads: every index is completed at most once and never after it     *)
(* failed, the call returns Ok only after all of them completed and nothing *)
(* failed, and it returns Err only with a failure that really happened.     *)
(* WorkPool is the detailed specification that implements this one; the     *)
(* modules of the callers rely on it as the meaning of one call.            *)
(***************************************************************************)
EXTENDS Naturals

CONSTANTS
  MaxCount,   \* the largest `count` considered
  MaxThreads  \* the largest `threads` considered

None == <<"none", 0>>

(* A failure is of an init closure (of worker w, 0 for the calling thread)  *)
(* or of the task of one index.                                             *)
OfInit(w) == <<"init", w>>
OfTask(i) == <<"task", i>>
Failure == {OfInit(w) : w \in 0 .. MaxThreads} \cup {OfTask(i) : i \in 0 .. MaxCount}

VARIABLES
  count,      \* the argument `count`
  done,       \* indices whose task returned Ok
  errs,       \* failures that happened
  error,      \* the failure the call will report, or None
  result      \* "open" while the call runs, then "ok" or "err"

fvars == <<count, done, errs, error, result>>

Index == {i \in 0 .. MaxCount : i < count}

FInit ==
  /\ count \in 0 .. MaxCount
  /\ done = {}
  /\ errs = {}
  /\ error = None
  /\ result = "open"

Complete(i) ==
  /\ result = "open"
  /\ i \notin done
  /\ OfTask(i) \notin errs
  /\ done' = done \cup {i}
  /\ UNCHANGED <<count, errs, error, result>>

Fail(f) ==
  /\ result = "open"
  /\ f \notin errs
  /\ \A i \in done : f # OfTask(i)
  /\ errs' = errs \cup {f}
  /\ UNCHANGED <<count, done, error, result>>

Keep(f) ==
  /\ result = "open"
  /\ error = None
  /\ f \in errs
  /\ error' = f
  /\ UNCHANGED <<count, done, errs, result>>

ReturnOk ==
  /\ result = "open"
  /\ done = Index
  /\ errs = {}
  /\ result' = "ok"
  /\ UNCHANGED <<count, done, errs, error>>

ReturnErr ==
  /\ result = "open"
  /\ error # None
  /\ error \in errs
  /\ result' = "err"
  /\ UNCHANGED <<count, done, errs, error>>

(* A failure on the calling thread itself ends the call in the same step.   *)
FailAndReturn(f) ==
  /\ result = "open"
  /\ errs = {} /\ errs' = {f}
  /\ error' = f
  /\ \A i \in done : f # OfTask(i)
  /\ result' = "err"
  /\ UNCHANGED <<count, done>>

FNext ==
  \/ \E i \in Index : Complete(i)
  \/ \E f \in Failure : Fail(f) \/ Keep(f) \/ FailAndReturn(f)
  \/ ReturnOk
  \/ ReturnErr

FSpec == FInit /\ [][FNext]_fvars
==============================================================================
