--------------------------- MODULE WorkPool_proof ---------------------------
(***************************************************************************)
(* Proofs about WorkPool, for every bound on the arguments of the call: the *)
(* type invariant, the safety invariants that TLC checks on small calls,    *)
(* and that the threaded loop implements the contract ForEach.              *)
(***************************************************************************)
EXTENDS WorkPool, FiniteSetTheorems, TLAPS

(* The call moves through its phases with the workers it has: none before   *)
(* the scope and in the sequential loop, all `threads` of them in it.       *)
Untouched ==
  /\ \A w \in Worker : pc[w] = "unborn"
  /\ lock = 0 /\ errs = {} /\ error = None /\ result = "open"

Phases ==
  /\ caller = "called" => Untouched /\ next = 0 /\ done = {}
  /\ caller = "alone" => Untouched /\ next <= count /\ \A i \in Index : i < next => i \in done
  /\ caller = "scope" =>
       result = "open" /\ threads > 1 /\ \A w \in Worker : w <= threads => pc[w] # "unborn"
  /\ caller = "returned" =>
       /\ result # "open" /\ lock = 0
       /\ \A w \in Worker : pc[w] \in {"unborn", "exit"}

(* What a worker holds at each of its program points.                       *)
Workers ==
  \A w \in Worker :
    /\ pc[w] # "unborn" /\ caller # "returned" => caller = "scope"
    /\ pc[w] = "init" => OfInit(w) \notin errs
    /\ pc[w] = "run" => at[w] < next
    /\ pc[w] = "record" => mine[w] \in errs
    /\ pc[w] = "raise" => lock = w /\ error # None
    /\ pc[w] = "exit" => error # None \/ next >= count

(* Indices ahead of the counter are untouched.                              *)
Ahead ==
  /\ \A i \in done : i < next
  /\ caller = "scope" => \A i \in 0 .. MaxCount : OfTask(i) \in errs => i < next

(* Every failure is stored or about to be, and nothing else is stored.      *)
Errors ==
  /\ error # None => error \in errs
  /\ failed => error # None
  /\ lock # 0 => pc[lock] = "raise"
  /\ caller = "scope" /\ errs # {} => error # None \/ \E w \in Worker : pc[w] = "record"

IInv ==
  /\ TypeOK
  /\ Phases
  /\ Workers
  /\ Ahead
  /\ Errors
  /\ OneTaskPerIndex
  /\ NoIndexLost
  /\ ResultIsTrue

-----------------------------------------------------------------------------

(* The failures a step may name, so that the set of failures can otherwise  *)
(* stay unexpanded.                                                         *)
LEMMA FailureFacts ==
  /\ \A w \in 0 .. MaxThreads : OfInit(w) \in F!Failure
  /\ \A i \in 0 .. MaxCount : OfTask(i) \in F!Failure
  /\ \A w, i : OfInit(w) # OfTask(i)
  /\ \A i, j : OfTask(i) = OfTask(j) => i = j
  /\ \A v, w : OfInit(v) = OfInit(w) => v = w
  /\ None \notin F!Failure
  /\ \A w : OfInit(w) # None /\ OfTask(w) # None
BY DEF F!Failure, OfInit, OfTask, F!OfInit, F!OfTask, None, F!None

(* A call that begins satisfies the invariant.                              *)
LEMMA InitIInv == Init => IInv
<1> SUFFICES ASSUME Init PROVE IInv
  OBVIOUS
<1> USE MaxCountAssumption, MaxThreadsAssumption DEF Init, F!FInit
<1>1. TypeOK
  <2>1. /\ pc \in [Worker -> {"unborn", "init", "poll", "claim", "run", "record", "raise", "exit"}]
        /\ at \in [Worker -> Nat]
    OBVIOUS
  <2>2. mine \in [Worker -> F!Failure \cup {None}]
    OBVIOUS
  <2>3. error \in F!Failure \cup {None}
    BY DEF None
  <2>4. lock \in 0 .. MaxThreads
    OBVIOUS
  <2>5. done \in SUBSET Index /\ errs \in SUBSET F!Failure
    OBVIOUS
  <2> QED
    BY <2>1, <2>2, <2>3, <2>4, <2>5 DEF TypeOK
<1>2. Phases /\ Workers /\ Ahead /\ Errors
  BY DEF Phases, Untouched, Workers, Ahead, Errors, None, F!None
<1>3. OneTaskPerIndex /\ NoIndexLost /\ ResultIsTrue
  BY DEF OneTaskPerIndex, NoIndexLost, ResultIsTrue, Index, F!Index
<1> QED
  BY <1>1, <1>2, <1>3 DEF IInv

(* Every step keeps the types.                                              *)
LEMMA TypeStep == IInv /\ [Next]_vars => TypeOK'
<1> SUFFICES ASSUME TypeOK, OneTaskPerIndex, [Next]_vars PROVE TypeOK'
  BY DEF IInv
<1> USE MaxCountAssumption, MaxThreadsAssumption
    DEF TypeOK, Worker, Index, F!Index, args, Goto
<1>1. CASE ReturnAtOnce
  BY <1>1 DEF ReturnAtOnce
<1>2. CASE StartAlone
  BY <1>2, FailureFacts DEF StartAlone
<1>3. CASE RunAlone
  <2>1. OfTask(next) \in F!Failure /\ next \in Index
    BY <1>3, FailureFacts DEF RunAlone
  <2>2. done' \in SUBSET Index /\ next' \in Nat
    <3>1. \/ done' = done \cup {next} /\ next' = next + 1
          \/ done' = done /\ next' = next
      BY <1>3 DEF RunAlone
    <3> HIDE DEF Index, F!Index
    <3>2. done \subseteq Index /\ next \in Index /\ next \in Nat
      BY <2>1
    <3>3. done' \subseteq Index
      BY <3>1, <3>2
    <3>4. next' \in Nat
      BY <3>1, <3>2
    <3> QED
      BY <3>3, <3>4
  <2>4. Index' = Index
    BY <1>3 DEF RunAlone
  <2>3. errs' \in SUBSET F!Failure /\ error' \in F!Failure \cup {None}
    BY <1>3, <2>1 DEF RunAlone
  <2> QED
    BY <1>3, <2>2, <2>3, <2>4 DEF RunAlone
<1>4. CASE FinishAlone
  BY <1>4 DEF FinishAlone
<1>5. CASE Spawn
  BY <1>5 DEF Spawn
<1>6. CASE Join
  BY <1>6 DEF Join
<1>7. ASSUME NEW w \in Worker, Work(w) PROVE TypeOK'
  <2>1. CASE InitOk(w)
    BY <2>1 DEF InitOk
  <2>2. CASE InitFails(w)
    <3>1. OfInit(w) \in F!Failure
      BY FailureFacts
    <3>2. mine' \in [Worker -> F!Failure \cup {None}] /\ errs' \in SUBSET F!Failure
      BY <2>2, <3>1 DEF InitFails
    <3> QED
      BY <2>2, <3>2 DEF InitFails
  <2>3. CASE Poll(w)
    BY <2>3 DEF Poll
  <2>4. CASE Claim(w)
    BY <2>4 DEF Claim
  <2>5. CASE TaskOk(w)
    BY <2>5 DEF TaskOk, OneTaskPerIndex
  <2>6. CASE TaskFails(w)
    <3>1. OfTask(at[w]) \in F!Failure
      BY <2>6, FailureFacts DEF TaskFails, OneTaskPerIndex
    <3>2. mine' \in [Worker -> F!Failure \cup {None}] /\ errs' \in SUBSET F!Failure
      BY <2>6, <3>1 DEF TaskFails
    <3> QED
      BY <2>6, <3>2 DEF TaskFails
  <2>7. CASE Record(w)
    BY <2>7 DEF Record
  <2>8. CASE Raise(w)
    BY <2>8 DEF Raise
  <2> QED
    BY <1>7, <2>1, <2>2, <2>3, <2>4, <2>5, <2>6, <2>7, <2>8 DEF Work
<1>8. CASE UNCHANGED vars
  BY <1>8 DEF vars
<1> QED
  BY <1>1, <1>2, <1>3, <1>4, <1>5, <1>6, <1>7, <1>8 DEF Next, Calling

(* Every step keeps the invariant.                                          *)
LEMMA NextIInv == IInv /\ [Next]_vars => IInv'
<1> SUFFICES ASSUME IInv, [Next]_vars PROVE IInv'
  OBVIOUS
<1>a. TypeOK'
  BY TypeStep
<1>b. /\ \A i, j : OfTask(i) = OfTask(j) => i = j
      /\ \A v, u : OfInit(v) = OfInit(u) => v = u
      /\ \A v, i : OfInit(v) # OfTask(i)
      /\ \A v : OfInit(v) # None /\ OfTask(v) # None
  BY FailureFacts
<1> USE <1>a, <1>b, MaxCountAssumption, MaxThreadsAssumption
    DEF IInv, TypeOK, Phases, Untouched, Workers, Ahead, Errors, OneTaskPerIndex, NoIndexLost,
        ResultIsTrue, Worker, Index, F!Index, args, Goto
<1>1. CASE ReturnAtOnce
  <2>1. Phases' /\ Workers'
    BY <1>1 DEF ReturnAtOnce
  <2>2. Ahead' /\ Errors'
    BY <1>1 DEF ReturnAtOnce
  <2>3. OneTaskPerIndex' /\ NoIndexLost' /\ ResultIsTrue'
    <3>1. \A i \in Index : FALSE
      BY <1>1 DEF ReturnAtOnce
    <3>2. done = Index
      BY <1>1, <3>1 DEF ReturnAtOnce
    <3> QED
      BY <1>1, <3>2 DEF ReturnAtOnce
  <2> QED
    BY <2>1, <2>2, <2>3 DEF IInv
<1>2. CASE StartAlone
  <2>1. Phases' /\ Workers'
    BY <1>2 DEF StartAlone
  <2>2. Ahead' /\ Errors'
    BY <1>2 DEF StartAlone
  <2>3. OneTaskPerIndex' /\ NoIndexLost' /\ ResultIsTrue'
    BY <1>2 DEF StartAlone
  <2> QED
    BY <2>1, <2>2, <2>3 DEF IInv
<1>3. CASE RunAlone
  <2>1. Phases' /\ Workers'
    BY <1>3 DEF RunAlone
  <2>2. Ahead' /\ Errors'
    BY <1>3 DEF RunAlone
  <2>3. OneTaskPerIndex' /\ NoIndexLost' /\ ResultIsTrue'
    BY <1>3 DEF RunAlone
  <2> QED
    BY <2>1, <2>2, <2>3 DEF IInv
<1>4. CASE FinishAlone
  <2>1. Phases' /\ Workers'
    BY <1>4 DEF FinishAlone
  <2>2. Ahead' /\ Errors'
    BY <1>4 DEF FinishAlone
  <2>3. OneTaskPerIndex' /\ NoIndexLost' /\ ResultIsTrue'
    <3>1. \A i \in Index : i \in done
      BY <1>4 DEF FinishAlone
    <3>2. done = Index /\ errs = {}
      BY <1>4, <3>1 DEF FinishAlone
    <3> QED
      BY <1>4, <3>2 DEF FinishAlone
  <2> QED
    BY <2>1, <2>2, <2>3 DEF IInv
<1>5. CASE Spawn
  <2>1. Phases' /\ Workers'
    BY <1>5 DEF Spawn
  <2>2. Ahead' /\ Errors'
    BY <1>5 DEF Spawn
  <2>3. OneTaskPerIndex' /\ NoIndexLost' /\ ResultIsTrue'
    BY <1>5 DEF Spawn
  <2> QED
    BY <2>1, <2>2, <2>3 DEF IInv
<1>6. CASE Join
  <2>1. Phases' /\ Workers'
    BY <1>6 DEF Join
  <2>2. Ahead' /\ Errors'
    BY <1>6 DEF Join
  <2>3. OneTaskPerIndex' /\ NoIndexLost' /\ ResultIsTrue'
    <3>1. CASE error = None
      <4>1. errs = {} /\ \A w \in Worker : pc[w] # "run"
        BY <1>6, <3>1 DEF Join
      <4>2. 1 \in Worker /\ pc[1] = "exit"
        BY <1>6 DEF Join
      <4>3. next >= count
        BY <3>1, <4>2
      <4>4. \A i \in Index : i \in done
        BY <4>1, <4>3
      <4>5. done = Index
        BY <4>4
      <4> QED
        BY <1>6, <3>1, <4>1, <4>5 DEF Join
    <3>2. CASE error # None
      BY <1>6, <3>2 DEF Join
    <3> QED
      BY <3>1, <3>2
  <2> QED
    BY <2>1, <2>2, <2>3 DEF IInv
<1>7. ASSUME NEW w \in Worker, Work(w) PROVE IInv'
  <2>1. CASE InitOk(w)
    <3>1. Phases' /\ Workers'
      BY <2>1 DEF InitOk
    <3>2. Ahead' /\ Errors'
      BY <2>1 DEF InitOk
    <3>3. OneTaskPerIndex' /\ NoIndexLost' /\ ResultIsTrue'
      BY <2>1 DEF InitOk
    <3> QED
      BY <3>1, <3>2, <3>3 DEF IInv
  <2>2. CASE InitFails(w)
    <3>1. Phases' /\ Workers'
      BY <2>2 DEF InitFails
    <3>2. Ahead' /\ Errors'
      BY <2>2 DEF InitFails
    <3>3. OneTaskPerIndex' /\ NoIndexLost' /\ ResultIsTrue'
      BY <2>2 DEF InitFails
    <3> QED
      BY <3>1, <3>2, <3>3 DEF IInv
  <2>3. CASE Poll(w)
    <3>1. Phases' /\ Workers'
      <4>1. CASE failed
        BY <2>3, <4>1 DEF Poll
      <4>2. CASE ~failed
        BY <2>3, <4>2 DEF Poll
      <4> QED
        BY <4>1, <4>2
    <3>2. Ahead' /\ Errors'
      BY <2>3 DEF Poll
    <3>3. OneTaskPerIndex' /\ NoIndexLost' /\ ResultIsTrue'
      BY <2>3 DEF Poll
    <3> QED
      BY <3>1, <3>2, <3>3 DEF IInv
  <2>4. CASE Claim(w)
    <3>1. Phases' /\ Workers'
      BY <2>4 DEF Claim
    <3>2. Ahead' /\ Errors'
      BY <2>4 DEF Claim
    <3>3. OneTaskPerIndex' /\ NoIndexLost' /\ ResultIsTrue'
      <4>1. CASE next >= count
        BY SMTT(40), <2>4, <4>1 DEF Claim
      <4>2. CASE next < count
        <5>1. /\ pc' = [pc EXCEPT ![w] = "run"] /\ at' = [at EXCEPT ![w] = next]
              /\ next' = next + 1 /\ pc[w] = "claim" /\ caller = "scope"
              /\ UNCHANGED <<count, threads, done, errs, error, result>>
          BY <2>4, <4>2 DEF Claim
        <5>2. next \in Index /\ next \notin done /\ OfTask(next) \notin errs
          BY <4>2, <5>1
        <5>3. OneTaskPerIndex'
          BY <5>1, <5>2
        <5>4. NoIndexLost'
          BY <5>1
        <5>5. ResultIsTrue'
          BY <5>1
        <5> QED
          BY <5>3, <5>4, <5>5
      <4> QED
        BY <4>1, <4>2
    <3> QED
      BY <3>1, <3>2, <3>3 DEF IInv
  <2>5. CASE TaskOk(w)
    <3>1. Phases' /\ Workers'
      BY <2>5 DEF TaskOk
    <3>2. Ahead' /\ Errors'
      BY <2>5 DEF TaskOk
    <3>3. OneTaskPerIndex' /\ NoIndexLost' /\ ResultIsTrue'
      BY <2>5 DEF TaskOk
    <3> QED
      BY <3>1, <3>2, <3>3 DEF IInv
  <2>6. CASE TaskFails(w)
    <3>1. Phases' /\ Workers'
      BY <2>6 DEF TaskFails
    <3>2. Ahead' /\ Errors'
      BY <2>6 DEF TaskFails
    <3>3. OneTaskPerIndex' /\ NoIndexLost' /\ ResultIsTrue'
      BY <2>6 DEF TaskFails
    <3> QED
      BY <3>1, <3>2, <3>3 DEF IInv
  <2>7. CASE Record(w)
    <3>a. mine[w] \in errs /\ mine[w] # None
      BY <2>7, FailureFacts DEF Record
    <3>1. Phases' /\ Workers'
      <4>1. /\ pc' = [pc EXCEPT ![w] = "raise"] /\ lock' = w /\ lock = 0
            /\ error' # None /\ (error # None => error' = error)
            /\ UNCHANGED <<count, threads, caller, at, mine, next, errs, result>>
            /\ pc[w] = "record" /\ caller = "scope"
        BY <2>7, <3>a DEF Record
      <4>2. Phases'
        BY <4>1
      <4>3. \A v \in Worker : pc[v] # "raise"
        BY <4>1
      <4>4. Workers'
        BY <4>1, <4>3
      <4> QED
        BY <4>2, <4>4
    <3>2. Ahead' /\ Errors'
      <4>1. error' # None /\ error' \in errs /\ UNCHANGED <<count, errs, done, next, failed, caller>>
        BY <2>7, <3>a DEF Record
      <4>2. lock' = w /\ pc'[w] = "raise"
        BY <2>7 DEF Record
      <4> QED
        BY <4>1, <4>2
    <3>3. OneTaskPerIndex' /\ NoIndexLost' /\ ResultIsTrue'
      BY <2>7 DEF Record
    <3> QED
      BY <3>1, <3>2, <3>3 DEF IInv
  <2>8. CASE Raise(w)
    <3>1. Phases' /\ Workers'
      BY <2>8 DEF Raise
    <3>2. Ahead' /\ Errors'
      BY <2>8 DEF Raise
    <3>3. OneTaskPerIndex' /\ NoIndexLost' /\ ResultIsTrue'
      BY <2>8 DEF Raise
    <3> QED
      BY <3>1, <3>2, <3>3 DEF IInv
  <2> QED
    BY <1>7, <2>1, <2>2, <2>3, <2>4, <2>5, <2>6, <2>7, <2>8 DEF Work
<1>8. CASE UNCHANGED vars
  BY <1>8 DEF vars
<1> QED
  BY <1>1, <1>2, <1>3, <1>4, <1>5, <1>6, <1>7, <1>8 DEF Next, Calling

-----------------------------------------------------------------------------

(* The invariant, and with it the ones the runs check.                      *)
THEOREM Invariance == Spec => []IInv
<1>1. IInv /\ [Next]_vars => IInv'
  BY NextIInv
<1> QED
  BY InitIInv, <1>1, PTL DEF Spec

(* Every state of every call is well typed: TypeOK.                         *)
THEOREM TypeCorrect == Spec => []TypeOK
<1>1. IInv => TypeOK
  BY DEF IInv
<1> QED
  BY Invariance, <1>1, PTL

(* No two workers ever hold the same index, and none holds one that was     *)
(* completed or failed before.                                              *)
THEOREM IndicesAreExclusive == Spec => []OneTaskPerIndex
<1>1. IInv => OneTaskPerIndex
  BY DEF IInv
<1> QED
  BY Invariance, <1>1, PTL

(* The claim counter leaves no index behind.                                *)
THEOREM IndicesAreKept == Spec => []NoIndexLost
<1>1. IInv => NoIndexLost
  BY DEF IInv
<1> QED
  BY Invariance, <1>1, PTL

(* Ok means that everything was done; Err carries a failure that happened.  *)
THEOREM AnswersAreTrue == Spec => []ResultIsTrue
<1>1. IInv => ResultIsTrue
  BY DEF IInv
<1> QED
  BY Invariance, <1>1, PTL

(* No worker and no lock survives the call.                                 *)
THEOREM CallsAreClosed == Spec => []NothingOutlivesTheCall
<1>1. IInv => NothingOutlivesTheCall
  BY DEF IInv, Phases, NothingOutlivesTheCall
<1> QED
  BY Invariance, <1>1, PTL

(* The error a call reports is the first one stored, whatever is recorded   *)
(* after it.                                                                *)
THEOREM FirstErrorIsKept == Spec => FirstErrorStays
<1>1. IInv /\ [Next]_vars => [error # None => error' = error]_vars
  <2> SUFFICES ASSUME IInv, Next, error # None PROVE error' = error
    OBVIOUS
  <2> USE DEF IInv, Phases, Untouched
  <2>1. CASE Calling
    BY <2>1 DEF Calling, ReturnAtOnce, StartAlone, RunAlone, FinishAlone, Spawn, Join
  <2>2. ASSUME NEW w \in Worker, Work(w) PROVE error' = error
    BY <2>2 DEF Work, InitOk, InitFails, Poll, Claim, TaskOk, TaskFails, Record, Raise
  <2> QED
    BY <2>1, <2>2 DEF Next
<1> QED
  BY Invariance, <1>1, PTL DEF Spec, FirstErrorStays

-----------------------------------------------------------------------------
(* The claim counter.  A worker whose claim passes count leaves, so there   *)
(* is at most one such claim for each worker that has left.                 *)

Left == {w \in Worker : pc[w] = "exit"}

Overshoot ==
  /\ next <= count + Cardinality(Left)
  /\ \A w \in Worker : pc[w] # "unborn" => w <= threads

(* The workers that have left are finitely many.                            *)
LEMMA LeftIsFinite ==
  ASSUME TypeOK
  PROVE  IsFiniteSet(Left) /\ Cardinality(Left) \in Nat
<1>1. IsFiniteSet(Worker)
  BY FS_Interval, MaxThreadsAssumption DEF Worker
<1> QED
  BY <1>1, FS_Subset, FS_CardinalityType DEF Left

(* Every step keeps the count of workers that passed the end.               *)
LEMMA OvershootStep == IInv /\ Overshoot /\ [Next]_vars => Overshoot'
<1> SUFFICES ASSUME IInv, Overshoot, [Next]_vars PROVE Overshoot'
  OBVIOUS
<1>a. TypeOK /\ TypeOK'
  BY TypeStep DEF IInv
<1>b. /\ IsFiniteSet(Left) /\ Cardinality(Left) \in Nat
      /\ IsFiniteSet(Left') /\ Cardinality(Left') \in Nat
  <2>1. IsFiniteSet(Worker)
    BY FS_Interval, MaxThreadsAssumption DEF Worker
  <2>2. IsFiniteSet(Left) /\ IsFiniteSet(Left')
    BY <2>1, FS_Subset DEF Left
  <2> QED
    BY <2>2, FS_CardinalityType
<1>c. count \in Nat /\ next \in Nat /\ next' \in Nat /\ count' = count /\ threads' = threads
  <2>1. count \in Nat /\ next \in Nat /\ next' \in Nat
    BY <1>a, MaxCountAssumption DEF TypeOK
  <2>2. UNCHANGED args
    BY DEF Next, Calling, Work, ReturnAtOnce, StartAlone, RunAlone, FinishAlone, Spawn, Join,
           InitOk, InitFails, Poll, Claim, TaskOk, TaskFails, Record, Raise, vars
  <2> QED
    BY <2>1, <2>2 DEF args
<1>1. \A w \in Worker : pc'[w] # "unborn" => w <= threads'
  BY <1>a, <1>c DEF Overshoot, TypeOK, Next, Calling, Work, Goto, ReturnAtOnce, StartAlone, RunAlone,
       FinishAlone, Spawn, Join, InitOk, InitFails, Poll, Claim, TaskOk, TaskFails, Record, Raise, vars
<1>2. CASE next' = next /\ Left \subseteq Left'
  <2>1. Cardinality(Left) <= Cardinality(Left')
    BY <1>b, <1>2, FS_Subset
  <2> QED
    BY <1>1, <1>2, <1>b, <1>c, <2>1 DEF Overshoot
<1>3. CASE next' <= count
  BY <1>1, <1>3, <1>b, <1>c DEF Overshoot
<1>4. ASSUME NEW w \in Worker, Claim(w) PROVE Overshoot'
  <2>1. CASE next < count
    BY <1>3, <1>4, <1>c, <2>1 DEF Claim
  <2>2. CASE next >= count
    <3>1. w \notin Left /\ Left' = Left \cup {w}
      BY <1>4, <1>a, <2>2 DEF Claim, Goto, Left, TypeOK
    <3>2. Cardinality(Left') = Cardinality(Left) + 1
      BY <3>1, <1>b, FS_AddElement
    <3> QED
      BY <1>1, <1>4, <1>b, <1>c, <3>2 DEF Claim, Overshoot
  <2> QED
    BY <1>c, <2>1, <2>2
<1>5. CASE Calling
  <2>1. Left \subseteq Left' /\ (next' = next \/ next' <= count)
    BY <1>5, <1>a, <1>c DEF Calling, ReturnAtOnce, StartAlone, RunAlone, FinishAlone, Spawn, Join,
         Left, IInv, Phases, Untouched
  <2> QED
    BY <1>2, <1>3, <2>1
<1>6. ASSUME NEW w \in Worker, Work(w), ~Claim(w) PROVE Overshoot'
  <2>1. next' = next /\ Left \subseteq Left'
    BY <1>6, <1>a DEF Work, Goto, InitOk, InitFails, Poll, TaskOk, TaskFails, Record, Raise, Left, TypeOK
  <2> QED
    BY <1>2, <2>1
<1>7. CASE UNCHANGED vars
  BY <1>2, <1>7 DEF vars, Left
<1> QED
  BY <1>4, <1>5, <1>6, <1>7 DEF Next

(* fetch_add passes count at most once for each worker, so the AtomicUsize  *)
(* stays far from the value at which it would wrap and reissue an index.    *)
THEOREM CounterIsBounded == Spec => []CounterBounded
<1>1. Init => Overshoot
  <2> SUFFICES ASSUME Init PROVE Overshoot
    OBVIOUS
  <2>1. TypeOK /\ count \in Nat
    BY InitIInv, MaxCountAssumption DEF IInv, TypeOK
  <2>2. Cardinality(Left) \in Nat
    BY <2>1, LeftIsFinite
  <2> QED
    BY <2>1, <2>2 DEF Init, Overshoot
<1>2. IInv /\ Overshoot => CounterBounded
  <2> SUFFICES ASSUME IInv, Overshoot PROVE CounterBounded
    OBVIOUS
  <2>1. count \in Nat /\ threads \in Nat /\ next \in Nat /\ threads <= MaxThreads
    BY MaxCountAssumption, MaxThreadsAssumption DEF IInv, TypeOK
  <2>2. IsFiniteSet(1 .. threads) /\ Cardinality(1 .. threads) = threads
    BY <2>1, FS_Interval
  <2>3. Left \subseteq 1 .. threads
    BY <2>1, MaxThreadsAssumption DEF Left, Overshoot, Worker
  <2>4. Cardinality(Left) <= threads
    BY <2>2, <2>3, FS_Subset
  <2>5. Cardinality(Left) \in Nat
    BY LeftIsFinite DEF IInv
  <2> QED
    BY <2>1, <2>4, <2>5 DEF Overshoot, CounterBounded
<1>3. IInv /\ Overshoot /\ [Next]_vars => Overshoot'
  BY OvershootStep
<1> QED
  BY <1>1, <1>2, <1>3, Invariance, PTL DEF Spec

-----------------------------------------------------------------------------
(* Each step of the threaded loop is a step of the contract, or leaves the  *)
(* variables of the contract alone.                                         *)

(* Every step is a step of the contract or a stutter.                       *)
LEMMA RefinementStep == IInv /\ [Next]_vars => [F!FNext]_(F!fvars)
<1> SUFFICES ASSUME IInv, [Next]_vars PROVE F!FNext \/ UNCHANGED F!fvars
  OBVIOUS
<1>a. TypeOK
  BY DEF IInv
<1>b. /\ \A i, j : OfTask(i) = OfTask(j) => i = j
      /\ \A v, i : OfInit(v) # OfTask(i)
      /\ \A v : F!OfInit(v) = OfInit(v) /\ F!OfTask(v) = OfTask(v)
  BY FailureFacts DEF OfInit, OfTask
<1>c. /\ \A v \in 0 .. MaxThreads : OfInit(v) \in F!Failure
      /\ \A i \in 0 .. MaxCount : OfTask(i) \in F!Failure
      /\ None \notin F!Failure
  BY FailureFacts
<1>d. \A i \in Index : i \in 0 .. MaxCount /\ i \in F!Index
  BY DEF Index, F!Index
<1> USE <1>a DEF IInv, TypeOK, Worker, args, F!fvars
<1>1. CASE ReturnAtOnce
  <2>1. done = F!Index /\ errs = {}
    BY <1>1, MaxCountAssumption DEF ReturnAtOnce, Phases, Untouched, F!Index
  <2>2. F!ReturnOk
    BY <1>1, <2>1 DEF ReturnAtOnce, Phases, Untouched, F!ReturnOk
  <2> QED
    BY <2>2 DEF F!FNext
<1>2. CASE StartAlone
  <2>1. CASE errs' = {OfInit(0)} /\ error' = OfInit(0) /\ result' = "err"
    <3>1. OfInit(0) \in F!Failure
      BY <1>c, MaxThreadsAssumption
    <3>2. F!FailAndReturn(OfInit(0))
      BY <1>2, <1>b, <2>1 DEF StartAlone, Phases, Untouched, F!FailAndReturn
    <3> QED
      BY <3>1, <3>2 DEF F!FNext
  <2>2. CASE UNCHANGED <<errs, error, result>>
    BY <1>2, <2>2 DEF StartAlone
  <2> QED
    BY <1>2, <2>1, <2>2 DEF StartAlone
<1>3. CASE RunAlone
  <2>1. next \in Index /\ next \notin done /\ errs = {} /\ result = "open"
    BY <1>3, MaxCountAssumption DEF RunAlone, Phases, Untouched, Ahead, Index, F!Index
  <2>2. CASE done' = done \cup {next} /\ UNCHANGED <<errs, error, result>>
    <3>1. F!Complete(next)
      BY <1>3, <2>1, <2>2 DEF RunAlone, F!Complete
    <3> QED
      BY <1>d, <2>1, <3>1 DEF F!FNext
  <2>3. CASE errs' = {OfTask(next)} /\ error' = OfTask(next) /\ result' = "err" /\ done' = done
    <3>1. OfTask(next) \in F!Failure
      BY <1>c, <1>d, <2>1
    <3>2. \A i \in done : OfTask(next) # F!OfTask(i)
      BY <1>b, <2>1
    <3>3. F!FailAndReturn(OfTask(next))
      BY <1>3, <2>1, <2>3, <3>2 DEF RunAlone, F!FailAndReturn
    <3> QED
      BY <3>1, <3>3 DEF F!FNext
  <2> QED
    BY <1>3, <2>2, <2>3 DEF RunAlone
<1>4. CASE FinishAlone
  <2>1. \A i \in Index : i \in done
    BY <1>4, MaxCountAssumption DEF FinishAlone, Phases, Index, F!Index
  <2>2. done = F!Index
    BY <2>1 DEF Index
  <2>3. F!ReturnOk
    BY <1>4, <2>2 DEF FinishAlone, Phases, Untouched, F!ReturnOk
  <2> QED
    BY <2>3 DEF F!FNext
<1>5. CASE Spawn
  BY <1>5 DEF Spawn
<1>6. CASE Join
  <2>1. CASE error = None
    <3>1. result' = "ok" /\ UNCHANGED <<done, errs, error, count>> /\ result = "open"
      BY <1>6, <2>1 DEF Join, Phases
    <3>2. ResultIsTrue'
      BY NextIInv
    <3>3. done = F!Index /\ errs = {}
      BY <3>1, <3>2 DEF ResultIsTrue, Index, F!Index
    <3>4. F!ReturnOk
      BY <3>1, <3>3 DEF F!ReturnOk
    <3> QED
      BY <3>4 DEF F!FNext
  <2>2. CASE error # None
    <3>1. F!ReturnErr
      BY <1>6, <2>2 DEF Join, Phases, Errors, F!ReturnErr, None
    <3> QED
      BY <3>1 DEF F!FNext
  <2> QED
    BY <2>1, <2>2
<1>7. ASSUME NEW w \in Worker, Work(w) PROVE F!FNext \/ UNCHANGED F!fvars
  <2>1. CASE InitOk(w) \/ Poll(w) \/ Claim(w) \/ Raise(w)
    BY <2>1 DEF InitOk, Poll, Claim, Raise
  <2>2. CASE InitFails(w)
    <3>1. OfInit(w) \in F!Failure
      BY <1>c, MaxThreadsAssumption
    <3>2. F!Fail(OfInit(w))
      BY <1>b, <2>2 DEF InitFails, Goto, F!Fail, Phases, Workers
    <3> QED
      BY <3>1, <3>2 DEF F!FNext
  <2>3. CASE TaskOk(w)
    <3>1. at[w] \in Index /\ F!Complete(at[w])
      BY <1>b, <2>3 DEF TaskOk, Goto, OneTaskPerIndex, Phases, Workers, F!Complete
    <3> QED
      BY <1>d, <3>1 DEF F!FNext
  <2>4. CASE TaskFails(w)
    <3>1. at[w] \in Index \ done /\ OfTask(at[w]) \notin errs /\ result = "open"
      BY <2>4 DEF TaskFails, Goto, OneTaskPerIndex, Phases, Workers
    <3>2. \A i \in done : OfTask(at[w]) # F!OfTask(i)
      BY <1>b, <3>1
    <3>3. F!Fail(OfTask(at[w]))
      BY <2>4, <3>1, <3>2 DEF TaskFails, F!Fail
    <3>4. OfTask(at[w]) \in F!Failure
      BY <1>c, <1>d, <3>1
    <3> QED
      BY <3>3, <3>4 DEF F!FNext
  <2>5. CASE Record(w)
    <3>1. mine[w] \in errs /\ mine[w] \in F!Failure /\ result = "open"
      BY <1>c, <2>5 DEF Record, Goto, Workers, Phases
    <3>2. CASE error = None
      <4>1. F!Keep(mine[w])
        BY <2>5, <3>1, <3>2 DEF Record, F!Keep, None
      <4> QED
        BY <3>1, <4>1 DEF F!FNext
    <3>3. CASE error # None
      BY <2>5, <3>3 DEF Record
    <3> QED
      BY <3>2, <3>3
  <2> QED
    BY <1>7, <2>1, <2>2, <2>3, <2>4, <2>5 DEF Work
<1>8. CASE UNCHANGED vars
  BY <1>8 DEF vars
<1> QED
  BY <1>1, <1>2, <1>3, <1>4, <1>5, <1>6, <1>7, <1>8 DEF Next, Calling

(* The pool implements its contract: whatever the callers of for_each build *)
(* on ForEach they may build on the threads.                                *)
THEOREM PoolImplementsForEach == Spec => ImplementsForEach
<1>1. Init => F!FInit
  BY DEF Init
<1>2. IInv /\ [Next]_vars => [F!FNext]_(F!fvars)
  BY RefinementStep
<1> QED
  BY <1>1, <1>2, Invariance, PTL DEF Spec, ImplementsForEach, F!FSpec
=============================================================================
