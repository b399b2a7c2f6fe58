-------------------------- MODULE Progress_proof --------------------------
(***************************************************************************)
(* Proofs about Progress, for any finite sets of workers and entries, any   *)
(* pieces and any threshold: the type invariant, that reports are throttled *)
(* and that each thread's reports are monotone, and that an operation that  *)
(* succeeds ends with a report of everything.                               *)
(***************************************************************************)
EXTENDS Progress, Collections_proof

(* What the calling thread does and what a worker does.                     *)
Roles ==
  /\ pc[Main] \in {"idle", "load", "loadEntries", "call", "join", "end"}
  /\ \A w \in Workers : /\ pc[w] \notin {"join", "end"}
                        /\ pc[w] = "dead" => failed
                        /\ pc[w] = "idle" => left[w] = <<>>

(* No worker is ahead of the counters it read.                              *)
Reads ==
  /\ \A w \in Workers :
       /\ added[w] <= processed_bytes
       /\ last[w] <= last_emit_bytes
       /\ pc[w] = "cas" => added[w] >= last[w] + Threshold
  /\ \A t \in Thread : /\ update[t].bytes <= processed_bytes
                       /\ update[t].entries <= processed_entries

(* Each byte of the archive has been counted, is left to a worker or waits  *)
(* with an entry that none has taken, and so has each entry.                *)
SizeOf == [e \in Entries |-> SumFunction(Pieces[e])]
Left == [w \in Workers |-> SumFunction(left[w])]
Busy == {w \in Workers : pc[w] # "idle"}

Account ==
  /\ processed_bytes + SumFunctionOnSet(Left, Workers) + SumFunctionOnSet(SizeOf, todo)
       = SumFunctionOnSet(SizeOf, Entries)
  /\ processed_entries + Cardinality(Busy) + Cardinality(todo) = Cardinality(Entries)

(* The calling thread reports before the workers start and, unless one has  *)
(* failed, after they have joined; the second report is the whole.          *)
Whole == [bytes |-> totals[1], entries |-> totals[2]]

Reports ==
  /\ pc[Main] # "idle" => totals = <<SumFunctionOnSet(SizeOf, Entries), Cardinality(Entries)>>
  /\ pc[Main] = "idle" => todo = Entries
  /\ pc[Main] \in {"load", "loadEntries", "call"} =>
       todo = Entries \/ (todo = {} /\ ~failed /\ Busy = {})
  /\ pc[Main] = "loadEntries" /\ todo # Entries => update[Main].bytes = Whole.bytes
  /\ pc[Main] = "call" /\ todo # Entries => update[Main] = Whole
  /\ pc[Main] = "end" /\ ~failed => todo = {} /\ update[Main] = Whole

IInv ==
  /\ TypeOK
  /\ Roles
  /\ Reads
  /\ Throttled
  /\ Account
  /\ Reports

-----------------------------------------------------------------------------
(* The sums of the specification are the sums of Collections_proof.                *)
LEMMA SizeOfType ==
  /\ SizeOf \in [Entries -> Nat]
  /\ \A e \in Entries : Pieces[e] \in Seq(Nat)
<1>1. ASSUME NEW e \in Entries PROVE Pieces[e] \in Seq(Nat) /\ SumFunction(Pieces[e]) \in Nat
  BY PiecesAssumption, SumOfSequenceType
<1> QED
  BY <1>1 DEF SizeOf

(* The total that set_totals announces is the sum of the sizes.             *)
LEMMA TotalOfIsSum == TotalOf(Entries) = SumFunctionOnSet(SizeOf, Entries)
<1> DEFINE Solves(h) == h = [s \in SUBSET Entries |->
             IF s = {} THEN 0 ELSE SumFunction(Pieces[Some(s)]) + h[s \ {Some(s)}]]
           k == CHOOSE h : Solves(h)
<1>1. PICK h : IsSum(h, SizeOf, Entries) /\ SumFunctionOnSet(SizeOf, Entries) = h[Entries]
  BY EntriesAssumption, SumFunctionOnSetIsSum
<1>2. \A s \in SUBSET Entries : s # {} => SumFunction(Pieces[Some(s)]) = SizeOf[Some(s)]
  BY SomeFacts DEF SizeOf
<1>3. \A g : Solves(g) <=> IsSum(g, SizeOf, Entries)
  <2> TAKE g
  <2>1. [s \in SUBSET Entries |->
           IF s = {} THEN 0 ELSE SumFunction(Pieces[Some(s)]) + g[s \ {Some(s)}]]
        = [s \in SUBSET Entries |-> IF s = {} THEN 0 ELSE SizeOf[Some(s)] + g[s \ {Some(s)}]]
    BY <1>2
  <2> QED
    BY <2>1 DEF IsSum
<1>4. IsSum(k, SizeOf, Entries)
  <2>1. Solves(h)
    BY <1>1, <1>3
  <2>2. Solves(k)
    BY <2>1
  <2> QED
    BY <1>3, <2>2
<1>5. k[Entries] = h[Entries]
  <2>1. Entries \in SUBSET (Entries \cap Entries)
    OBVIOUS
  <2> HIDE DEF k
  <2> QED
    BY <1>1, <1>4, <2>1, EntriesAssumption, SumUnique
<1>6. TotalOf(Entries) = k[Entries]
  BY DEF TotalOf, MapThenSumSet, MapThenFoldSet, Some
<1> QED
  BY <1>1, <1>5, <1>6

-----------------------------------------------------------------------------
(* Five things are numbers together, or one by one.                         *)
LEMMA AllNat ==
  ASSUME NEW a, NEW b, NEW c, NEW d, NEW e
  PROVE  {a, b, c, d, e} \subseteq Nat
           <=> a \in Nat /\ b \in Nat /\ c \in Nat /\ d \in Nat /\ e \in Nat
OBVIOUS

(* The pieces of an entry that are left are numbers.                        *)
LEMMA HeadAndTail == \A s \in Seq(Nat) : s # <<>> => Head(s) \in Nat /\ Tail(s) \in Seq(Nat)
OBVIOUS

(* A reporter that was just made satisfies the invariant.                   *)
LEMMA InitIInv == Init => IInv
<1> SUFFICES ASSUME Init PROVE IInv
  OBVIOUS
<1>1. TypeOK
  <2>1. update \in [Thread -> [bytes : Nat, entries : Nat]]
    BY DEF Init
  <2>2. {processed_bytes, processed_entries, last_emit_bytes, paid, max_bytes} \subseteq Nat
    BY DEF Init
  <2>3. pc \in [Thread -> {"idle", "load", "loadEntries", "call", "work", "due", "cas", "clock",
                          "join", "dead", "end"}]
    BY DEF Init
  <2>4. left \in [Workers -> Seq(Nat)] /\ added \in [Workers -> Nat] /\ last \in [Workers -> Nat]
    BY DEF Init
  <2> QED
    BY <2>1, <2>2, <2>3, <2>4 DEF TypeOK, Init
<1>2. Roles /\ Reads /\ Throttled
  BY ThresholdAssumption DEF Init, Roles, Reads, Throttled, Thread
<1>3. Account
  <2>1. Left = [w \in Workers |-> 0]
    <3>1. SumFunction(<<>>) = 0
      <4>1. DOMAIN <<>> = {}
        OBVIOUS
      <4> QED
        BY <4>1, SumOfNothing DEF SumFunction
    <3> QED
      BY <3>1 DEF Init, Left
  <2>2. SumFunctionOnSet(Left, Workers) = 0
    BY <2>1, SumOfZeros, WorkersAssumption
  <2>3. Busy = {}
    BY DEF Busy, Init, Thread
  <2>4. Cardinality(Busy) = 0 /\ Cardinality(Entries) \in Nat
    BY <2>3, FS_EmptySet, FS_CardinalityType, EntriesAssumption
  <2>5. SumFunctionOnSet(SizeOf, Entries) \in Nat
    BY SizeOfType, EntriesAssumption, SumType
  <2> QED
    BY <2>2, <2>4, <2>5 DEF Account, Init
<1>4. Reports
  BY DEF Init, Reports, Thread
<1> QED
  BY <1>1, <1>2, <1>3, <1>4 DEF IInv

(* Every step keeps the types.                                              *)
LEMMA TypeStep == TypeOK /\ [Next]_vars => TypeOK'
<1> SUFFICES ASSUME TypeOK, [Next]_vars PROVE TypeOK'
  OBVIOUS
<1> USE DEF TypeOK, Goto, Thread, counters, local, callback
<1>0. /\ processed_bytes \in Nat /\ processed_entries \in Nat /\ last_emit_bytes \in Nat
      /\ paid \in Nat /\ max_bytes \in Nat
  BY AllNat
<1>1. CASE SetTotals
  <2>1. TotalOf(Entries) \in Nat /\ Cardinality(Entries) \in Nat
    BY TotalOfIsSum, SizeOfType, SumType, EntriesAssumption, FS_CardinalityType
  <2> QED
    BY <1>1, <2>1 DEF SetTotals
<1>2. CASE Finish
  BY <1>2 DEF Finish
<1>3. ASSUME NEW t \in Thread, LoadBytes(t) PROVE TypeOK'
  BY ZenonT(40), <1>3 DEF LoadBytes
<1>4. ASSUME NEW t \in Thread, LoadEntries(t) PROVE TypeOK'
  BY ZenonT(40), <1>4 DEF LoadEntries
<1>5. ASSUME NEW t \in Thread, Call(t) PROVE TypeOK'
  <2>1. max_bytes' \in Nat /\ went_backwards' \in BOOLEAN
    BY <1>5, <1>0 DEF Call
  <2>2. pc' \in [Thread -> {"idle", "load", "loadEntries", "call", "work", "due", "cas", "clock",
                           "join", "dead", "end"}]
    BY <1>5 DEF Call
  <2> QED
    BY <1>5, <1>0, <2>1, <2>2, AllNat DEF Call
<1>6. ASSUME NEW w \in Workers, StartEntry(w) PROVE TypeOK'
  BY <1>6, SizeOfType DEF StartEntry
<1>7. ASSUME NEW w \in Workers, AddBytes(w) PROVE TypeOK'
  <2>1. Head(left[w]) \in Nat /\ left' \in [Workers -> Seq(Nat)]
    <3>1. left[w] \in Seq(Nat) /\ left[w] # <<>>
      BY <1>7 DEF AddBytes
    <3>2. Head(left[w]) \in Nat /\ Tail(left[w]) \in Seq(Nat)
      BY <3>1, HeadAndTail
    <3> QED
      BY <1>7, <3>2 DEF AddBytes
  <2>2. processed_bytes' \in Nat /\ added' \in [Workers -> Nat]
    BY SMTT(40), <1>7, <1>0, <2>1 DEF AddBytes
  <2> QED
    BY ZenonT(40), <1>7, <1>0, <2>1, <2>2, AllNat DEF AddBytes
<1>8. ASSUME NEW w \in Workers, FinishEntry(w) PROVE TypeOK'
  <2>1. processed_entries' \in Nat
    BY <1>8, <1>0 DEF FinishEntry
  <2> QED
    BY <1>8, <1>0, <2>1, AllNat DEF FinishEntry
<1>9. ASSUME NEW w \in Workers, FailEntry(w) PROVE TypeOK'
  BY <1>9 DEF FailEntry
<1>10. ASSUME NEW w \in Workers, LoadLast(w) PROVE TypeOK'
  BY <1>10 DEF LoadLast
<1>11. ASSUME NEW w \in Workers, ExchangeLast(w) PROVE TypeOK'
  <2>1. last_emit_bytes' \in Nat /\ paid' \in Nat
    BY SMTT(40), <1>11, <1>0 DEF ExchangeLast
  <2> QED
    BY ZenonT(40), <1>11, <1>0, <2>1, AllNat DEF ExchangeLast
<1>12. ASSUME NEW w \in Workers, Clock(w) PROVE TypeOK'
  BY <1>12 DEF Clock
<1>13. CASE UNCHANGED vars
  BY <1>13 DEF vars
<1> QED
  BY <1>1, <1>2, <1>3, <1>4, <1>5, <1>6, <1>7, <1>8, <1>9, <1>10, <1>11, <1>12, <1>13 DEF Next

(* Every step keeps the caller's and the workers' places in the code apart. *)
LEMMA RolesStep == TypeOK /\ Roles /\ [Next]_vars => Roles'
<1> SUFFICES ASSUME TypeOK, Roles, [Next]_vars PROVE Roles'
  OBVIOUS
<1> USE MainAssumption DEF Roles, Goto, Thread, counters, local, callback
<1>0. pc \in [Thread -> {"idle", "load", "loadEntries", "call", "work", "due", "cas", "clock",
                         "join", "dead", "end"}]
      /\ left \in [Workers -> Seq(Nat)]
  BY DEF TypeOK
<1>1. CASE SetTotals
  BY <1>0, <1>1 DEF SetTotals
<1>2. CASE Finish
  BY <1>0, <1>2 DEF Finish
<1>3. ASSUME NEW t \in Thread, LoadBytes(t) PROVE Roles'
  BY <1>0, <1>3 DEF LoadBytes
<1>4. ASSUME NEW t \in Thread, LoadEntries(t) PROVE Roles'
  BY <1>0, <1>4 DEF LoadEntries
<1>5. ASSUME NEW t \in Thread, Call(t) PROVE Roles'
  <2>1. CASE t \in Workers
    BY <1>0, <1>5, <2>1 DEF Call
  <2>2. CASE t = Main
    BY <1>0, <1>5, <2>2 DEF Call
  <2> QED
    BY <2>1, <2>2
<1>6. ASSUME NEW w \in Workers, StartEntry(w) PROVE Roles'
  BY <1>0, <1>6 DEF StartEntry
<1>7. ASSUME NEW w \in Workers, AddBytes(w) PROVE Roles'
  BY <1>0, <1>7 DEF AddBytes
<1>8. ASSUME NEW w \in Workers, FinishEntry(w) PROVE Roles'
  BY <1>0, <1>8 DEF FinishEntry
<1>9. ASSUME NEW w \in Workers, FailEntry(w) PROVE Roles'
  BY <1>0, <1>9 DEF FailEntry
<1>10. ASSUME NEW w \in Workers, LoadLast(w) PROVE Roles'
  BY <1>0, <1>10 DEF LoadLast
<1>11. ASSUME NEW w \in Workers, ExchangeLast(w) PROVE Roles'
  BY <1>0, <1>11 DEF ExchangeLast
<1>12. ASSUME NEW w \in Workers, Clock(w) PROVE Roles'
  BY <1>0, <1>12 DEF Clock
<1>13. CASE UNCHANGED vars
  BY <1>13 DEF vars
<1> QED
  BY <1>1, <1>2, <1>3, <1>4, <1>5, <1>6, <1>7, <1>8, <1>9, <1>10, <1>11, <1>12, <1>13 DEF Next

(* The counters only grow, and what a thread has read it has read before.  *)
LEMMA ReadsStep == TypeOK /\ Reads /\ Throttled /\ [Next]_vars => (Reads /\ Throttled)'
<1> SUFFICES ASSUME TypeOK, Reads, Throttled, [Next]_vars PROVE Reads' /\ Throttled'
  OBVIOUS
<1> DEFINE Seen(w) == /\ added[w] <= processed_bytes
                      /\ last[w] <= last_emit_bytes
                      /\ pc[w] = "cas" => added[w] >= last[w] + Threshold
           Told(t) == update[t].bytes <= processed_bytes /\ update[t].entries <= processed_entries
<1> USE ThresholdAssumption DEF Goto, Thread, counters, local, callback
<1>0. /\ processed_bytes \in Nat /\ processed_entries \in Nat /\ last_emit_bytes \in Nat
      /\ paid \in Nat /\ Threshold \in Nat
      /\ pc \in [Thread -> {"idle", "load", "loadEntries", "call", "work", "due", "cas", "clock",
                            "join", "dead", "end"}]
      /\ left \in [Workers -> Seq(Nat)]
      /\ added \in [Workers -> Nat] /\ last \in [Workers -> Nat]
      /\ update \in [Thread -> [bytes : Nat, entries : Nat]]
  BY AllNat DEF TypeOK
<1>00. (\A w \in Workers : Seen(w)) /\ (\A t \in Thread : Told(t))
  BY DEF Reads
<1>01. paid * Threshold <= last_emit_bytes /\ last_emit_bytes <= processed_bytes
  BY DEF Throttled
<1>02. (\A w \in Workers : Seen(w)') /\ (\A t \in Thread : Told(t)') => Reads'
  BY DEF Reads
<1>1. CASE SetTotals
  BY <1>0, <1>00, <1>01, <1>02, <1>1 DEF SetTotals, Throttled
<1>2. CASE Finish
  BY <1>0, <1>00, <1>01, <1>02, <1>2 DEF Finish, Throttled
<1>3. ASSUME NEW t \in Thread, LoadBytes(t) PROVE Reads' /\ Throttled'
  BY <1>0, <1>00, <1>01, <1>02, <1>3 DEF LoadBytes, Throttled
<1>4. ASSUME NEW t \in Thread, LoadEntries(t) PROVE Reads' /\ Throttled'
  BY <1>0, <1>00, <1>01, <1>02, <1>4 DEF LoadEntries, Throttled
<1>5. ASSUME NEW t \in Thread, Call(t) PROVE Reads' /\ Throttled'
  BY <1>0, <1>00, <1>01, <1>02, <1>5 DEF Call, Throttled
<1>6. ASSUME NEW w \in Workers, StartEntry(w) PROVE Reads' /\ Throttled'
  BY <1>0, <1>00, <1>01, <1>02, <1>6 DEF StartEntry, Throttled
<1>7. ASSUME NEW w \in Workers, AddBytes(w) PROVE Reads' /\ Throttled'
  <2>1. Head(left[w]) \in Nat
    BY <1>0, <1>7, HeadAndTail DEF AddBytes
  <2>2. /\ processed_bytes' \in Nat /\ processed_bytes' >= processed_bytes
        /\ added' = [added EXCEPT ![w] = processed_bytes']
        /\ UNCHANGED <<processed_entries, last_emit_bytes, last, update, paid>>
        /\ pc' = [pc EXCEPT ![w] = "due"]
    BY SMTT(40), <1>0, <1>7, <2>1 DEF AddBytes
  <2>3. Throttled'
    BY <1>0, <1>01, <2>2 DEF Throttled
  <2>4. \A v \in Workers : Seen(v)'
    BY SMTT(40), <1>0, <1>00, <2>2
  <2>5. \A t \in Thread : Told(t)'
    BY SMTT(40), <1>0, <1>00, <2>2
  <2> QED
    BY <1>02, <2>3, <2>4, <2>5
<1>8. ASSUME NEW w \in Workers, FinishEntry(w) PROVE Reads' /\ Throttled'
  BY <1>0, <1>00, <1>01, <1>02, <1>8 DEF FinishEntry, Throttled
<1>9. ASSUME NEW w \in Workers, FailEntry(w) PROVE Reads' /\ Throttled'
  BY <1>0, <1>00, <1>01, <1>02, <1>9 DEF FailEntry, Throttled
<1>10. ASSUME NEW w \in Workers, LoadLast(w) PROVE Reads' /\ Throttled'
  BY <1>0, <1>00, <1>01, <1>02, <1>10 DEF LoadLast, Throttled
<1>11. ASSUME NEW w \in Workers, ExchangeLast(w) PROVE Reads' /\ Throttled'
  <2>1. CASE last_emit_bytes = last[w]
    <3>1. added[w] >= last_emit_bytes + Threshold /\ added[w] \in Nat
      BY <1>0, <1>00, <1>11, <2>1 DEF ExchangeLast
    <3>2. (paid + 1) * Threshold = paid * Threshold + Threshold /\ paid * Threshold \in Nat
      BY <1>0
    <3>3. last_emit_bytes' = added[w] /\ paid' = paid + 1
      BY <1>11, <2>1 DEF ExchangeLast
    <3>4. Throttled'
      <4>1. paid' * Threshold <= added[w]
        BY <1>0, <1>01, <3>1, <3>2, <3>3
      <4>2. added[w] <= processed_bytes /\ processed_bytes' = processed_bytes
        BY <1>00, <1>11 DEF ExchangeLast
      <4> QED
        BY <3>3, <4>1, <4>2 DEF Throttled
    <3> QED
      BY SMTT(40), <1>0, <1>00, <1>01, <1>02, <1>11, <2>1, <3>1, <3>3, <3>4 DEF ExchangeLast
  <2>2. CASE last_emit_bytes # last[w]
    BY <1>0, <1>00, <1>01, <1>02, <1>11, <2>2 DEF ExchangeLast, Throttled
  <2> QED
    BY <2>1, <2>2
<1>12. ASSUME NEW w \in Workers, Clock(w) PROVE Reads' /\ Throttled'
  BY <1>0, <1>00, <1>01, <1>02, <1>12 DEF Clock, Throttled
<1>13. CASE UNCHANGED vars
  BY <1>00, <1>01, <1>02, <1>13 DEF vars, Throttled
<1> QED
  BY <1>1, <1>2, <1>3, <1>4, <1>5, <1>6, <1>7, <1>8, <1>9, <1>10, <1>11, <1>12, <1>13 DEF Next

-----------------------------------------------------------------------------
(* What is left of an entry's bytes is a number, for each worker.           *)
LEMMA LeftType == TypeOK => Left \in [Workers -> Nat]
<1> SUFFICES ASSUME TypeOK, NEW w \in Workers PROVE SumFunction(left[w]) \in Nat
  BY DEF Left
<1> QED
  BY SumOfSequenceType DEF TypeOK

(* Only the worker that steps changes what is left of its entry.            *)
LEMMA LeftChanges ==
  ASSUME TypeOK, NEW w \in Workers, NEW v \in Nat
  PROVE  /\ SumFunctionOnSet([Left EXCEPT ![w] = v], Workers) + Left[w] = SumFunctionOnSet(Left, Workers) + v
         /\ SumFunctionOnSet([Left EXCEPT ![w] = v], Workers) \in Nat
<1> DEFINE M == [Left EXCEPT ![w] = v]
<1>1. (\A u \in Workers : Left[u] \in Nat) /\ (\A u \in Workers \ {w} : M[u] = Left[u]) /\ M[w] = v
  BY LeftType
<1>2. \A u \in Workers : M[u] \in Nat
  BY <1>1
<1> HIDE DEF M
<1>3. SumFunctionOnSet(M, Workers) \in Nat
  BY <1>2, WorkersAssumption, SumType
<1>4. SumFunctionOnSet(M, Workers) + Left[w] = SumFunctionOnSet(Left, Workers) + M[w]
  BY <1>1, <1>2, WorkersAssumption, SumExcept
<1> QED
  BY <1>1, <1>3, <1>4 DEF M

(* The terms of the account are naturals.                                  *)
LEMMA AccountTypes ==
  TypeOK => /\ SumFunctionOnSet(Left, Workers) \in Nat
            /\ \A S \in SUBSET Entries : /\ IsFiniteSet(S) /\ Cardinality(S) \in Nat
                                         /\ SumFunctionOnSet(SizeOf, S) \in Nat
            /\ IsFiniteSet(Busy) /\ Cardinality(Busy) \in Nat
<1> SUFFICES ASSUME TypeOK
             PROVE  /\ SumFunctionOnSet(Left, Workers) \in Nat
                    /\ \A S \in SUBSET Entries : /\ IsFiniteSet(S) /\ Cardinality(S) \in Nat
                                                 /\ SumFunctionOnSet(SizeOf, S) \in Nat
                    /\ IsFiniteSet(Busy) /\ Cardinality(Busy) \in Nat
  OBVIOUS
<1>1. Left \in [Workers -> Nat] /\ DOMAIN Left = Workers
  BY LeftType
<1>2. SumFunctionOnSet(Left, Workers) \in Nat
  <2>1. \A w \in Workers : Left[w] \in Nat
    BY <1>1
  <2> HIDE DEF Left
  <2> QED
    BY <1>1, <2>1, WorkersAssumption, SumType DEF SumFunction
<1>3. ASSUME NEW S \in SUBSET Entries
      PROVE  /\ IsFiniteSet(S) /\ Cardinality(S) \in Nat
             /\ SumFunctionOnSet(SizeOf, S) \in Nat
  <2>1. IsFiniteSet(S) /\ \A e \in S : SizeOf[e] \in Nat
    BY EntriesAssumption, SizeOfType, FS_Subset
  <2> QED
    BY <2>1, FS_CardinalityType, SumType
<1>4. Busy \in SUBSET Workers
  BY DEF Busy
<1>5. IsFiniteSet(Busy) /\ Cardinality(Busy) \in Nat
  BY <1>4, WorkersAssumption, FS_Subset, FS_CardinalityType
<1> QED
  BY <1>2, <1>3, <1>5

(* Every step keeps the account of bytes: added, held by workers, and to come.*)
LEMMA AccountStep == TypeOK /\ Roles /\ Account /\ [Next]_vars => Account'
<1> SUFFICES ASSUME TypeOK, Roles, Account, [Next]_vars PROVE Account'
  OBVIOUS
<1> USE MainAssumption DEF Goto, Thread, counters, local, callback
<1>0. /\ processed_bytes \in Nat /\ processed_entries \in Nat /\ todo \in SUBSET Entries
      /\ pc \in [Thread -> {"idle", "load", "loadEntries", "call", "work", "due", "cas", "clock",
                            "join", "dead", "end"}]
      /\ left \in [Workers -> Seq(Nat)]
  BY AllNat DEF TypeOK
<1>00. /\ Left \in [Workers -> Nat] /\ SumFunctionOnSet(Left, Workers) \in Nat
       /\ SumFunctionOnSet(SizeOf, todo) \in Nat /\ SumFunctionOnSet(SizeOf, Entries) \in Nat
       /\ IsFiniteSet(todo) /\ Cardinality(todo) \in Nat /\ Cardinality(Entries) \in Nat
       /\ IsFiniteSet(Busy) /\ Cardinality(Busy) \in Nat
  BY <1>0, LeftType, AccountTypes
<1>01. ASSUME UNCHANGED <<processed_bytes, processed_entries, todo, left>>, Busy' = Busy PROVE Account'
  BY <1>01 DEF Account, Left
<1>1. CASE SetTotals
  <2>1. Busy' = Busy
    BY <1>0, <1>1 DEF SetTotals, Busy
  <2> QED
    BY <1>01, <1>1, <2>1 DEF SetTotals
<1>2. CASE Finish
  <2>1. Busy' = Busy
    BY <1>0, <1>2 DEF Finish, Busy
  <2> QED
    BY <1>01, <1>2, <2>1 DEF Finish
<1>3. ASSUME NEW t \in Thread, LoadBytes(t) PROVE Account'
  <2>1. Busy' = Busy
    BY <1>0, <1>3 DEF LoadBytes, Busy
  <2> QED
    BY <1>01, <1>3, <2>1 DEF LoadBytes
<1>4. ASSUME NEW t \in Thread, LoadEntries(t) PROVE Account'
  <2>1. Busy' = Busy
    BY <1>0, <1>4 DEF LoadEntries, Busy
  <2> QED
    BY <1>01, <1>4, <2>1 DEF LoadEntries
<1>5. ASSUME NEW t \in Thread, Call(t) PROVE Account'
  <2>1. Busy' = Busy
    BY <1>0, <1>5 DEF Call, Busy
  <2> QED
    BY <1>01, <1>5, <2>1 DEF Call
<1>6. ASSUME NEW w \in Workers, StartEntry(w) PROVE Account'
  <2>1. PICK e \in todo : todo' = todo \ {e} /\ left' = [left EXCEPT ![w] = Pieces[e]]
    BY <1>6 DEF StartEntry
  <2>2. Left' = [Left EXCEPT ![w] = SizeOf[e]] /\ SizeOf[e] \in Nat
    BY <1>0, <2>1, SizeOfType DEF Left, SizeOf
  <2>3. Left[w] = 0
    <3>1. left[w] = <<>> /\ DOMAIN <<>> = {}
      BY <1>6 DEF StartEntry, Roles
    <3> QED
      BY <3>1, SumOfNothing DEF Left, SumFunction
  <2>4. SumFunctionOnSet(Left', Workers) = SumFunctionOnSet(Left, Workers) + SizeOf[e] /\ SumFunctionOnSet(Left', Workers) \in Nat
    <3>1. /\ SumFunctionOnSet([Left EXCEPT ![w] = SizeOf[e]], Workers) + Left[w] = SumFunctionOnSet(Left, Workers) + SizeOf[e]
          /\ SumFunctionOnSet([Left EXCEPT ![w] = SizeOf[e]], Workers) \in Nat
      BY <2>2, LeftChanges
    <3> QED
      BY <2>2, <2>3, <3>1
  <2>5. SumFunctionOnSet(SizeOf, todo) = SizeOf[e] + SumFunctionOnSet(SizeOf, todo')
    BY <1>0, <1>00, <2>1, SizeOfType, SumWithout
  <2>6. SumFunctionOnSet(SizeOf, todo') \in Nat
    <3>1. todo' \in SUBSET Entries
      BY <1>0, <2>1
    <3> QED
      BY <3>1, AccountTypes
  <2>7. Busy' = Busy \cup {w} /\ w \notin Busy
    BY <1>0, <1>6 DEF StartEntry, Busy
  <2>8. Cardinality(Busy') = Cardinality(Busy) + 1 /\ Cardinality(todo') = Cardinality(todo) - 1
    BY <1>00, <2>1, <2>7, FS_AddElement, FS_RemoveElement
  <2>9. UNCHANGED <<processed_bytes, processed_entries>>
    BY <1>6 DEF StartEntry
  <2>10. /\ processed_bytes + SumFunctionOnSet(Left, Workers) + SumFunctionOnSet(SizeOf, todo)
              = SumFunctionOnSet(SizeOf, Entries)
         /\ processed_entries + Cardinality(Busy) + Cardinality(todo) = Cardinality(Entries)
    BY DEF Account
  <2>11. processed_bytes + SumFunctionOnSet(Left', Workers) + SumFunctionOnSet(SizeOf, todo')
           = SumFunctionOnSet(SizeOf, Entries)
    <3>1. \A a, b, c, d \in Nat : a + (b + c) + d = a + b + (c + d)
      OBVIOUS
    <3>2. processed_bytes + (SumFunctionOnSet(Left, Workers) + SizeOf[e]) + SumFunctionOnSet(SizeOf, todo')
            = processed_bytes + SumFunctionOnSet(Left, Workers) + (SizeOf[e] + SumFunctionOnSet(SizeOf, todo'))
      BY SMTT(40), <1>0, <1>00, <2>2, <2>6, <3>1
    <3> QED
      BY <2>4, <2>5, <2>10, <3>2
  <2>12. processed_entries + Cardinality(Busy') + Cardinality(todo') = Cardinality(Entries)
    BY SMTT(40), <1>0, <1>00, <2>8, <2>10
  <2> QED
    BY <2>9, <2>11, <2>12 DEF Account
<1>7. ASSUME NEW w \in Workers, AddBytes(w) PROVE Account'
  <2>1. /\ left' = [left EXCEPT ![w] = Tail(left[w])] /\ left[w] # <<>> /\ left[w] \in Seq(Nat)
        /\ processed_bytes' = processed_bytes + Head(left[w])
        /\ UNCHANGED <<processed_entries, todo>>
    BY <1>0, <1>7 DEF AddBytes
  <2>2. Busy' = Busy
    BY <1>0, <1>7 DEF AddBytes, Busy
  <2> DEFINE v == SumFunction(Tail(left[w]))
  <2>3. Left[w] = Head(left[w]) + v /\ Head(left[w]) \in Nat
    BY <2>1, SumOfTail, HeadAndTail DEF Left
  <2>4. Left' = [Left EXCEPT ![w] = v]
    BY <1>0, <2>1 DEF Left
  <2>5. v \in Nat
    <3>1. Tail(left[w]) \in Seq(Nat)
      BY <2>1, HeadAndTail
    <3> QED
      BY <3>1, SumOfSequenceType
  <2> HIDE DEF v
  <2>6. SumFunctionOnSet(Left', Workers) + Left[w] = SumFunctionOnSet(Left, Workers) + v /\ SumFunctionOnSet(Left', Workers) \in Nat
    <3>1. /\ SumFunctionOnSet([Left EXCEPT ![w] = v], Workers) + Left[w] = SumFunctionOnSet(Left, Workers) + v
          /\ SumFunctionOnSet([Left EXCEPT ![w] = v], Workers) \in Nat
      BY <2>5, LeftChanges
    <3> QED
      BY <2>4, <3>1
  <2>9. SumFunctionOnSet(Left', Workers) + Head(left[w]) = SumFunctionOnSet(Left, Workers)
    <3>1. \A a, b, c, d \in Nat : a + (b + c) = d + c => a + b = d
      OBVIOUS
    <3> QED
      BY <1>00, <2>3, <2>5, <2>6, <3>1
  <2>10. /\ processed_bytes + SumFunctionOnSet(Left, Workers) + SumFunctionOnSet(SizeOf, todo)
              = SumFunctionOnSet(SizeOf, Entries)
         /\ processed_entries + Cardinality(Busy) + Cardinality(todo) = Cardinality(Entries)
    BY DEF Account
  <2>11. (processed_bytes + Head(left[w])) + SumFunctionOnSet(Left', Workers) + SumFunctionOnSet(SizeOf, todo)
           = SumFunctionOnSet(SizeOf, Entries)
    <3>1. \A a, b, c, d \in Nat : (a + b) + c + d = a + (c + b) + d
      OBVIOUS
    <3>2. (processed_bytes + Head(left[w])) + SumFunctionOnSet(Left', Workers) + SumFunctionOnSet(SizeOf, todo)
            = processed_bytes + (SumFunctionOnSet(Left', Workers) + Head(left[w])) + SumFunctionOnSet(SizeOf, todo)
      BY <1>0, <1>00, <2>3, <2>6, <3>1
    <3> QED
      BY <2>9, <2>10, <3>2
  <2> QED
    BY <2>1, <2>2, <2>10, <2>11 DEF Account
<1>8. ASSUME NEW w \in Workers, FinishEntry(w) PROVE Account'
  <2>1. Busy' = Busy \ {w} /\ w \in Busy
    BY <1>0, <1>8 DEF FinishEntry, Busy
  <2>2. Cardinality(Busy') = Cardinality(Busy) - 1
    BY <1>00, <2>1, FS_RemoveElement
  <2>3. /\ UNCHANGED <<left, todo, processed_bytes>> /\ processed_entries' = processed_entries + 1
        /\ Left' = Left
    BY <1>8 DEF FinishEntry, Left
  <2>4. (processed_entries + 1) + Cardinality(Busy') + Cardinality(todo) = Cardinality(Entries)
    BY <1>0, <1>00, <2>2 DEF Account
  <2> QED
    BY <2>3, <2>4 DEF Account
<1>9. ASSUME NEW w \in Workers, FailEntry(w) PROVE Account'
  <2>1. Busy' = Busy
    BY <1>0, <1>9 DEF FailEntry, Busy
  <2> QED
    BY <1>01, <1>9, <2>1 DEF FailEntry
<1>10. ASSUME NEW w \in Workers, LoadLast(w) PROVE Account'
  <2>1. Busy' = Busy
    BY <1>0, <1>10 DEF LoadLast, Busy
  <2> QED
    BY <1>01, <1>10, <2>1 DEF LoadLast
<1>11. ASSUME NEW w \in Workers, ExchangeLast(w) PROVE Account'
  <2>1. Busy' = Busy
    BY <1>0, <1>11 DEF ExchangeLast, Busy
  <2> QED
    BY <1>01, <1>11, <2>1 DEF ExchangeLast
<1>12. ASSUME NEW w \in Workers, Clock(w) PROVE Account'
  <2>1. Busy' = Busy
    BY <1>0, <1>12 DEF Clock, Busy
  <2> QED
    BY <1>01, <1>12, <2>1 DEF Clock
<1>13. CASE UNCHANGED vars
  BY <1>01, <1>13 DEF vars, Busy
<1> QED
  BY <1>1, <1>2, <1>3, <1>4, <1>5, <1>6, <1>7, <1>8, <1>9, <1>10, <1>11, <1>12, <1>13 DEF Next

(* With no worker at an entry and none left to take, all has been counted; *)
(* with none taken, none is at an entry.                                   *)
LEMMA AllCounted ==
  ASSUME TypeOK, Roles, Account
  PROVE  /\ todo = {} /\ Busy = {} => /\ processed_bytes = SumFunctionOnSet(SizeOf, Entries)
                                      /\ processed_entries = Cardinality(Entries)
         /\ todo = Entries => Busy = {}
<1>1. /\ processed_bytes \in Nat /\ processed_entries \in Nat
      /\ Cardinality(Entries) \in Nat /\ IsFiniteSet(Busy) /\ Cardinality(Busy) \in Nat
      /\ SumFunctionOnSet(SizeOf, Entries) \in Nat
  BY AllNat, AccountTypes DEF TypeOK
<1>2. ASSUME todo = {}, Busy = {}
      PROVE  processed_bytes = SumFunctionOnSet(SizeOf, Entries) /\ processed_entries = Cardinality(Entries)
  <2>1. \A w \in Workers : left[w] = <<>>
    BY <1>2 DEF Busy, Roles
  <2>2. SumFunction(<<>>) = 0
    <3>1. DOMAIN <<>> = {}
      OBVIOUS
    <3> QED
      BY <3>1, SumOfNothing DEF SumFunction
  <2>3. Left = [w \in Workers |-> 0]
    BY <2>1, <2>2 DEF Left
  <2>4. SumFunctionOnSet(Left, Workers) = 0
    BY <2>3, WorkersAssumption, SumOfZeros
  <2>5. SumFunctionOnSet(SizeOf, todo) = 0 /\ Cardinality(todo) = 0 /\ Cardinality(Busy) = 0
    BY <1>2, SumOfNothing, FS_EmptySet
  <2> QED
    BY <1>1, <2>4, <2>5 DEF Account
<1>3. ASSUME todo = Entries PROVE Busy = {}
  <2>1. Cardinality(Busy) = 0
    BY <1>1, <1>3 DEF Account
  <2> QED
    BY <1>1, <2>1, FS_EmptySet
<1> QED
  BY <1>2, <1>3

(* Every step keeps what the last report said in step with the counters.    *)
LEMMA ReportsStep == TypeOK /\ Roles /\ Account /\ Reports /\ [Next]_vars => Reports'
<1> SUFFICES ASSUME TypeOK, Roles, Account, Reports, [Next]_vars PROVE Reports'
  OBVIOUS
<1> DEFINE Total == <<SumFunctionOnSet(SizeOf, Entries), Cardinality(Entries)>>
<1> USE MainAssumption DEF Goto, Thread, counters, local, callback
<1>0. /\ pc \in [Thread -> {"idle", "load", "loadEntries", "call", "work", "due", "cas", "clock",
                            "join", "dead", "end"}]
      /\ update \in [Thread -> [bytes : Nat, entries : Nat]]
      /\ failed \in BOOLEAN
  BY DEF TypeOK
<1>00. /\ pc[Main] # "idle" => totals = Total
       /\ pc[Main] = "idle" => todo = Entries
       /\ pc[Main] \in {"load", "loadEntries", "call"} =>
            todo = Entries \/ (todo = {} /\ ~failed /\ Busy = {})
       /\ pc[Main] = "loadEntries" /\ todo # Entries => update[Main].bytes = Whole.bytes
       /\ pc[Main] = "call" /\ todo # Entries => update[Main] = Whole
       /\ pc[Main] = "end" /\ ~failed => todo = {} /\ update[Main] = Whole
  BY DEF Reports
<1>01. pc[Main] \in {"load", "loadEntries", "call"} => Busy = {}
  BY <1>00, AllCounted
(* The steps of a worker leave the calling thread where it is, and while it *)
(* reports none of them is at an entry.                                     *)
<1>02. ASSUME UNCHANGED <<todo, totals>>, pc'[Main] = pc[Main], update'[Main] = update[Main],
              pc[Main] \notin {"load", "loadEntries", "call"}, failed \in BOOLEAN, failed => failed'
       PROVE  Reports'
  BY <1>00, <1>02 DEF Reports, Whole
<1>03. ASSUME NEW w \in Workers, pc[w] # "idle" PROVE pc[Main] \notin {"load", "loadEntries", "call"}
  BY <1>01, <1>03 DEF Busy
<1>04. Entries # {}
  BY EntriesAssumption
<1>1. CASE SetTotals
  <2>1. totals' = Total /\ pc[Main] = "idle" /\ pc'[Main] = "load" /\ todo' = todo
    BY <1>0, <1>1, TotalOfIsSum DEF SetTotals
  <2> QED
    BY <1>00, <2>1 DEF Reports
<1>2. CASE Finish
  <2>1. /\ pc[Main] = "join" /\ UNCHANGED <<todo, totals, update, failed>>
        /\ pc'[Main] = IF failed THEN "end" ELSE "load"
    BY <1>0, <1>2 DEF Finish
  <2>2. ~failed => todo = {} /\ Busy' = {}
    BY <1>0, <1>2 DEF Finish, Roles, Busy
  <2> QED
    BY <1>00, <2>1, <2>2 DEF Reports, Whole
<1>3. ASSUME NEW t \in Thread, LoadBytes(t) PROVE Reports'
  <2>1. /\ pc[t] = "load" /\ pc' = [pc EXCEPT ![t] = "loadEntries"]
        /\ update' = [update EXCEPT ![t].bytes = processed_bytes]
        /\ UNCHANGED <<todo, totals, failed>>
    BY <1>3 DEF LoadBytes
  <2>2. CASE t = Main
    <3>1. /\ pc[Main] = "load" /\ pc'[Main] = "loadEntries" /\ update'[Main].bytes = processed_bytes
          /\ Busy' = Busy
      BY <1>0, <2>1, <2>2 DEF Busy
    <3>2. todo # Entries => processed_bytes = Whole.bytes
      BY <1>00, <3>1, AllCounted DEF Whole
    <3> QED
      BY <1>00, <2>1, <3>1, <3>2 DEF Reports, Whole
  <2>3. CASE t \in Workers
    <3>1. pc'[Main] = pc[Main] /\ update'[Main] = update[Main] /\ pc[t] # "idle"
      BY <1>0, <2>1, <2>3
    <3> QED
      BY <1>0, <1>02, <1>03, <2>1, <2>3, <3>1
  <2> QED
    BY <2>2, <2>3
<1>4. ASSUME NEW t \in Thread, LoadEntries(t) PROVE Reports'
  <2>1. /\ pc[t] = "loadEntries" /\ pc' = [pc EXCEPT ![t] = "call"]
        /\ update' = [update EXCEPT ![t].entries = processed_entries]
        /\ UNCHANGED <<todo, totals, failed>>
    BY <1>4 DEF LoadEntries
  <2>2. CASE t = Main
    <3>1. /\ pc[Main] = "loadEntries" /\ pc'[Main] = "call"
          /\ update'[Main] = [bytes |-> update[Main].bytes, entries |-> processed_entries]
          /\ Busy' = Busy
      BY <1>0, <2>1, <2>2 DEF Busy
    <3>2. todo # Entries => update'[Main] = Whole
      BY <1>00, <3>1, AllCounted DEF Whole
    <3> QED
      BY <1>00, <2>1, <3>1, <3>2 DEF Reports, Whole
  <2>3. CASE t \in Workers
    <3>1. pc'[Main] = pc[Main] /\ update'[Main] = update[Main] /\ pc[t] # "idle"
      BY <1>0, <2>1, <2>3
    <3> QED
      BY <1>0, <1>02, <1>03, <2>1, <2>3, <3>1
  <2> QED
    BY <2>2, <2>3
<1>5. ASSUME NEW t \in Thread, Call(t) PROVE Reports'
  <2>1. pc[t] = "call" /\ UNCHANGED <<todo, totals, failed, update>>
    BY <1>5 DEF Call
  <2>2. CASE t = Main
    <3>1. pc[Main] = "call" /\ pc'[Main] = IF todo = Entries THEN "join" ELSE "end"
      BY <1>0, <1>5, <2>2 DEF Call
    <3> QED
      BY <1>00, <2>1, <3>1 DEF Reports, Whole
  <2>3. CASE t \in Workers
    <3>1. pc'[Main] = pc[Main] /\ pc[t] # "idle"
      BY <1>0, <1>5, <2>1, <2>3 DEF Call
    <3> QED
      BY <1>0, <1>02, <1>03, <2>1, <2>3, <3>1
  <2> QED
    BY <2>2, <2>3
<1>6. ASSUME NEW w \in Workers, StartEntry(w) PROVE Reports'
  <2>1. /\ pc[Main] = "join" /\ pc'[Main] = "join" /\ UNCHANGED <<totals>>
    BY <1>0, <1>6 DEF StartEntry
  <2> QED
    BY <1>00, <2>1 DEF Reports
<1>7. ASSUME NEW w \in Workers, AddBytes(w) PROVE Reports'
  BY <1>0, <1>02, <1>03, <1>7 DEF AddBytes
<1>8. ASSUME NEW w \in Workers, FinishEntry(w) PROVE Reports'
  BY <1>0, <1>02, <1>03, <1>8 DEF FinishEntry
<1>9. ASSUME NEW w \in Workers, FailEntry(w) PROVE Reports'
  BY <1>0, <1>02, <1>03, <1>9 DEF FailEntry
<1>10. ASSUME NEW w \in Workers, LoadLast(w) PROVE Reports'
  BY <1>0, <1>02, <1>03, <1>10 DEF LoadLast
<1>11. ASSUME NEW w \in Workers, ExchangeLast(w) PROVE Reports'
  BY <1>0, <1>02, <1>03, <1>11 DEF ExchangeLast
<1>12. ASSUME NEW w \in Workers, Clock(w) PROVE Reports'
  BY <1>0, <1>02, <1>03, <1>12 DEF Clock
<1>13. CASE UNCHANGED vars
  BY <1>00, <1>13 DEF vars, Reports, Whole, Busy
<1> QED
  BY <1>1, <1>2, <1>3, <1>4, <1>5, <1>6, <1>7, <1>8, <1>9, <1>10, <1>11, <1>12, <1>13 DEF Next

(* Every step keeps the invariant.                                          *)
LEMMA NextIInv == IInv /\ [Next]_vars => IInv'
BY TypeStep, RolesStep, ReadsStep, AccountStep, ReportsStep DEF IInv

-----------------------------------------------------------------------------
(* The invariant holds in every state of Reporter.                         *)
THEOREM Invariance == Spec => []IInv
BY InitIInv, NextIInv, PTL DEF Spec

(* The counters, updates and program points keep their types, however many *)
(* workers report.                                                         *)
THEOREM TypeCorrect == Spec => []TypeOK
<1>1. IInv => TypeOK
  BY DEF IInv
<1> QED
  BY Invariance, <1>1, PTL

(* However the workers race in should_emit, the reports that the byte      *)
(* threshold triggers are paid for by disjoint stretches of bytes, and     *)
(* last_emit_bytes never runs ahead of processed_bytes.                    *)
THEOREM ReportsAreThrottled == Spec => []Throttled
<1>1. IInv => Throttled
  BY DEF IInv
<1> QED
  BY Invariance, <1>1, PTL

(* What one thread hands to the callback never goes backwards.             *)
THEOREM ThreadsAreMonotone == Spec => ThreadMonotone
<1> DEFINE Step == \A t \in Thread : /\ update'[t].bytes >= update[t].bytes
                                     /\ update'[t].entries >= update[t].entries
<1>1. IInv /\ [Next]_vars => [Step]_vars
  <2> SUFFICES ASSUME IInv, Next PROVE Step
    OBVIOUS
  <2>1. /\ update \in [Thread -> [bytes : Nat, entries : Nat]]
        /\ \A t \in Thread : /\ update[t].bytes <= processed_bytes
                             /\ update[t].entries <= processed_entries
        /\ processed_bytes \in Nat /\ processed_entries \in Nat
    BY AllNat DEF IInv, TypeOK, Reads
  <2>2. ASSUME UNCHANGED update PROVE Step
    BY <2>1, <2>2
  <2>3. ASSUME NEW t \in Thread, LoadBytes(t) PROVE Step
    BY <2>1, <2>3 DEF LoadBytes
  <2>4. ASSUME NEW t \in Thread, LoadEntries(t) PROVE Step
    BY <2>1, <2>4 DEF LoadEntries
  <2> HIDE DEF Step
  <2> QED
    BY <2>2, <2>3, <2>4 DEF Next, SetTotals, Finish, Call, StartEntry, AddBytes, FinishEntry,
       FailEntry, LoadLast, ExchangeLast, Clock
<1> QED
  BY Invariance, <1>1, PTL DEF Spec, ThreadMonotone

(* An operation that succeeds ends with a report of every byte and every   *)
(* entry: nothing that a worker added is missing from the last update.     *)
THEOREM LastReportIsComplete == Spec => []LastReportComplete
<1>1. IInv => LastReportComplete
  BY DEF IInv, Reports, Whole, LastReportComplete
<1> QED
  BY Invariance, <1>1, PTL
===========================================================================
