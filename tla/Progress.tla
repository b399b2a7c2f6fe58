------------------------------ MODULE Progress ------------------------------
(***************************************************************************)
(* utils::progress::Reporter, shared by the workers of one operation.  A    *)
(* worker announces an entry, adds the bytes of its pieces and finishes it; *)
(* the calling thread sets the totals before the workers start and reports  *)
(* once more after they have joined.  An update is put together from        *)
(* separate relaxed loads and handed to the callback with no lock held.     *)
(*                                                                          *)
(* A piece is what one add_bytes call adds: a buffer of a large entry, or a *)
(* whole small file.  The clock of should_emit is a free choice.            *)
(***************************************************************************)
EXTENDS Integers, Sequences, FiniteSets, FiniteSetsExt, Functions

CONSTANTS
  Workers,    \* worker threads
  Main,       \* the calling thread
  Entries,    \* entries of the archive
  Pieces,     \* Pieces[e]: the sizes that are added for entry e, in order
  Threshold   \* BYTE_THRESHOLD

ASSUME MainAssumption == Main \notin Workers
ASSUME WorkersAssumption == IsFiniteSet(Workers)
ASSUME EntriesAssumption == Entries # {} /\ IsFiniteSet(Entries)
ASSUME PiecesAssumption == Pieces \in [Entries -> Seq(Nat)]
ASSUME ThresholdAssumption == Threshold \in Nat \ {0}

VARIABLES
  pc,               \* where each thread is
  todo,             \* entries no worker has taken
  left,             \* pieces each worker has still to add
  processed_bytes, processed_entries, last_emit_bytes,    \* AtomicU64s
  totals,           \* <<total_bytes, total_entries>>
  added,            \* `processed` in each thread's add_bytes
  last,             \* `last` in each thread's should_emit
  update,           \* the ProgressUpdate each thread handed over last
  failed,           \* an entry failed
  paid,             \* updates sent because of BYTE_THRESHOLD
  max_bytes, went_backwards    \* kept by the callback of tests/progress.rs

vars == <<pc, todo, left, processed_bytes, processed_entries, last_emit_bytes, totals, added, last,
          update, failed, paid, max_bytes, went_backwards>>
local == <<added, last>>
counters == <<processed_bytes, processed_entries, last_emit_bytes, totals>>
callback == <<max_bytes, went_backwards>>

Thread == Workers \cup {Main}

TotalOf(S) == MapThenSumSet(LAMBDA e : SumFunction(Pieces[e]), S)

TypeOK ==
  /\ pc \in [Thread -> {"idle", "load", "loadEntries", "call", "work", "due", "cas", "clock",
                        "join", "dead", "end"}]
  /\ todo \subseteq Entries
  /\ left \in [Workers -> Seq(Nat)]
  /\ {processed_bytes, processed_entries, last_emit_bytes, paid, max_bytes} \subseteq Nat
  /\ totals \in Nat \X Nat
  /\ added \in [Workers -> Nat] /\ last \in [Workers -> Nat]
  /\ update \in [Thread -> [bytes : Nat, entries : Nat]]
  /\ failed \in BOOLEAN /\ went_backwards \in BOOLEAN

Init ==
  /\ pc = [t \in Thread |-> "idle"]
  /\ todo = Entries
  /\ left = [w \in Workers |-> <<>>]
  /\ processed_bytes = 0 /\ processed_entries = 0 /\ last_emit_bytes = 0
  /\ totals = <<0, 0>>
  /\ added = [w \in Workers |-> 0] /\ last = [w \in Workers |-> 0]
  /\ update = [t \in Thread |-> [bytes |-> 0, entries |-> 0]]
  /\ failed = FALSE /\ paid = 0
  /\ max_bytes = 0 /\ went_backwards = FALSE

Goto(t, here, there) == pc[t] = here /\ pc' = [pc EXCEPT ![t] = there]

-----------------------------------------------------------------------------
(* emit, by any thread.                                                     *)

LoadBytes(t) ==
  /\ Goto(t, "load", "loadEntries")
  /\ update' = [update EXCEPT ![t].bytes = processed_bytes]
  /\ UNCHANGED <<todo, left, counters, local, failed, paid, callback>>

LoadEntries(t) ==
  /\ Goto(t, "loadEntries", "call")
  /\ update' = [update EXCEPT ![t].entries = processed_entries]
  /\ UNCHANGED <<todo, left, counters, local, failed, paid, callback>>

(* on_progress, with the callback that the tests install.                   *)
Call(t) ==
  /\ \/ t \in Workers /\ Goto(t, "call", "work")
     \/ t = Main /\ Goto(t, "call", IF todo = Entries THEN "join" ELSE "end")
  /\ went_backwards' = (went_backwards \/ update[t].bytes < max_bytes)
  /\ max_bytes' = IF update[t].bytes > max_bytes THEN update[t].bytes ELSE max_bytes
  /\ UNCHANGED <<todo, left, counters, local, update, failed, paid>>

-----------------------------------------------------------------------------
(* The calling thread.                                                      *)

SetTotals ==
  /\ Goto(Main, "idle", "load")
  /\ totals' = <<TotalOf(Entries), Cardinality(Entries)>>
  /\ UNCHANGED <<todo, left, processed_bytes, processed_entries, last_emit_bytes, local, update,
                 failed, paid, callback>>

(* The workers have joined: an error ends the operation without a report.   *)
Finish ==
  /\ failed \/ todo = {}
  /\ \A w \in Workers : pc[w] \in {"idle", "dead"}
  /\ Goto(Main, "join", IF failed THEN "end" ELSE "load")
  /\ UNCHANGED <<todo, left, counters, local, update, failed, paid, callback>>

-----------------------------------------------------------------------------
(* A worker.                                                                *)

StartEntry(w) ==
  /\ pc[Main] = "join" /\ ~failed
  /\ \E e \in todo :
       /\ todo' = todo \ {e}
       /\ left' = [left EXCEPT ![w] = Pieces[e]]
  /\ Goto(w, "idle", "load")
  /\ UNCHANGED <<counters, local, update, failed, paid, callback>>

(* Mutant: a load and a store in place of fetch_add.                        *)
AddBytesLoadStore(w) ==
  /\ left[w] # <<>>
  /\ Goto(w, "work", "due")
  /\ left' = [left EXCEPT ![w] = Tail(@)]
  /\ \E v \in 0 .. processed_bytes :
       /\ v >= added[w]
       /\ processed_bytes' = v + Head(left[w])
  /\ added' = [added EXCEPT ![w] = processed_bytes']
  /\ UNCHANGED <<todo, processed_entries, last_emit_bytes, totals, last, update, failed, paid, callback>>

AddBytes(w) ==
  /\ left[w] # <<>>
  /\ Goto(w, "work", "due")
  /\ left' = [left EXCEPT ![w] = Tail(@)]
  /\ processed_bytes' = processed_bytes + Head(left[w])
  /\ added' = [added EXCEPT ![w] = processed_bytes']
  /\ UNCHANGED <<todo, processed_entries, last_emit_bytes, totals, last, update, failed, paid, callback>>

(* Mutant: the difference is kept instead, and does not saturate.           *)
LoadDifference(w) ==
  /\ last' = [last EXCEPT ![w] = last_emit_bytes]
  /\ added' = [added EXCEPT ![w] = @ - last_emit_bytes]
  /\ Goto(w, "due", IF added'[w] >= Threshold THEN "cas" ELSE "clock")
  /\ UNCHANGED <<todo, left, counters, update, failed, paid, callback>>

(* should_emit: the saturating difference to the last report ...            *)
LoadLast(w) ==
  /\ last' = [last EXCEPT ![w] = last_emit_bytes]
  /\ Goto(w, "due", IF added[w] >= last_emit_bytes + Threshold THEN "cas" ELSE "clock")
  /\ UNCHANGED <<todo, left, counters, added, update, failed, paid, callback>>

(* Mutant: a plain store of the new value.                                  *)
StoreLast(w) ==
  /\ Goto(w, "cas", "load")
  /\ last_emit_bytes' = added[w] /\ paid' = paid + 1
  /\ UNCHANGED <<todo, left, processed_bytes, processed_entries, totals, local, update, failed, callback>>

(* ... then the compare_exchange that lets one of the racing workers report *)
ExchangeLast(w) ==
  /\ \/ /\ last_emit_bytes = last[w]
        /\ Goto(w, "cas", "load")
        /\ last_emit_bytes' = added[w] /\ paid' = paid + 1
     \/ /\ last_emit_bytes # last[w]
        /\ Goto(w, "cas", "clock")
        /\ UNCHANGED <<last_emit_bytes, paid>>
  /\ UNCHANGED <<todo, left, processed_bytes, processed_entries, totals, local, update, failed, callback>>

(* ... or the 16 ms that may have passed.                                   *)
Clock(w) ==
  /\ \/ Goto(w, "clock", "load")
     \/ Goto(w, "clock", "work")
  /\ UNCHANGED <<todo, left, counters, local, update, failed, paid, callback>>

FinishEntry(w) ==
  /\ left[w] = <<>>
  /\ Goto(w, "work", "idle")
  /\ processed_entries' = processed_entries + 1
  /\ UNCHANGED <<todo, left, processed_bytes, last_emit_bytes, totals, local, update, failed, paid, callback>>

FailEntry(w) ==
  /\ Goto(w, "work", "dead")
  /\ failed' = TRUE
  /\ UNCHANGED <<todo, left, counters, local, update, paid, callback>>

Next ==
  \/ SetTotals \/ Finish
  \/ \E t \in Thread : LoadBytes(t) \/ LoadEntries(t) \/ Call(t)
  \/ \E w \in Workers :
       \/ StartEntry(w) \/ AddBytes(w) \/ FinishEntry(w) \/ FailEntry(w)
       \/ LoadLast(w) \/ ExchangeLast(w) \/ Clock(w)

Spec == Init /\ [][Next]_vars

-----------------------------------------------------------------------------
(* However the workers race, each report that the byte threshold triggers   *)
(* is paid for by a full threshold of bytes that no other report counted.   *)
Throttled ==
  /\ paid * Threshold <= last_emit_bytes
  /\ last_emit_bytes <= processed_bytes

(* What one thread reports never goes backwards.                            *)
ThreadMonotone ==
  [][\A t \in Thread : /\ update'[t].bytes >= update[t].bytes
                       /\ update'[t].entries >= update[t].entries]_vars

(* An operation that succeeds ends with a report of everything: the workers *)
(* have joined, so the last loads see every add.                            *)
LastReportComplete ==
  pc[Main] = "end" /\ ~failed =>
    /\ todo = {}
    /\ update[Main] = [bytes |-> totals[1], entries |-> totals[2]]

(* tests/progress.rs asserts of every run that processed_bytes never goes   *)
(* backwards from one callback to the next.                                 *)
NeverBackwards == ~went_backwards
=============================================================================
