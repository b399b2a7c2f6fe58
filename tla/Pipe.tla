-------------------------------- MODULE Pipe --------------------------------
(***************************************************************************)
(* What every codec promises, whatever it does to the bytes on their way:  *)
(* a reader gives the bytes of the writer in their order, each once, and   *)
(* says that they have ended when all have been given.  Of what was        *)
(* damaged on its way nothing is promised but that it may be refused.      *)
(***************************************************************************)
EXTENDS Naturals, Sequences

VARIABLES sent, got, damaged, last

pipe_vars == <<sent, got, damaged, last>>

PipeInit == sent = <<>> /\ got = <<>> /\ ~damaged /\ last = "writing"

IsStartOf(s, t) == Len(s) <= Len(t) /\ SubSeq(t, 1, Len(s)) = s

Send ==
  /\ last = "writing" /\ last' \in {"writing", "ready"}
  /\ IsStartOf(sent, sent')
  /\ UNCHANGED <<got, damaged>>

Damage == last = "ready" /\ ~damaged /\ damaged' /\ UNCHANGED <<sent, got, last>>

Call == last # "writing" /\ last' = "busy" /\ UNCHANGED <<sent, got, damaged>>

Receive ==
  /\ last = "busy" /\ last' = "data"
  /\ Len(got') > Len(got) /\ IsStartOf(got, got')
  /\ damaged \/ IsStartOf(got', sent)
  /\ UNCHANGED <<sent, damaged>>

(* An end is told more than once, and the first time it is told all of an  *)
(* undamaged stream has been given.                                         *)
End == last = "busy" /\ last' = "end" /\ (damaged \/ got = sent) /\ UNCHANGED <<sent, got, damaged>>

Refuse == last = "busy" /\ damaged /\ last' = "error" /\ UNCHANGED <<sent, got, damaged>>

PipeNext == Send \/ Damage \/ Call \/ Receive \/ End \/ Refuse

PipeSpec == PipeInit /\ [][PipeNext]_pipe_vars
=============================================================================
