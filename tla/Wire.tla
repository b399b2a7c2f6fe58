-------------------------------- MODULE Wire --------------------------------
(***************************************************************************)
(* What the codecs' modules share: a writer that puts fields on a wire, a  *)
(* wire that may lose its end or have a byte altered, and a reader that    *)
(* its caller calls again and again.  A field is one token; a wire that    *)
(* was cut may end in the first part of one.  Checksums are ideal: the     *)
(* token of a checksum holds what was summed.  Bytes are numbered by their *)
(* place in what the writer is given, so that no two are alike.  Last come *)
(* the windows that matches reach back into.                               *)
(***************************************************************************)
EXTENDS Naturals, Sequences, SequencesExt

VARIABLES
  codec,    \* whose writer and reader they are
  given,    \* the members that have been written, each a sequence of bytes
  writer,   \* the member being written
  wire,     \* tokens the reader has not taken
  damage,   \* "none", "cut", "altered" or "password", another than the writer's
  reader,   \* the state of the reader
  got,      \* the bytes its caller has been given
  last,     \* "writing", "ready", then what the reader's last call is about:
            \* "busy" during it, "data", "end" or "error" as its result
  refused   \* whether a call has had an error

vars == <<codec, given, writer, wire, damage, reader, got, last, refused>>

Token(t, v) == [t |-> t, v |-> v]
Part == Token("part", <<>>)
Data(bytes) == [i \in DOMAIN bytes |-> Token("data", <<bytes[i]>>)]
Sent == FlattenSeq(given) \o writer.data
Fresh(n) == [i \in 1 .. n |-> Len(Sent) + i]
Least(i, j) == IF i < j THEN i ELSE j
Most(i, j) == IF i > j THEN i ELSE j
After(s, n) == SubSeq(s, n + 1, Len(s))

(* After a member another may be written, or what has been written is read. *)
Closes(max) == last' \in {"ready"} \cup IF Len(given') < max THEN {"writing"} ELSE {}

(* A wire loses its end, in the middle of a token or between two; where     *)
(* nothing is missed, no damage is done.                                    *)
Cut(Misses(_, _)) ==
  /\ last = "ready" /\ damage = "none"
  /\ \E i \in 0 .. Len(wire) - 1, midway \in BOOLEAN :
       /\ Misses(i, midway)
       /\ wire' = SubSeq(wire, 1, i) \o IF midway THEN <<Part>> ELSE <<>>
  /\ damage' = "cut"
  /\ UNCHANGED <<codec, given, writer, reader, got, last, refused>>

Alter ==
  /\ last = "ready" /\ damage = "none"
  /\ \E i \in DOMAIN wire : wire[i].t = "data" /\ wire' = [wire EXCEPT ![i].v = <<0>>]
  /\ damage' = "altered"
  /\ UNCHANGED <<codec, given, writer, reader, got, last, refused>>

(* The caller of read: it may call again after an end and after an error.   *)
Call ==
  /\ last \in {"ready", "data", "end", "error"}
  /\ last' = "busy"
  /\ UNCHANGED <<codec, given, writer, wire, damage, reader, got, refused>>

Goes == last = "busy" /\ UNCHANGED <<codec, given, writer, damage>>
On == UNCHANGED <<got, last, refused>>
Gives(bytes) == got' = got \o bytes /\ last' = "data" /\ UNCHANGED refused
Ends == last' = "end" /\ UNCHANGED <<got, refused>>
Fails == last' = "error" /\ refused' = TRUE /\ UNCHANGED got

-----------------------------------------------------------------------------
(* The bytes that matches reach back into: in a decoder the window that     *)
(* holds what it has put out, in an encoder the buffer that holds what it   *)
(* was given.                                                               *)

Minus(i, j) == IF i > j THEN i - j ELSE 0

NewWindow(dict) == [buf |-> <<>>, read |-> 0, floor |-> 0, total |-> 0, dict |-> dict]

Pending(w) == Len(w.buf) - w.read
History(w) == Len(w.buf) - w.floor

ResetDictionary(w) == [w EXCEPT !.floor = Len(w.buf)]
Extended(w, bytes) == [w EXCEPT !.buf = @ \o bytes, !.total = @ + Len(bytes)]
Since(w, from) == SubSeq(w.buf, Len(w.buf) - (w.total - from) + 1, Len(w.buf))
Taken(w, n) == [w EXCEPT !.read = @ + n]
Untaken(w, n) == SubSeq(w.buf, w.read + 1, w.read + n)

(* Mutant: what has been taken is dropped.                                  *)
DrainedOfTaken(w, threshold) ==
  IF w.read < threshold THEN w
  ELSE [w EXCEPT !.buf = SubSeq(@, w.read + 1, Len(@)), !.read = 0, !.floor = Minus(@, w.read)]

(* What has been taken and no match may reach is dropped, when there is     *)
(* enough of it.                                                            *)
Drained(w, threshold) ==
  LET removable == Least(w.read, Len(w.buf) - Least(w.dict, History(w)))
  IN  IF removable < threshold THEN w
      ELSE [w EXCEPT !.buf = SubSeq(@, removable + 1, Len(@)), !.read = @ - removable, !.floor = Minus(@, removable)]

Reaches(w, distance) == distance > 0 /\ distance <= History(w)
Copied(w, distance, length) ==
  FoldLeft(LAMBDA v, i : Extended(v, <<v.buf[Len(v.buf) - distance + 1]>>), w, [i \in 1 .. length |-> i])

(* The base of an encoder's buffer that holds bytes base + 1 to end.        *)
Retained(base, end, at, keep, slack) ==
  IF Minus(at, keep) <= base \/ end - base < keep + slack THEN base ELSE Minus(at, keep)
=============================================================================
