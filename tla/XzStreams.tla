----------------------------- MODULE XzStreams ------------------------------
(***************************************************************************)
(* xz: streams of blocks, padded to four bytes, with an index and a footer *)
(* after them; in a block the chunks of LZMA2, which are stored or packed, *)
(* and each of which says what of the decoder's state it starts anew.      *)
(*                                                                         *)
(* A chunk is <<control, state, symbols>>: control 0 ends the block, 1 and *)
(* 2 are stored, 3 to 6 packed with resets 0 to 3; state is where the      *)
(* encoder's state was last fresh, for the decoder's must be as old.  A    *)
(* symbol is a byte, or Match + d for the byte d back.                     *)
(***************************************************************************)
EXTENDS Wire

CONSTANTS
  CHUNK, RESERVE,   \* as of an LZMA writer
  DICT,             \* bytes back that a match may reach
  Slack,            \* bytes a sliding buffer has beyond what it keeps
  Threshold,        \* bytes a window drops at least when it drops some
  Radix,            \* numbers that take one byte in an index
  MaxData, MaxMembers

Match == 100
ByteAt(i) == 1 + (i % 2)
Pad(n) == (4 - (n % 4)) % 4
Varint(n) == IF n < Radix THEN 1 ELSE 2

XInit ==
  /\ codec = "xz"
  /\ given = <<>> /\ wire = <<>> /\ damage = "none" /\ got = <<>> /\ last = "writing" /\ refused = FALSE
  /\ \E flags \in {0, 1} :
       writer = [data |-> <<>>, at |-> 0, base |-> 0, first |-> TRUE, fresh_state |-> TRUE, fresh |-> 1,
                 flags |-> flags, written |-> 0, index |-> <<>>, open |-> "no"]
  /\ reader = [stage |-> "header"]

-----------------------------------------------------------------------------
(* The writer                                                               *)

Unwritten == UNCHANGED <<codec, damage, reader, got, refused>>

(* The program always sums; others may not.                                 *)
StartStream ==
  /\ last = "writing" /\ writer.open = "no" /\ Len(given) < MaxMembers
  /\ writer' = [writer EXCEPT !.open = "stream", !.index = <<>>]
  /\ \E zeros \in IF given = <<>> THEN {0} ELSE {0, 1} :
       wire' = wire \o [i \in 1 .. zeros |-> Token("zeros", <<>>)] \o <<Token("stream", <<writer.flags>>)>>
  /\ UNCHANGED <<given, last>> /\ Unwritten

NewChunks(w) == [w EXCEPT !.data = <<>>, !.at = 0, !.base = 0, !.first = TRUE, !.fresh_state = TRUE, !.fresh = 1]

(* The program writes one block to a stream, others write several.          *)
StartBlock ==
  /\ last = "writing" /\ writer.open = "stream" /\ Len(given) < MaxMembers
  /\ writer' = [NewChunks(writer) EXCEPT !.open = "block", !.written = 0]
  /\ wire' = Append(wire, Token("block", <<>>))
  /\ UNCHANGED <<given, last>> /\ Unwritten

Symbol(data, i) == IF i > DICT THEN Match + DICT ELSE data[i]

(* A chunk is packed where that is shorter; its resets depend on the chunks *)
(* before it, and a stored one leaves the encoder as new.                   *)
Control(w, packs) ==
  IF packs THEN 3 + (IF w.first THEN 3 ELSE IF w.fresh_state THEN 2 ELSE 0)
  ELSE IF w.first THEN 1 ELSE 2

Width(control, n) == IF control = 0 THEN 1 ELSE IF control < 3 THEN 3 + n ELSE IF control < 5 THEN 4 + n ELSE 5 + n

Due(w, final) ==
  LET available == Len(w.data) - w.at
  IN  IF final THEN Least(available, CHUNK) ELSE IF available >= CHUNK + RESERVE THEN CHUNK ELSE 0

(* When no chunk is due any more the buffer lets go of what no match can    *)
(* reach.                                                                   *)
Rested(w, final) ==
  IF Due(w, final) > 0 THEN w ELSE [w EXCEPT !.base = Retained(@, Len(w.data), w.at, DICT + 1, Slack)]

Chunk(w, end, packs, final) ==
  LET control == Control(w, packs)
      fresh == IF w.fresh_state THEN w.at + 1 ELSE w.fresh
      body == [i \in 1 .. end - w.at |-> IF packs THEN Symbol(w.data, w.at + i) ELSE w.data[w.at + i]]
  IN  /\ wire' = Append(wire, Token("chunk", <<control, fresh>> \o body))
      /\ writer' = Rested([w EXCEPT !.at = end, !.first = FALSE, !.fresh_state = ~packs, !.fresh = fresh,
                                    !.written = @ + Width(control, end - w.at)], final)

Push(n) ==
  /\ last = "writing" /\ writer.open = "block" /\ Len(Sent) + n <= MaxData
  /\ Due(writer, FALSE) = 0
  /\ writer' = Rested([writer EXCEPT !.data = @ \o [i \in 1 .. n |-> ByteAt(Len(writer.data) + i)]], FALSE)
  /\ UNCHANGED <<given, wire, last>> /\ Unwritten

(* The rest of push, and of finish: a chunk at a time.                      *)
Drain(final) ==
  /\ last = "writing" /\ writer.open = IF final THEN "finish" ELSE "block"
  /\ Due(writer, final) > 0
  /\ \E packs \in IF Due(writer, final) > 1 THEN BOOLEAN ELSE {FALSE} :
       Chunk(writer, writer.at + Due(writer, final), packs, final)
  /\ UNCHANGED <<given, last>> /\ Unwritten

FinishBlock ==
  /\ last = "writing" /\ writer.open = "block" /\ Due(writer, FALSE) = 0
  /\ writer' = [writer EXCEPT !.open = "finish"]
  /\ UNCHANGED <<given, wire, last>> /\ Unwritten

(* Padding and checksum; where there is neither, nothing.                   *)
Check(flags, count, data) ==
  IF flags = 0 /\ Pad(count) = 0 THEN <<>> ELSE <<Token("check", <<Pad(count)>> \o IF flags = 1 THEN data ELSE <<>>)>>

EndBlock ==
  LET count == writer.written + 1
  IN  /\ last = "writing" /\ writer.open = "finish" /\ writer.at = Len(writer.data)
      /\ wire' = wire \o <<Token("chunk", <<0, 0>>)>> \o Check(writer.flags, count, writer.data)
      /\ given' = Append(given, writer.data)
      /\ writer' = [writer EXCEPT !.open = "stream", !.index = @ \o <<12 + count + 8, Len(writer.data)>>, !.data = <<>>, !.at = 0, !.base = 0]
      /\ UNCHANGED last /\ Unwritten

IndexLen(numbers) == 2 + FoldLeft(LAMBDA n, number : n + Varint(number), 0, numbers)

EndStream ==
  /\ last = "writing" /\ writer.open = "stream" /\ writer.index # <<>>
  /\ wire' = wire \o <<Token("index", <<Pad(IndexLen(writer.index))>> \o writer.index), Token("footer", <<writer.flags>>)>>
  /\ writer' = [writer EXCEPT !.open = "no"]
  /\ UNCHANGED given /\ Closes(MaxMembers) /\ Unwritten

-----------------------------------------------------------------------------
(* The reader                                                               *)

At(stage) == Goes /\ reader.stage = stage
Next1 == IF wire = <<>> THEN "nothing" ELSE Head(wire).t
Takes(n) == wire' = After(wire, n)
Fail == Fails /\ reader' = [stage |-> "failed"] /\ UNCHANGED wire

ReadStreamHeader ==
  /\ At("header")
  /\ CASE Next1 = "nothing" -> Ends /\ reader' = [stage |-> "done"] /\ UNCHANGED wire
       [] Next1 = "zeros" -> On /\ Takes(1) /\ UNCHANGED reader
       [] Next1 = "stream" -> On /\ Takes(1) /\ reader' = [stage |-> "between", flags |-> Head(wire).v[1]]
       [] OTHER -> Fail

NewDecoder(flags) ==
  [stage |-> "block", flags |-> flags, sum |-> <<>>, count |-> 0, window |-> NewWindow(DICT),
   core |-> 0, props |-> FALSE, started |-> FALSE, after_stored |-> FALSE, finished |-> FALSE]

StartReadingBlock == At("between") /\ Next1 = "block" /\ On /\ Takes(1) /\ reader' = NewDecoder(reader.flags)

(* The index is read for its length alone.                                  *)
FinishStream ==
  /\ At("between") /\ Next1 # "block"
  /\ IF Next1 = "index" /\ Len(wire) > 1 /\ wire[1].v[1] = Pad(IndexLen(Tail(wire[1].v))) /\ wire[2] = Token("footer", <<reader.flags>>)
     THEN On /\ Takes(2) /\ reader' = [stage |-> "header"]
     ELSE Fail

Take ==
  /\ At("block") /\ Pending(reader.window) > 0
  /\ \E n \in 1 .. Pending(reader.window) :
       /\ Gives(Untaken(reader.window, n))
       /\ reader' = [reader EXCEPT !.window = Taken(@, n), !.sum = @ \o Untaken(reader.window, n)]
  /\ UNCHANGED wire

(* What symbols decode to; a match that reaches past the history has none.  *)
CanDecode(w, symbols) == \A i \in DOMAIN symbols : symbols[i] > Match => symbols[i] - Match <= History(w) + i - 1
Decoded(w, symbols) ==
  FoldLeft(LAMBDA v, s : IF s > Match THEN Copied(v, s - Match, 1) ELSE Extended(v, <<s>>), w, symbols)

(* The states a chunk leaves, from the control byte and what came before.   *)
Known(control) == control >= 5 \/ reader.props
Allowed(control) ==
  CASE control = 2 -> reader.started
    [] control >= 3 -> /\ Known(control)
                       /\ ~(reader.after_stored /\ control = 3 /\ reader.core = 0)
                       /\ reader.started \/ control = 6
    [] OTHER -> TRUE

Core(control, w) == IF control >= 4 \/ reader.core = 0 THEN w.total + 1 ELSE reader.core

ReadChunk ==
  LET w == Drained(reader.window, Threshold)
      v == Head(wire).v
      body == SubSeq(v, 3, Len(v))
      window == IF v[1] \in {1, 6} THEN ResetDictionary(w) ELSE w
      counted == [reader EXCEPT !.count = @ + Width(v[1], Len(body)), !.started = TRUE]
  IN  /\ At("block") /\ Pending(reader.window) = 0 /\ ~reader.finished /\ Next1 = "chunk"
      /\ IF v[1] = 0 THEN On /\ Takes(1) /\ reader' = [reader EXCEPT !.finished = TRUE, !.count = @ + 1, !.window = w]
         ELSE IF ~Allowed(v[1]) THEN Fail
         ELSE IF v[1] < 3
         THEN /\ On /\ Takes(1)
              /\ reader' = [counted EXCEPT !.window = Extended(window, body), !.after_stored = TRUE,
                                           !.core = IF v[1] = 1 THEN 0 ELSE @, !.props = @ /\ v[1] # 1]
         ELSE IF ~CanDecode(window, body) THEN Fail
         ELSE /\ On /\ Takes(1)
              /\ reader' = [counted EXCEPT !.after_stored = FALSE, !.props = TRUE, !.core = Core(v[1], w),
                              !.window = IF Core(v[1], w) = v[2] THEN Decoded(window, body)
                                         ELSE Extended(window, [i \in DOMAIN body |-> 0])]

(* Where the wire ends, a chunk that has not begun ends the block; one that *)
(* has is refused, or decodes to what zeros would.                          *)
MissChunk ==
  /\ At("block") /\ Pending(reader.window) = 0 /\ ~reader.finished
  /\ \/ /\ Next1 = "nothing" /\ On /\ UNCHANGED wire
        /\ reader' = [reader EXCEPT !.finished = TRUE, !.window = Drained(reader.window, Threshold)]
     \/ Next1 = "part" /\ Fail
     \/ /\ Next1 = "part" /\ On /\ Takes(1)
        /\ reader' = [reader EXCEPT !.started = TRUE, !.window = Extended(Drained(reader.window, Threshold), <<0>>)]

FinishReadingBlock ==
  LET check == Check(reader.flags, reader.count, reader.sum)
  IN  /\ At("block") /\ Pending(reader.window) = 0 /\ reader.finished
      /\ IF check = <<>> \/ (Next1 = "check" /\ <<Head(wire)>> = check)
         THEN On /\ Takes(Len(check)) /\ reader' = [stage |-> "between", flags |-> reader.flags]
         ELSE Fail

Settled ==
  /\ Goes /\ UNCHANGED <<wire, reader>>
  /\ \/ reader.stage = "done" /\ Ends
     \/ reader.stage = "failed" /\ Fails

-----------------------------------------------------------------------------
Missed(i, midway) ==
  /\ wire[i + 1].t # "zeros"
  /\ i = 0 \/ wire[i + 1].t = "stream" => midway

AlterChunk ==
  /\ last = "ready" /\ damage = "none"
  /\ \E i \in DOMAIN wire : /\ wire[i].t = "chunk" /\ Len(wire[i].v) > 2
                            /\ wire' = [wire EXCEPT ![i].v[3] = 0]
  /\ damage' = "altered"
  /\ UNCHANGED <<codec, given, writer, reader, got, last, refused>>

XNext ==
  \/ StartStream \/ StartBlock \/ (\E n \in {1, 2} : Push(n)) \/ (\E l \in BOOLEAN : Drain(l))
  \/ FinishBlock \/ EndBlock \/ EndStream
  \/ Cut(Missed) \/ AlterChunk \/ Call
  \/ ReadStreamHeader \/ StartReadingBlock \/ FinishStream \/ Take \/ ReadChunk \/ MissChunk \/ FinishReadingBlock \/ Settled

(* What a match may reach is held, by the writer and by the reader.         *)
HistoryIsHeld ==
  /\ writer.base <= Most(0, writer.at - DICT)
  /\ reader.stage = "block" => History(reader.window) >= Least(DICT, reader.window.total)

XTypeOK ==
  /\ Len(given) <= MaxMembers /\ writer.base <= writer.at /\ writer.at <= Len(writer.data)
  /\ reader.stage \in {"header", "between", "block", "done", "failed"}
  /\ reader.stage = "block" => Pending(reader.window) >= 0
=============================================================================
