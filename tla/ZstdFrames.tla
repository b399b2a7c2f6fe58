---------------------------- MODULE ZstdFrames -----------------------------
(***************************************************************************)
(* Zstandard: frames of blocks, with frames to skip between them.  The     *)
(* reader takes a field that the stream does not begin any more for one    *)
(* of zeros.                                                               *)
(*                                                                         *)
(* A compressed block is literals and sequences, each of which copies some *)
(* of the literals and then what lies some distance back.  How the         *)
(* literals and the numbers of a sequence are coded is left out.           *)
(***************************************************************************)
EXTENDS Wire

CONSTANTS
  WINDOW_SIZE,    \* bytes back that a match may reach
  BLOCK_MAX, MIN_MATCH,
  Slack, Threshold,
  Patterns,       \* what is written, in one frame or more
  MaxMembers

ZInit ==
  /\ codec = "zstd"
  /\ given = <<>> /\ wire = <<>> /\ damage = "none" /\ got = <<>> /\ last = "writing" /\ refused = FALSE
  /\ writer \in {[data |-> <<>>, rest |-> rest, at |-> 0, base |-> 0, open |-> "no", sums |-> sums, whole |-> FALSE] : rest \in Patterns, sums \in BOOLEAN}
  /\ reader = [window |-> NewWindow(WINDOW_SIZE), open |-> FALSE, finished |-> FALSE]

-----------------------------------------------------------------------------
(* The writers: Writer, for a stream, and compress_at, which has all of the *)
(* data of its frame.                                                       *)

Unwritten == UNCHANGED <<codec, damage, reader, got, refused>>

(* write_frame_header: of a whole frame the length is known, and it is the   *)
(* window as well unless it is longer than one.                             *)
FrameHeader(w) ==
  LET len == Len(w.data)
      single == w.whole /\ len <= WINDOW_SIZE
  IN  <<Token("magic", <<>>), Token("descriptor", [sums |-> w.sums, sized |-> w.whole, single |-> single]),
        Token("sizes", <<IF single THEN len ELSE WINDOW_SIZE, IF w.whole THEN len ELSE 0>>)>>

(* Others write frames to skip and leave checksums out.                     *)
StartFrame ==
  /\ last = "writing" /\ writer.open = "no" /\ Len(given) < MaxMembers
  /\ \E whole \in BOOLEAN, skips \in IF given = <<>> THEN {FALSE} ELSE BOOLEAN :
       /\ writer' = [writer EXCEPT !.open = "yes", !.whole = whole]
       /\ wire' = wire \o (IF skips THEN <<Token("skippable", <<>>), Token("skipped", <<>>)>> ELSE <<>>)
                       \o IF whole THEN <<>> ELSE FrameHeader(writer')
  /\ UNCHANGED <<given, last>> /\ Unwritten

(* The longest match that starts at a place and the nearest of its length.  *)
LengthAt(data, at, distance, end) ==
  LET same == {n \in 0 .. end - at : \A i \in 1 .. n : data[at + i] = data[at + i - distance]}
  IN  CHOOSE n \in same : \A m \in same : m <= n

Found(data, base, at, end) ==
  LET distances == 1 .. Least(WINDOW_SIZE, at - base)
      length(d) == LengthAt(data, at, d, end)
  IN  {d \in distances : /\ length(d) >= MIN_MATCH
                         /\ \A e \in distances : length(e) < length(d) \/ (length(e) = length(d) /\ d <= e)}

(* Greedy: where there is a match it is taken.                              *)
Tokenised(data, base, start, end) ==
  LET Tokens[at \in start .. end] ==
        IF at = end THEN [literals |-> <<>>, sequences |-> <<>>]
        ELSE LET found == Found(data, base, at, end)
             IN  IF found = {}
                 THEN LET rest == Tokens[at + 1]
                      IN  [literals |-> <<data[at + 1]>> \o rest.literals,
                           sequences |-> IF rest.sequences = <<>> THEN <<>> ELSE [rest.sequences EXCEPT ![1].literals = @ + 1]]
                 ELSE LET d == CHOOSE d \in found : TRUE
                          n == LengthAt(data, at, d, end)
                          rest == Tokens[at + n]
                      IN  [rest EXCEPT !.sequences = <<[literals |-> 0, distance |-> d, length |-> n]>> \o @]
  IN  Tokens[start]

Blocked(w, final, packs) ==
  LET end == w.at + Least(BLOCK_MAX, Len(w.data) - w.at)
      block == SubSeq(w.data, w.at + 1, end)
      head(kind, size) == Token("head", [kind |-> kind, size |-> size, last |-> final /\ end = Len(w.data)])
  IN  CASE \A i \in DOMAIN block : block[i] = block[1] -> <<head("rle", Len(block)), Token("body", <<block[1]>>)>>
        [] packs -> <<head("compressed", 1), Token("body", Tokenised(w.data, w.base, w.at, end))>>
        [] OTHER -> <<head("raw", Len(block)), Token("body", block)>>

(* push and finish run their blocks a step at a time; a whole frame has one *)
(* pass over its data.                                                      *)
Due(w) == IF w.open = "finish" THEN w.at < Len(w.data) ELSE ~w.whole /\ Len(w.data) - w.at >= BLOCK_MAX + MIN_MATCH

Rested(w) ==
  IF Due(w) \/ w.whole \/ w.open = "finish" THEN w ELSE [w EXCEPT !.base = Retained(@, Len(w.data), w.at, WINDOW_SIZE + MIN_MATCH, Slack)]

Push ==
  /\ last = "writing" /\ writer.open = "yes" /\ ~Due(writer) /\ writer.rest # <<>>
  /\ writer' = Rested([writer EXCEPT !.data = Append(@, Head(writer.rest)), !.rest = Tail(@)])
  /\ UNCHANGED <<given, wire, last>> /\ Unwritten

Block ==
  /\ last = "writing" /\ writer.open # "no" /\ Due(writer)
  /\ \E packs \in BOOLEAN : wire' = wire \o Blocked(writer, writer.whole, packs)
  /\ writer' = Rested([writer EXCEPT !.at = @ + Least(BLOCK_MAX, Len(writer.data) - @)])
  /\ UNCHANGED <<given, last>> /\ Unwritten

Finish ==
  /\ last = "writing" /\ writer.open = "yes" /\ ~Due(writer)
  /\ writer' = [writer EXCEPT !.open = "finish"]
  /\ wire' = wire \o IF writer.whole THEN FrameHeader(writer) ELSE <<>>
  /\ UNCHANGED <<given, last>> /\ Unwritten

EndFrame ==
  LET empty == Token("head", [kind |-> "raw", size |-> 0, last |-> TRUE])
  IN  /\ last = "writing" /\ writer.open = "finish" /\ ~Due(writer)
      /\ wire' = wire \o (IF writer.whole /\ writer.data # <<>> THEN <<>> ELSE <<empty>>)
                      \o IF writer.sums THEN <<Token("checksum", writer.data)>> ELSE <<>>
      /\ given' = Append(given, writer.data)
      /\ writer' = [writer EXCEPT !.data = <<>>, !.at = 0, !.base = 0, !.open = "no"]
      /\ Closes(MaxMembers)
      /\ Unwritten

-----------------------------------------------------------------------------
(* The reader                                                               *)

(* exactly: the fields that are there, in their order; a field that has     *)
(* begun must be whole.                                                     *)
Broken(n) == \E i \in 1 .. Least(n, Len(wire)) : wire[i].t = "part"
Takes(n) == wire' = After(wire, n)
Field(i, zeros) == IF i <= Len(wire) /\ ~Broken(i) THEN wire[i].v ELSE zeros

Fail(n) == Fails /\ Takes(n) /\ UNCHANGED reader
Steps == Goes /\ Pending(reader.window) = 0 /\ ~reader.finished
Free == Drained(reader.window, Threshold)

ReadSkippable ==
  /\ Steps /\ ~reader.open /\ wire # <<>> /\ wire[1].t = "skippable"
  /\ On /\ Takes(2) /\ reader' = [reader EXCEPT !.window = Free]

(* Mutant: the end of the input is not kept in mind.                        *)
EndOfFramesForgotten == Steps /\ ~reader.open /\ wire = <<>> /\ On /\ UNCHANGED wire /\ reader' = [reader EXCEPT !.window = Free]

EndOfFrames == Steps /\ ~reader.open /\ wire = <<>> /\ On /\ UNCHANGED wire /\ reader' = [reader EXCEPT !.finished = TRUE, !.window = Free]

NoMagic == Steps /\ ~reader.open /\ wire # <<>> /\ wire[1].t \notin {"skippable", "magic"} /\ Fail(1)

Descriptor == Field(2, [sums |-> FALSE, sized |-> FALSE, single |-> FALSE])
Sizes == Field(3, <<IF Descriptor.single THEN 0 ELSE WINDOW_SIZE, 0>>)

ReadFrameHeader ==
  LET window == [ResetDictionary(Free) EXCEPT !.dict = Most(Sizes[1], 1)]
  IN  /\ Steps /\ ~reader.open /\ wire # <<>> /\ wire[1].t = "magic"
      /\ IF Broken(3) THEN Fail(3)
         ELSE /\ On /\ Takes(3)
              /\ reader' = [open |-> TRUE, finished |-> FALSE, window |-> window, window_size |-> Sizes[1],
                            content |-> IF Descriptor.sized THEN {Sizes[2]} ELSE {},
                            sums |-> Descriptor.sums, start |-> window.total, hashed |-> window.total, sum |-> <<>>]

(* Sequences are executed on the window until one cannot be.                *)
Executed(w, literals, sequences) ==
  LET Emit(x, s) ==
        LET u == Extended(x.w, SubSeq(literals, x.at + 1, x.at + s.literals))
        IN  IF x.ok /\ x.at + s.literals <= Len(literals) /\ Reaches(u, s.distance)
               /\ (reader.window_size > 0 => s.distance <= reader.window_size)
            THEN [x EXCEPT !.w = Copied(u, s.distance, s.length), !.at = @ + s.literals] ELSE [x EXCEPT !.ok = FALSE]
      x == FoldLeft(Emit, [w |-> w, at |-> 0, ok |-> TRUE], sequences)
  IN  [ok |-> x.ok, w |-> Extended(x.w, After(literals, x.at))]

Zeros(n) == [i \in 1 .. n |-> 0]
Bodied(head) ==
  CASE head.kind = "compressed" -> LET body == Field(2, [literals |-> <<>>, sequences |-> <<>>]) IN Executed(Free, body.literals, body.sequences)
    [] head.kind = "rle" -> LET byte == Field(2, <<0>>)[1] IN [ok |-> TRUE, w |-> Extended(Free, [i \in 1 .. head.size |-> byte])]
    [] OTHER -> [ok |-> TRUE, w |-> Extended(Free, IF head.size = 0 THEN <<>> ELSE Field(2, Zeros(head.size)))]

ReadBlock ==
  LET head == Field(1, [kind |-> "raw", size |-> 0, last |-> FALSE])
      n == IF head.size = 0 THEN 1 ELSE 2
      block == Bodied(head)
      sum == IF reader.sums THEN reader.sum \o Since(block.w, reader.hashed) ELSE <<>>
      read == [reader EXCEPT !.window = block.w, !.hashed = block.w.total, !.sum = sum]
      closed == [window |-> block.w, open |-> FALSE, finished |-> FALSE]
  IN  /\ Steps /\ reader.open
      /\ IF Broken(1) \/ Broken(n) THEN Fail(n)
         ELSE IF ~block.ok THEN Fails /\ Takes(n) /\ reader' = [reader EXCEPT !.window = block.w]
         ELSE IF ~head.last THEN On /\ Takes(n) /\ reader' = read
         ELSE IF reader.content \notin {{}, {block.w.total - reader.start}} THEN Fails /\ Takes(n) /\ reader' = read
         ELSE IF ~reader.sums THEN On /\ Takes(n) /\ reader' = closed
         ELSE /\ Takes(n + 1) /\ reader' = closed
              /\ IF n < Len(wire) /\ wire[n + 1].t = "checksum" /\ wire[n + 1].v = sum THEN On ELSE Fails

Take ==
  /\ Goes /\ Pending(reader.window) > 0
  /\ \E n \in 1 .. Pending(reader.window) :
       Gives(Untaken(reader.window, n)) /\ reader' = [reader EXCEPT !.window = Taken(@, n)]
  /\ UNCHANGED wire

TakeNothing == Goes /\ Pending(reader.window) = 0 /\ reader.finished /\ Ends /\ UNCHANGED <<wire, reader>>

-----------------------------------------------------------------------------
(* A byte of a raw block, or a literal of a compressed one.                 *)
AlterBlock ==
  /\ last = "ready" /\ damage = "none"
  /\ \E i \in DOMAIN wire :
       /\ wire[i].t = "body" /\ (wire[i - 1].v.kind = "compressed" => wire[i].v.literals # <<>>)
       /\ wire' = IF wire[i - 1].v.kind = "compressed" THEN [wire EXCEPT ![i].v.literals[1] = 0] ELSE [wire EXCEPT ![i].v[1] = 0]
  /\ damage' = "altered"
  /\ UNCHANGED <<codec, given, writer, reader, got, last, refused>>

(* Where a frame to skip ends too soon nothing is missed: what it holds is  *)
(* read for its length alone, and a shorter one does as well.               *)
ZMissed(i, midway) ==
  /\ wire[i + 1].t # "skipped"
  /\ i = 0 \/ wire[i + 1].t \in {"skippable", "magic"} => midway

ZNext ==
  \/ StartFrame \/ Push \/ Block \/ Finish \/ EndFrame
  \/ Cut(ZMissed) \/ AlterBlock \/ Call
  \/ ReadSkippable \/ EndOfFrames \/ NoMagic \/ ReadFrameHeader \/ ReadBlock \/ Take \/ TakeNothing

HistoryIsHeld ==
  /\ writer.base <= Most(0, writer.at - WINDOW_SIZE)
  /\ reader.open => History(reader.window) >= Least(reader.window.dict, reader.window.total - reader.start)

ZTypeOK ==
  /\ Len(given) <= MaxMembers /\ writer.base <= writer.at /\ writer.at <= Len(writer.data)
  /\ Pending(reader.window) >= 0
=============================================================================
