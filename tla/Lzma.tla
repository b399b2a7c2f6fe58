-------------------------------- MODULE Lzma --------------------------------
(***************************************************************************)
(* LZMA: an encoder that takes the longest match, of a distance it used    *)
(* last or of those its finder has, and puts literals and matches into a   *)
(* range coder, bit by bit, each with the probability of its context; and  *)
(* the decoder that has to be in the same state at every bit.              *)
(*                                                                         *)
(* It is written as a member of an lzip file, which its marker and a       *)
(* trailer end; as the chunks of LZMA2, each of which starts the range     *)
(* coder anew; and as a whole of a size that is known.                     *)
(***************************************************************************)
EXTENDS Integers, Wire
LOCAL INSTANCE TLC

CONSTANTS
  BASE, PROB_BITS, MOVE_BITS,     \* RangeCoder
  LC, PB,                         \* bits of contexts
  LEN_BITS, HIGH_BITS,            \* of the short lengths, twice, and of the long ones
  LEN_STATES, SLOT_BITS, END_POS_MODEL_INDEX, ALIGN_BITS,
  HASH_BYTES, HASH_SIZE, DEPTH, SKIP_SHIFT,
  CHUNK, Slack, Threshold, OUT_CHUNK,
  Jobs,                           \* texts, and how each is compressed
  MaxPush, MaxCut

Rc == INSTANCE RangeCoder

MATCH_MIN_LEN == 2
MATCH_MAX_LEN == MATCH_MIN_LEN + 2 * 2 ^ LEN_BITS + 2 ^ HIGH_BITS - 1
END_MARKER == 2 ^ (2 ^ (SLOT_BITS - 1)) - 1
BYTE_BITS == CHOOSE n \in 1 .. 8 : 2 ^ n = BASE
NONE == -1
Upto(n) == [i \in 1 .. n |-> i - 1]
Less(i, j) == IF i > j THEN i - j ELSE 0

-----------------------------------------------------------------------------
(* Finder.  A feed holds the bytes from its base to its end.                *)

NewFinder(len, window) ==
  LET wanted == Most(1, Least(len, window))
      span == CHOOSE p \in {2 ^ k : k \in 0 .. wanted} : p <= wanted /\ wanted < 2 * p
  IN  [head |-> [h \in 0 .. HASH_SIZE - 1 |-> NONE], chain |-> [i \in 0 .. span - 1 |-> NONE], span |-> span]

End(feed) == Len(feed.data)
Hash(feed, at) == FoldLeft(LAMBDA sum, byte : sum + byte, 0, SubSeq(feed.data, at + 1, at + HASH_BYTES)) % HASH_SIZE

Insert(f, feed, at) ==
  IF at + HASH_BYTES > End(feed) THEN f
  ELSE [f EXCEPT !.chain[at % f.span] = f.head[Hash(feed, at)], !.head[Hash(feed, at)] = at]

Common(feed, a, b, limit) ==
  CHOOSE n \in 0 .. limit : /\ \A i \in 1 .. n : feed.data[a + i] = feed.data[b + i]
                            /\ n = limit \/ feed.data[a + n + 1] # feed.data[b + n + 1]
Limit(feed, at) == Least(MATCH_MAX_LEN, End(feed) - at)

(* A chain is left where it leads to what may have been written over.       *)
Longest(f, feed, at, window, best_already) ==
  LET limit == Limit(feed, at)
      oldest == Most(Less(at, Least(window, f.span)), feed.base)
      From[candidate \in Int, best \in Nat, distance \in Nat, tries \in Nat] ==
        IF tries = 0 \/ candidate < oldest THEN <<distance, best>>
        ELSE LET len == Common(feed, candidate, at, limit)
                 next == f.chain[candidate % f.span]
             IN  IF len <= best THEN From[next, best, distance, tries - 1]
                 ELSE IF len >= limit THEN <<at - candidate, len>>
                 ELSE From[next, len, at - candidate, tries - 1]
      best == Most(best_already, MATCH_MIN_LEN - 1)
  IN  IF at + HASH_BYTES > End(feed) \/ best >= limit THEN <<0, 0>> ELSE From[f.head[Hash(feed, at)], best, 0, DEPTH]

MatchLength(feed, at, distance) ==
  IF distance > at - feed.base THEN 0 ELSE Common(feed, at - distance, at, Limit(feed, at))

-----------------------------------------------------------------------------
(* What the coders share: the last distances, contexts and slots.           *)


PosState(at) == at % 2 ^ PB
LiteralContext(at, previous, lp) == (at % 2 ^ lp) * 2 ^ LC + previous \div 2 ^ (BYTE_BITS - LC)

DirectOf(slot) == slot \div 2 - 1
SlotBase(slot) == (2 + (slot % 2)) * 2 ^ DirectOf(slot)
SlotOf(dist) == IF dist < 4 THEN dist ELSE CHOOSE s \in 4 .. 2 ^ SLOT_BITS - 1 : SlotBase(s) <= dist /\ dist < SlotBase(s) + 2 ^ DirectOf(s)

-----------------------------------------------------------------------------
(* Encoder                                                                  *)

LiteralState(s) == IF s < 4 THEN 0 ELSE IF s < 10 THEN s - 3 ELSE s - 6
Swapped(reps, i) == <<reps[i]>> \o SubSeq(reps, 1, i - 1) \o After(reps, i)

Nothing == [code |-> 0, len |-> 0, rep |-> 0]

BestAt(x, feed, at) ==
  LET Rep(best, i) ==
        LET len == MatchLength(feed, at, x.reps[i] + 1)
        IN  IF len >= MATCH_MIN_LEN /\ len > best.len THEN [code |-> x.reps[i], len |-> len, rep |-> i] ELSE best
      rep == FoldLeft(Rep, Nothing, <<1, 2, 3, 4>>)
      found == Longest(x.finder, feed, at, x.dict, rep.len)
  IN  IF found[1] > 0 THEN [code |-> found[1] - 1, len |-> found[2], rep |-> 0] ELSE rep

(* After a literal with a match behind it, as long as its bits are those of *)
(* the byte that the match would have gone on with, these are its context.  *)
LiteralBits(x, feed, at) ==
  LET bits == Rc!HighFirst(feed.data[at + 1], BYTE_BITS)
      matched == Rc!HighFirst(feed.data[at - x.reps[1]], BYTE_BITS)
      context == LiteralContext(at, IF at = 0 THEN 0 ELSE feed.data[at], x.lp)
      follows(k) == x.state >= 7 /\ \A j \in 1 .. k - 1 : matched[j] = bits[j]
  IN  [k \in 1 .. BYTE_BITS |->
         <<<<"literal", context, IF follows(k) THEN 1 + matched[k] ELSE 0, Rc!Node(SubSeq(bits, 1, k - 1))>>, bits[k]>>]

LengthBits(table, symbol, pos_state) ==
  LET choice(b) == <<<<<<table, "choice">>, b>>>>
      choice2(b) == <<<<<<table, "choice2">>, b>>>>
      few == 2 ^ LEN_BITS
  IN  CASE symbol < few -> choice(0) \o Rc!Tree(<<table, "low", pos_state>>, LEN_BITS, symbol)
        [] symbol \in few .. 2 * few - 1 -> choice(1) \o choice2(0) \o Rc!Tree(<<table, "mid", pos_state>>, LEN_BITS, symbol - few)
        [] OTHER -> choice(1) \o choice2(1) \o Rc!Tree(<<table, "high">>, HIGH_BITS, symbol - 2 * few)

DistanceBits(code, len_symbol) ==
  LET slot == SlotOf(code)
      rest == code - SlotBase(slot)
  IN  Rc!Tree(<<"pos_slot", Least(len_symbol, LEN_STATES - 1)>>, SLOT_BITS, slot)
      \o CASE slot < 4 -> <<>>
           [] slot \in 4 .. END_POS_MODEL_INDEX - 1 -> Rc!TreeReverse(<<"pos_special", slot>>, DirectOf(slot), rest)
           [] OTHER -> Rc!DirectBits(rest \div 2 ^ ALIGN_BITS, DirectOf(slot) - ALIGN_BITS)
                       \o Rc!TreeReverse(<<"pos_align">>, ALIGN_BITS, rest % 2 ^ ALIGN_BITS)

Is(x, at, bit) == <<<<<<"is_match", x.state, PosState(at)>>, bit>>>>
IsRep(x, bit) == <<<<<<"is_rep", x.state>>, bit>>>>
RepBits(x, at, rep, long) ==
  LET g(name, bit) == <<<<<<name, x.state>>, bit>>>>
  IN  IF rep = 1 THEN g("is_rep_g0", 0) \o <<<<<<"is_rep0_long", x.state, PosState(at)>>, long>>>>
      ELSE g("is_rep_g0", 1) \o IF rep = 2 THEN g("is_rep_g1", 0) ELSE g("is_rep_g1", 1) \o g("is_rep_g2", rep - 3)

Put(x, bits) == [x EXCEPT !.rc = Rc!EncodedAll(@, bits)]

(* Others write a byte that is the same as the one a match back as a match  *)
(* of one byte.                                                             *)
PutLiteral(x, feed, at) ==
  LET short == x.foreign /\ x.reps[1] < at - feed.base /\ feed.data[at - x.reps[1]] = feed.data[at + 1]
      put == IF short THEN Put(x, Is(x, at, 1) \o IsRep(x, 1) \o RepBits(x, at, 1, 0))
             ELSE Put(x, Is(x, at, 0) \o LiteralBits(x, feed, at))
  IN  [put EXCEPT !.state = IF ~short THEN LiteralState(@) ELSE IF @ < 7 THEN 9 ELSE 11, !.barren = @ + 1, !.next = at + 1]

PutMatch(x, feed, at, m) ==
  LET symbol == m.len - MATCH_MIN_LEN
      bits == IF m.rep = 0 THEN IsRep(x, 0) \o LengthBits("len", symbol, PosState(at)) \o DistanceBits(m.code, symbol)
              ELSE IsRep(x, 1) \o RepBits(x, at, m.rep, 1) \o LengthBits("rep_len", symbol, PosState(at))
      put == Put(x, Is(x, at, 1) \o bits)
  IN  [put EXCEPT !.state = (IF m.rep = 0 THEN 7 ELSE 8) + IF @ < 7 THEN 0 ELSE 3,
                  !.reps = IF m.rep = 0 THEN <<m.code>> \o Front(@) ELSE Swapped(@, m.rep),
                  !.finder = FoldLeft(LAMBDA f, step : Insert(f, feed, at + step), @, [step \in 1 .. m.len - 1 |-> step]),
                  !.barren = 0, !.next = at + m.len]

(* After many literals only some places are looked at.  A match gives way   *)
(* to a longer one at the next byte, and does not go past the span.         *)
EncodeAt(x, feed, to, at) ==
  LET skip == x.barren \div 2 ^ SKIP_SHIFT
      y == [x EXCEPT !.finder = Insert(@, feed, at)]
      first == IF skip > 0 /\ at % (1 + skip) # 0 THEN Nothing ELSE BestAt(x, feed, at)
      better == /\ first.len \in 1 .. MATCH_MAX_LEN - 1 /\ at + 1 < to
                /\ BestAt(y, feed, at + 1).len > first.len + 1
      chosen == [first EXCEPT !.len = Least(@, to - at)]
  IN  IF at < x.next THEN x
      ELSE IF better \/ chosen.len < MATCH_MIN_LEN THEN PutLiteral(y, feed, at)
      ELSE PutMatch(y, feed, at, chosen)

EncodeSpan(x, feed, from, to) ==
  FoldLeft(LAMBDA y, at : EncodeAt(y, feed, to, at), [x EXCEPT !.barren = 0, !.next = from], [i \in 1 .. to - from |-> from + i - 1])

EndMarker(x, at) == Put(x, Is(x, at, 1) \o IsRep(x, 0) \o LengthBits("len", 0, PosState(at)) \o DistanceBits(END_MARKER, 0))

-----------------------------------------------------------------------------
(* Writers: of an lzip member, of LZMA2 and of what is all there.           *)

NewEncoder(job) ==
  [rc |-> Rc!NewEncoder(Rc!NoProbs), state |-> 0, reps |-> <<0, 0, 0, 0>>, barren |-> 0, next |-> 0,
   finder |-> NewFinder(IF job.mode = "whole" THEN Len(job.text) ELSE job.dict, job.dict),
   dict |-> job.dict, foreign |-> job.foreign, lp |-> IF job.foreign THEN 1 ELSE 0]

KEPT_AHEAD == MATCH_MAX_LEN + 1

LInit ==
  /\ codec = "lzma1"
  /\ given = <<>> /\ damage = "none" /\ got = <<>> /\ last = "writing" /\ refused = FALSE
  /\ \E job \in Jobs :
       /\ writer = [data |-> <<>>, rest |-> job.text, at |-> 0, base |-> 0, final |-> FALSE, mode |-> job.mode, encoder |-> NewEncoder(job)]
       /\ wire = <<Token("header", [mode |-> job.mode, dict |-> job.dict, lp |-> IF job.foreign THEN 1 ELSE 0, size |-> Len(job.text)])>>
  /\ reader = [stage |-> "header"]

Unwritten == UNCHANGED <<codec, damage, reader, got, refused>>

Due(w) ==
  LET available == Len(w.data) - w.at
  IN  IF w.mode = "whole" THEN available
      ELSE IF w.final THEN Least(available, CHUNK)
      ELSE IF available >= CHUNK + KEPT_AHEAD THEN CHUNK ELSE 0

Rested(w) == IF Due(w) > 0 THEN w ELSE [w EXCEPT !.base = Retained(@, Len(w.data), w.at, w.encoder.dict + MATCH_MAX_LEN, Slack)]

Push ==
  /\ last = "writing" /\ Due(writer) = 0 /\ writer.rest # <<>>
  /\ \E n \in IF writer.mode = "whole" THEN {Len(writer.rest)} ELSE 1 .. Least(MaxPush, Len(writer.rest)) :
       writer' = Rested([writer EXCEPT !.data = @ \o SubSeq(writer.rest, 1, n), !.rest = After(@, n)])
  /\ UNCHANGED <<given, wire, last>> /\ Unwritten

(* A chunk of LZMA2 has a range coder of its own.                           *)
PutChunk(x, to, packed) ==
  /\ wire' = wire \o <<Token("chunk", <<to - writer.at, Len(packed)>>)>> \o Data(packed)
  /\ writer' = Rested([writer EXCEPT !.at = to, !.encoder = [x EXCEPT !.rc = Rc!NewEncoder(x.rc.probs)]])
PutOn(x, to) ==
  IF writer.mode = "lzma2" THEN PutChunk(x, to, Rc!Finished(x.rc))
  ELSE wire' = wire /\ writer' = Rested([writer EXCEPT !.at = to, !.encoder = x])

PutSpan ==
  LET to == writer.at + Due(writer)
  IN  /\ last = "writing" /\ Due(writer) > 0
      /\ PutOn(EncodeSpan(writer.encoder, [data |-> writer.data, base |-> writer.base], writer.at, to), to)
      /\ UNCHANGED <<given, last>> /\ Unwritten

Finish ==
  /\ last = "writing" /\ Due(writer) = 0 /\ writer.rest = <<>> /\ ~writer.final
  /\ writer' = [writer EXCEPT !.final = TRUE]
  /\ UNCHANGED <<given, wire, last>> /\ Unwritten

Close ==
  LET x == writer.encoder
  IN  /\ last = "writing" /\ Due(writer) = 0 /\ writer.final
      /\ wire' = wire \o CASE writer.mode = "lzip" -> Data(Rc!Finished(EndMarker(x, writer.at).rc)) \o <<Token("trailer", writer.data)>>
                           [] writer.mode = "whole" -> Data(Rc!Finished(x.rc))
                           [] writer.mode = "lzma2" -> <<Token("chunk", <<0, 0>>)>>
      /\ given' = <<writer.data>>
      /\ writer' = [data |-> <<>>, at |-> 0, base |-> 0, mode |-> writer.mode]
      /\ last' = "ready"
      /\ Unwritten

-----------------------------------------------------------------------------
(* LzmaCore: a packet after the other, until there are so many bytes.       *)

Stop(d, why) == [d EXCEPT !.stop = why]
Wrote(d, window, state) == [d EXCEPT !.window = window, !.state = state]

ReadLiteral(d) ==
  LET w == d.window
      previous == IF History(w) = 0 THEN 0 ELSE Last(w.buf)
      context == LiteralContext(w.total, previous, d.lp)
      matched == Rc!HighFirst(w.buf[Len(w.buf) - d.reps[1]], BYTE_BITS)
      Step(e, k) ==
        LET f == Rc!ReadBit(e, <<"literal", context, IF e.follows THEN 1 + matched[k] ELSE 0, e.node>>)
        IN  [f EXCEPT !.node = 2 * @ + f.value, !.follows = @ /\ matched[k] = f.value]
      literal == FoldLeft(Step, [d EXCEPT !.node = 1, !.follows = d.state >= 7], [k \in 1 .. BYTE_BITS |-> k])
  IN  IF d.state >= 7 /\ ~Reaches(w, d.reps[1] + 1) THEN Stop(d, "error")
      ELSE Wrote(literal, Extended(w, <<literal.node - BASE>>), IF d.state < 4 THEN 0 ELSE d.state - IF d.state < 10 THEN 3 ELSE 6)

(* Each goes on from the bit that was read before it.                       *)
ReadLonger(d, table) ==
  IF d.value = 0 THEN [Rc!ReadTree(d, <<table, "mid", PosState(d.window.total)>>, LEN_BITS) EXCEPT !.value = @ + 2 ^ LEN_BITS]
  ELSE [Rc!ReadTree(d, <<table, "high">>, HIGH_BITS) EXCEPT !.value = @ + 2 * 2 ^ LEN_BITS]
ReadShorter(d, table) ==
  IF d.value = 0 THEN Rc!ReadTree(d, <<table, "low", PosState(d.window.total)>>, LEN_BITS)
  ELSE ReadLonger(Rc!ReadBit(d, <<table, "choice2">>), table)
ReadLength(d, table) == ReadShorter(Rc!ReadBit(d, <<table, "choice">>), table)

ReadAlign(d) == [Rc!ReadTreeReverse(d, <<"pos_align">>, ALIGN_BITS) EXCEPT !.value = d.value * 2 ^ ALIGN_BITS + @]
ReadFooter(d, slot) ==
  CASE slot < 4 -> d
    [] slot \in 4 .. END_POS_MODEL_INDEX - 1 ->
         [Rc!ReadTreeReverse(d, <<"pos_special", slot>>, DirectOf(slot)) EXCEPT !.value = SlotBase(slot) + @]
    [] OTHER -> [ReadAlign(Rc!ReadDirectBits(d, DirectOf(slot) - ALIGN_BITS)) EXCEPT !.value = SlotBase(slot) + @]
FromSlot(d) == ReadFooter(d, d.value)
ReadDistance(d, len_symbol) == FromSlot(Rc!ReadTree(d, <<"pos_slot", Least(len_symbol, LEN_STATES - 1)>>, SLOT_BITS))

CopyMatch(d, length) ==
  IF Reaches(d.window, d.reps[1] + 1) THEN [d EXCEPT !.window = Copied(@, d.reps[1] + 1, length)] ELSE Stop(d, "error")

ReadShortRep(d) ==
  IF Reaches(d.window, d.reps[1] + 1) THEN [CopyMatch(d, 1) EXCEPT !.state = IF @ < 7 THEN 9 ELSE 11] ELSE Stop(d, "error")

CopyRep(d) == CopyMatch([d EXCEPT !.state = IF @ < 7 THEN 8 ELSE 11], d.value + MATCH_MIN_LEN)
ReadLongRep(d, reps) == CopyRep(ReadLength([d EXCEPT !.reps = reps], "rep_len"))

ReadRep(d, name) == Rc!ReadBit(d, <<name, d.state>>)
Rep2Or3(d) == <<d.reps[IF d.value = 0 THEN 3 ELSE 4], d.reps[1], d.reps[2], d.reps[IF d.value = 0 THEN 4 ELSE 3]>>
ReadFar(d) == ReadLongRep(d, Rep2Or3(d))
ReadNear(d) == IF d.value = 0 THEN ReadLongRep(d, <<d.reps[2], d.reps[1], d.reps[3], d.reps[4]>>) ELSE ReadFar(ReadRep(d, "is_rep_g2"))
ReadRep0(d) == IF d.value = 0 THEN ReadShortRep(d) ELSE ReadLongRep(d, d.reps)
ReadAnyRep(d) ==
  IF d.value = 0 THEN ReadRep0(Rc!ReadBit(d, <<"is_rep0_long", d.state, PosState(d.window.total)>>)) ELSE ReadNear(ReadRep(d, "is_rep_g1"))

(* A match whose distance was read last, its length before it.             *)
MatchOf(d, len_symbol) ==
  LET read == [d EXCEPT !.state = IF @ < 7 THEN 7 ELSE 10, !.reps = <<@[1], @[1], @[2], @[3]>>]
  IN  IF d.value = END_MARKER THEN Stop(read, "marker")
      ELSE IF d.value >= d.window.dict THEN Stop(read, "error")
      ELSE CopyMatch([read EXCEPT !.reps[1] = d.value], len_symbol + MATCH_MIN_LEN)
MatchFrom(d) == MatchOf(ReadDistance(d, d.value), d.value)

ReadMatch(d) ==
  IF d.value = 0 THEN MatchFrom(ReadLength(d, "len"))
  ELSE IF History(d.window) = 0 THEN Stop(d, "error") ELSE ReadAnyRep(ReadRep(d, "is_rep_g0"))
AfterFlag(d) == IF d.value = 0 THEN ReadLiteral(d) ELSE ReadMatch(ReadRep(d, "is_rep"))
ReadPacket(d) == AfterFlag(Rc!ReadBit(d, <<"is_match", d.state, PosState(d.window.total)>>))

Decoded(d, limit) ==
  FoldLeft(LAMBDA e, i : IF e.stop # "no" \/ e.window.total >= limit THEN e ELSE ReadPacket(e), d, Upto(Less(limit, d.window.total)))

-----------------------------------------------------------------------------
(* LzmaDecoder, and Lzma2Decoder where the header says so.                  *)

Next1 == IF wire = <<>> THEN "nothing" ELSE Head(wire).t
BytesOf(tokens) ==
  LET n == CHOOSE n \in 0 .. Len(tokens) : (\A i \in 1 .. n : tokens[i].t = "data") /\ (n = Len(tokens) \/ tokens[n + 1].t # "data")
  IN  FlattenSeq([i \in 1 .. n |-> tokens[i].v])

Core(header) ==
  [state |-> 0, reps |-> <<0, 0, 0, 0>>, lp |-> header.lp, window |-> NewWindow(header.dict), probs |-> Rc!NoProbs,
   range |-> 0, code |-> 0, stage |-> "member", mode |-> header.mode, want |-> header.size]

(* With what it works with while it decodes, and without.                   *)
Working(r, input) == [stop |-> "no", follows |-> FALSE, node |-> 1, value |-> 0, input |-> input, taken |-> 0] @@ r
Kept(d) == [f \in DOMAIN d \ {"stop", "follows", "node", "value", "input", "taken"} |-> d[f]]
Started(r, input) == Rc!NewDecoder(input, r.probs) @@ Working(r, input)
Go(d, tokens) == reader' = Kept(d) /\ wire' = After(tokens, d.taken)

Open ==
  LET r == Core(Head(wire).v)
  IN  /\ Goes /\ On /\ reader.stage = "header"
      /\ IF r.mode = "lzma2" THEN reader' = r /\ wire' = Tail(wire) ELSE Go(Started(r, BytesOf(Tail(wire))), Tail(wire))

Producing == Goes /\ reader.stage = "member" /\ Pending(reader.window) = 0
Settle(stage) == reader' = [reader EXCEPT !.stage = stage, !.window = Drained(@, Threshold)]

Enough == Producing /\ reader.mode = "whole" /\ reader.window.total >= reader.want /\ On /\ Settle("done") /\ UNCHANGED wire

Leave(d) ==
  /\ Go(IF d.stop = "marker" THEN [d EXCEPT !.stage = IF d.mode = "lzip" THEN "marker" ELSE "done"] ELSE d, wire)
  /\ IF d.stop = "error" THEN Fails ELSE On

(* What was read before an error is given when the caller asks again.       *)
Decode ==
  LET total == reader.window.total
      r == [reader EXCEPT !.window = Drained(@, Threshold)]
  IN  /\ Producing /\ reader.mode \in {"lzip", "whole"} /\ ~(reader.mode = "whole" /\ total >= reader.want)
      /\ Leave(Decoded(Working(r, BytesOf(wire)), IF reader.mode = "whole" THEN Least(reader.want, total + OUT_CHUNK) ELSE total + OUT_CHUNK))

(* An lzip reader finds its trailer where the decoder stopped.              *)
EndMember ==
  /\ Goes /\ reader.stage = "marker" /\ Pending(reader.window) = 0
  /\ IF Next1 = "trailer" /\ Head(wire).v = got THEN On /\ Settle("done") /\ wire' = Tail(wire) ELSE Fails /\ UNCHANGED <<wire, reader>>

(* A chunk comes to its size with the bytes it says it has.                 *)
LeaveChunk(d, total) ==
  /\ reader' = [Kept(d) EXCEPT !.stage = IF d.stop = "marker" THEN "done" ELSE @]
  /\ IF d.stop = "error" \/ (d.stop = "no" /\ d.window.total # total) THEN Fails ELSE On

DecodeChunk ==
  LET size == Head(wire).v
      section == SubSeq(wire, 2, size[2] + 1)
      r == [reader EXCEPT !.window = Drained(@, Threshold)]
      total == reader.window.total + size[1]
  IN  /\ Producing /\ reader.mode = "lzma2" /\ Next1 = "chunk"
      /\ IF size[1] = 0 THEN On /\ Settle("done") /\ wire' = Tail(wire)
         ELSE wire' = After(wire, size[2] + 1) /\ LeaveChunk(Decoded(Started(r, BytesOf(section)), total), total)

Take ==
  /\ Goes /\ reader.stage # "header" /\ Pending(reader.window) > 0
  /\ \E n \in 1 .. Pending(reader.window) : Gives(Untaken(reader.window, n)) /\ reader' = [reader EXCEPT !.window = Taken(@, n)]
  /\ UNCHANGED wire

TakeNothing == Goes /\ reader.stage = "done" /\ Pending(reader.window) = 0 /\ Ends /\ UNCHANGED <<wire, reader>>

-----------------------------------------------------------------------------
(* A stream of a known size may lose its end or have a byte altered: where  *)
(* it is not known, what is decoded of zeros may never end.                 *)
LMissed(i, midway) == ~midway /\ i > Rc!START_LEN /\ writer.mode = "whole" /\ Len(Sent) <= MaxCut

AlterByte ==
  /\ last = "ready" /\ damage = "none" /\ writer.mode = "whole" /\ Len(Sent) <= MaxCut
  /\ \E i \in DOMAIN wire, byte \in 0 .. BASE - 1 :
       wire[i].t = "data" /\ wire[i].v # <<byte>> /\ wire' = [wire EXCEPT ![i].v = <<byte>>]
  /\ damage' = "altered"
  /\ UNCHANGED <<codec, given, writer, reader, got, last, refused>>

LNext ==
  \/ Push \/ PutSpan \/ Finish \/ Close \/ Cut(LMissed) \/ AlterByte \/ Call
  \/ Open \/ Enough \/ Decode \/ EndMember \/ DecodeChunk \/ Take \/ TakeNothing

(* The bytes a match or a literal may look at are held.                     *)
HistoryIsHeld ==
  /\ last = "writing" => writer.base <= Less(writer.at, writer.encoder.dict)
  /\ reader.stage # "header" => History(reader.window) >= Least(reader.window.dict, reader.window.total)

LTypeOK ==
  /\ writer.base <= writer.at /\ writer.at <= Len(writer.data)
  /\ reader.stage \in {"header", "member", "marker", "done"}
  /\ reader.stage # "header" => reader.state \in 0 .. 11 /\ Len(reader.reps) = 4
=============================================================================
