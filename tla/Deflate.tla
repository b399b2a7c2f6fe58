------------------------------ MODULE Deflate ------------------------------
(***************************************************************************)
(* Deflate: matches are found block by block, a block is stored or coded   *)
(* with the fixed or with its own tables, and a large file is compressed   *)
(* in chunks, apart from each other, that are put one after another.       *)
(*                                                                         *)
(* Bits are left out.  What a symbol is coded as depends on the lengths of *)
(* all codes: a coded symbol holds the lengths it was coded with, and can  *)
(* be read with these alone.  How many bits are over where bytes have to   *)
(* start is open.  A symbol s has its length at s + 1; what the numbers of *)
(* a block cost, and so which kind is the shortest, is open too.           *)
(***************************************************************************)
EXTENDS Integers, Wire

CONSTANTS
  BLOCK_SIZE, PROBE_SIZE, MAX_STORED, PARALLEL_CHUNK,
  LITERALS,                       \* bytes there are: symbols 0 to LITERALS - 1
  LENGTH_BASE, LENGTH_EXTRA,      \* of every symbol of a length its least and its extra bits
  DIST_BASE, DIST_EXTRA,
  MIN_MATCH, MAX_MATCH, MAX_DISTANCE,
  HASH_BYTES, HASH_SIZE,
  MAX_CHAIN, GOOD_LENGTH, NICE_LENGTH,
  MAX_BASE,                       \* where positions start from 0 again
  MAX_BITS, MAX_CODE_LENGTH,      \* of a code, of a code for lengths
  REPEAT, ZEROS, MANY,            \* runs of lengths, from and to
  CODE_LENGTH_ORDER,
  OUT_CHUNK,
  MADE_UP,                        \* what is made up of zeros after the end of the input
  Texts, MaxPush, MaxCut          \* MaxCut: bytes of a text whose stream may lose its end

Ln == INSTANCE Lengths

END_OF_BLOCK == LITERALS
NIL == -1
Upto(n) == [i \in 1 .. n |-> i - 1]

-----------------------------------------------------------------------------
(* MatchFinder: chains of the places of one hash, the last one first.  They *)
(* are not cleared for a block: places of blocks before lie below its base. *)

NewFinder == [head |-> [h \in 0 .. HASH_SIZE - 1 |-> NIL], prev |-> [i \in 0 .. MAX_DISTANCE - 1 |-> NIL], base |-> 0, span |-> 0]

BeginBlock(f, len) ==
  IF f.base + f.span + 1 >= MAX_BASE THEN [NewFinder EXCEPT !.span = len] ELSE [f EXCEPT !.base = @ + f.span + 1, !.span = len]

Hash(data, pos) == FoldLeft(LAMBDA sum, byte : sum + byte, 0, SubSeq(data, pos + 1, pos + HASH_BYTES)) % HASH_SIZE

Insert(f, data, pos) ==
  LET h == Hash(data, pos) IN [f EXCEPT !.prev[pos % MAX_DISTANCE] = f.head[h], !.head[h] = f.base + pos]

MatchLength(data, a, b, limit) ==
  CHOOSE n \in 0 .. limit : (\A i \in 1 .. n : data[a + i] = data[b + i]) /\ (n = limit \/ data[a + n + 1] # data[b + n + 1])

(* The longest match of more than min_len, as <<length, distance>>, that    *)
(* the chain from a place leads to within so many steps.                    *)
Quarter == Most(MAX_CHAIN \div 4, 1)
Find(f, data, pos, min_len, start) ==
  LET limit == Least(Len(data) - pos, MAX_MATCH)
      From[candidate \in Int, best \in Nat, distance \in Nat, chain \in Nat] ==
        IF chain = 0 \/ candidate < f.base \/ best >= limit \/ candidate - f.base + MAX_DISTANCE < pos THEN <<best, distance>>
        ELSE LET at == candidate - f.base
                 len == MatchLength(data, at, pos, limit)
                 next == f.prev[at % MAX_DISTANCE]
             IN  IF len <= best THEN From[next, best, distance, chain - 1]
                 ELSE IF len >= NICE_LENGTH THEN <<len, pos - at>>
                 ELSE From[next, len, pos - at, (IF len >= GOOD_LENGTH THEN Least(chain, Quarter) ELSE chain) - 1]
      found == From[start, Most(min_len, MIN_MATCH - 1), 0, IF min_len >= GOOD_LENGTH THEN Quarter ELSE MAX_CHAIN]
  IN  IF limit < MIN_MATCH \/ found[1] < MIN_MATCH \/ found[2] = 0 THEN <<>> ELSE found

Literal(byte) == [byte |-> byte, length |-> 1, distance |-> 0]
Match(found) == [byte |-> 0, length |-> found[1], distance |-> found[2]]

(* A match is put off for a longer one at the next byte, which has been     *)
(* inserted then and is once more with the others of the match.             *)
Tokenize(finder, data, lazy) ==
  LET hash_end == Most(0, Len(data) - (HASH_BYTES - 1))
      All(f, from, to) == FoldLeft(LAMBDA g, i : Insert(g, data, from + i), f, Upto(Most(0, Least(to, hash_end) - from)))
      Inserted(f, pos, end) == IF lazy THEN All(f, pos + 1, end) ELSE All(f, end - 1, end)
      Matched(x, f, pos, found, before) ==
        [finder |-> Inserted(f, pos, pos + found[1]), next |-> pos + found[1], tokens |-> x.tokens \o before \o <<Match(found)>>]
      Step(x, pos) ==
        LET f == Insert(x.finder, data, pos)
            found == Find(f, data, pos, MIN_MATCH - 1, f.prev[pos % MAX_DISTANCE])
            g == Insert(f, data, pos + 1)
            better == Find(g, data, pos + 1, found[1], g.prev[(pos + 1) % MAX_DISTANCE])
            literal == <<Literal(data[pos + 1])>>
        IN  IF pos < x.next THEN x
            ELSE IF pos >= hash_end THEN [x EXCEPT !.tokens = @ \o literal]
            ELSE IF found = <<>> THEN [x EXCEPT !.finder = f, !.tokens = @ \o literal]
            ELSE IF ~lazy \/ found[1] >= NICE_LENGTH \/ pos + 1 >= hash_end THEN Matched(x, f, pos, found, <<>>)
            ELSE IF better = <<>> THEN Matched(x, g, pos, found, <<>>)
            ELSE Matched(x, g, pos + 1, better, literal)
  IN  FoldLeft(Step, [finder |-> BeginBlock(finder, Len(data)), next |-> 0, tokens |-> <<>>], Upto(Len(data)))

-----------------------------------------------------------------------------
(* Tables                                                                   *)

CodeOf(bases, n) == CHOOSE c \in DOMAIN bases : bases[c] <= n /\ \A d \in DOMAIN bases : d > c => bases[d] > n

LiteralSymbol(t) == IF t.distance = 0 THEN t.byte ELSE END_OF_BLOCK + CodeOf(LENGTH_BASE, t.length)
DistanceSymbol(t) == CodeOf(DIST_BASE, t.distance) - 1
Times(symbols, size) == Ln!Now([s \in 1 .. size |-> Len(SelectSeq(symbols, LAMBDA x : x = s - 1))])

NUM_LITERAL == LITERALS + 1 + Len(LENGTH_BASE)
LiteralFreqs(tokens) == Times([i \in DOMAIN tokens |-> LiteralSymbol(tokens[i])] \o <<END_OF_BLOCK>>, NUM_LITERAL)
DistanceFreqs(tokens) ==
  LET matches == SelectSeq(tokens, LAMBDA t : t.distance > 0) IN Times([i \in DOMAIN matches |-> DistanceSymbol(matches[i])], Len(DIST_BASE))

(* Without its zeros at the end, of which so many stay.                     *)
Trimmed(lengths, least) ==
  SubSeq(lengths, 1, CHOOSE n \in least .. Len(lengths) : (n = least \/ lengths[n] # 0) /\ \A i \in n + 1 .. Len(lengths) : lengths[i] = 0)

(* Where there is no match, two distances get a code all the same.          *)
Distances(lengths) == IF \A i \in DOMAIN lengths : lengths[i] = 0 THEN [lengths EXCEPT ![1] = 1, ![2] = 1] ELSE lengths

(* The lengths of both tables in one sequence, as runs.                     *)
Item(symbol, extra) == [symbol |-> symbol, extra |-> extra]
Copy == MAX_BITS + 1
FewZeros == MAX_BITS + 2
ManyZeros == MAX_BITS + 3

Runs(symbol, bounds, run) ==
  LET From[n \in Nat] == IF n < bounds[1] THEN <<>> ELSE <<Item(symbol, Least(n, bounds[2]) - bounds[1])>> \o From[n - Least(n, bounds[2])]
  IN  From[run]
Covered(items, bounds) == FoldLeft(LAMBDA sum, item : sum + item.extra + bounds[1], 0, items)
Single(value, n) == [i \in 1 .. n |-> Item(value, 0)]

RunItems(value, run) ==
  IF value = 0
  THEN LET many == Runs(ManyZeros, MANY, run)
           few == Runs(FewZeros, ZEROS, run - Covered(many, MANY))
       IN  many \o few \o Single(0, run - Covered(many, MANY) - Covered(few, ZEROS))
  ELSE LET copies == Runs(Copy, REPEAT, run - 1) IN Single(value, 1) \o copies \o Single(value, run - 1 - Covered(copies, REPEAT))

CodeLengthStream(all) ==
  LET run(i) == CHOOSE n \in 1 .. Len(all) - i + 1 :
                  (\A k \in 1 .. n : all[i + k - 1] = all[i]) /\ (i + n > Len(all) \/ all[i + n] # all[i])
      From[i \in Nat] == IF i > Len(all) THEN <<>> ELSE RunItems(all[i], run(i)) \o From[i + run(i)]
  IN  From[1]

CodeLengths(items) == Ln!AssignLengths(Times([i \in DOMAIN items |-> items[i].symbol], ManyZeros + 1), MAX_CODE_LENGTH)

(* Every symbol has a code that no other begins with, or there is but one.  *)
Complete(lengths) ==
  LET codes == SelectSeq(lengths, LAMBDA l : l > 0)
      space == FoldLeft(LAMBDA sum, l : sum + 2 ^ (MAX_BITS - l), 0, codes)
  IN  space = 2 ^ MAX_BITS \/ (space < 2 ^ MAX_BITS /\ Len(codes) = 1)

FixedLiteral == [s \in 1 .. NUM_LITERAL |-> MAX_BITS]
FixedDistance == [s \in 1 .. Len(DIST_BASE) |-> MAX_BITS]

-----------------------------------------------------------------------------
(* BlockWriter                                                              *)

Code(lengths, symbol) == Token("code", [lengths |-> lengths, symbol |-> symbol])
Extra(n, bases, extras) == LET c == CodeOf(bases, n) IN Token("extra", (n - bases[c]) % (2 ^ extras[c]))
Pads == {<<>>, <<Token("pad", <<>>)>>}
Block(kind, final) == <<Token("head", [kind |-> kind, last |-> final])>>

Emitted(tokens, literal, distance) ==
  FlattenSeq([i \in DOMAIN tokens |->
    <<Code(literal, LiteralSymbol(tokens[i]))>> \o
    IF tokens[i].distance = 0 THEN <<>>
    ELSE <<Extra(tokens[i].length, LENGTH_BASE, LENGTH_EXTRA), Code(distance, DistanceSymbol(tokens[i])), Extra(tokens[i].distance, DIST_BASE, DIST_EXTRA)>>])
  \o <<Code(literal, END_OF_BLOCK)>>

Stored(data, final, pad) ==
  LET From[rest \in Seq(Nat)] ==
        LET n == Least(Len(rest), MAX_STORED)
        IN  Block("stored", final /\ n = Len(rest)) \o pad \o <<Token("stored", n)>> \o Data(SubSeq(rest, 1, n))
            \o IF n = Len(rest) THEN <<>> ELSE From[After(rest, n)]
  IN  From[data]

Fixed(tokens, final) == Block("fixed", final) \o Emitted(tokens, FixedLiteral, FixedDistance)

Dynamic(tokens, final) ==
  LET literal == Trimmed(Ln!AssignLengths(LiteralFreqs(tokens), MAX_BITS), END_OF_BLOCK + 1)
      distance == Trimmed(Distances(Ln!AssignLengths(DistanceFreqs(tokens), MAX_BITS)), 1)
      items == CodeLengthStream(literal \o distance)
      lengths == CodeLengths(items)
      ordered == Trimmed([i \in DOMAIN CODE_LENGTH_ORDER |-> lengths[CODE_LENGTH_ORDER[i] + 1]], 4)
  IN  Block("dynamic", final) \o <<Token("tables", [literals |-> Len(literal), distances |-> Len(distance), lengths |-> ordered])>>
      \o [i \in DOMAIN items |-> Token("item", [lengths |-> lengths, item |-> items[i]])] \o Emitted(tokens, literal, distance)

Matches(tokens) == \E i \in DOMAIN tokens : tokens[i].distance > 0

(* What a block may be written as.  The start of a long one is tried first. *)
Kinds(probe, block, data, final, level) ==
  LET stored == {Stored(data, final, pad) : pad \in Pads}
      Written(f, wires) == [finder : {f}, wire : wires]
  IN  CASE data = <<>> -> Written(probe.finder, {IF final THEN Fixed(<<>>, TRUE) ELSE <<>>})
        [] data # <<>> /\ level = "none" -> Written(probe.finder, stored)
        [] data # <<>> /\ level # "none" /\ Len(data) >= 2 * PROBE_SIZE /\ ~Matches(probe.tokens) -> Written(probe.finder, stored)
        [] OTHER -> Written(block.finder, stored \cup {Fixed(block.tokens, final), Dynamic(block.tokens, final)})

WriteBlock(finder, data, final, level) ==
  UNION {UNION {Kinds(probe, block, data, final, level) : block \in {Tokenize(probe.finder, data, level = "best")}}
         : probe \in {IF level = "none" \/ Len(data) < 2 * PROBE_SIZE THEN [finder |-> finder, tokens |-> <<>>]
                      ELSE Tokenize(finder, SubSeq(data, 1, PROBE_SIZE), level = "best")}}

-----------------------------------------------------------------------------
(* The encoders: of a stream, of what is all there, and of a chunk.         *)

DInit ==
  /\ codec = "deflate"
  /\ given = <<>> /\ wire = <<>> /\ damage = "none" /\ got = <<>> /\ last = "writing" /\ refused = FALSE
  /\ \E text \in Texts, mode \in {"stream", "whole", "chunks"}, level \in {"none", "fast", "best"} :
       writer = [data |-> <<>>, rest |-> text, pending |-> <<>>, finder |-> NewFinder, mode |-> mode, level |-> level]
  /\ reader = [state |-> "header", left |-> 0, final |-> FALSE, out |-> <<>>, read |-> 0, copy |-> <<>>, pad |-> 0, literal |-> <<>>, distance |-> <<>>]

Unwritten == UNCHANGED <<codec, damage, reader, got, refused>>

Due(w) == IF w.mode = "stream" THEN Len(w.pending) >= BLOCK_SIZE ELSE w.pending # <<>>

Pieces(w) ==
  CASE w.mode = "stream" -> 1 .. Least(MaxPush, Len(w.rest))
    [] w.mode = "whole" -> {Len(w.rest)}
    [] w.mode = "chunks" -> {Least(PARALLEL_CHUNK, Len(w.rest))}

Push ==
  /\ last = "writing" /\ ~Due(writer) /\ writer.rest # <<>>
  /\ \E n \in Pieces(writer) :
       LET piece == SubSeq(writer.rest, 1, n)
       IN  writer' = [writer EXCEPT !.rest = After(@, n), !.pending = @ \o piece, !.data = @ \o piece,
                                    !.finder = IF writer.mode = "chunks" THEN NewFinder ELSE @]
  /\ UNCHANGED <<given, wire, last>> /\ Unwritten

(* A chunk that is not the last ends with a block of nothing, at a byte.    *)
Synced(w, pad) == IF w.mode = "chunks" /\ w.pending = <<>> /\ w.rest # <<>> THEN Stored(<<>>, FALSE, pad) ELSE <<>>

PutBlock ==
  LET n == Least(BLOCK_SIZE, Len(writer.pending))
      rest == After(writer.pending, n)
      final == writer.mode # "stream" /\ rest = <<>> /\ writer.rest = <<>>
  IN  /\ last = "writing" /\ Due(writer)
      /\ \E block \in WriteBlock(writer.finder, SubSeq(writer.pending, 1, n), final, writer.level), pad \in Pads :
           /\ writer' = [writer EXCEPT !.pending = rest, !.finder = block.finder]
           /\ wire' = wire \o block.wire \o Synced(writer', pad)
      /\ UNCHANGED <<given, last>> /\ Unwritten

Finish ==
  /\ last = "writing" /\ ~Due(writer) /\ writer.rest = <<>>
  /\ IF writer.mode = "stream" \/ writer.data = <<>>
     THEN \E block \in WriteBlock(writer.finder, writer.pending, TRUE, writer.level) : wire' = wire \o block.wire
     ELSE UNCHANGED wire
  /\ given' = <<writer.data>>
  /\ writer' = [writer EXCEPT !.data = <<>>, !.pending = <<>>, !.finder = NewFinder]
  /\ last' = "ready"
  /\ Unwritten

-----------------------------------------------------------------------------
(* InflateReader: a turn of its loop is an action.                          *)

OutSize == MAX_DISTANCE + OUT_CHUNK
Available == Len(reader.out) - reader.read
Compacted(r) ==
  IF Len(r.out) <= MAX_DISTANCE THEN r
  ELSE [r EXCEPT !.out = After(@, Len(@) - MAX_DISTANCE), !.read = MAX_DISTANCE]

Produces(state) == Goes /\ Available = 0 /\ reader.state = state
Turn(r, n) == On /\ reader' = r /\ wire' = After(wire, n)
Malformed == Fails /\ reader' = Compacted(reader) /\ UNCHANGED wire

ReadEnd == Produces("header") /\ reader.final /\ Turn([Compacted(reader) EXCEPT !.state = "done"], 0)

Kind == IF wire = <<>> THEN "zeros" ELSE IF wire[1].t = "head" THEN wire[1].v.kind ELSE "reserved"
IsBlock(kind) == Produces("header") /\ ~reader.final /\ Kind = kind
Opened == [Compacted(reader) EXCEPT !.final = wire[1].v.last]
NoBlock == Produces("header") /\ ~reader.final /\ Kind \in {"zeros", "reserved"} /\ Malformed

(* What is left of the byte is passed over.                                 *)
Aligned(tokens) == IF tokens # <<>> /\ tokens[1].t = "pad" THEN Tail(tokens) ELSE tokens
StartStored ==
  LET rest == Aligned(Tail(wire))
  IN  /\ IsBlock("stored")
      /\ IF rest = <<>> \/ rest[1].t # "stored" THEN Malformed
         ELSE Turn([Opened EXCEPT !.state = "stored", !.left = rest[1].v], Len(wire) - Len(rest) + 1)

StartFixed == IsBlock("fixed") /\ Turn([Opened EXCEPT !.state = "compressed", !.literal = FixedLiteral, !.distance = FixedDistance], 1)

(* The lengths so far, and the tokens of the wire that have been read.      *)
Tables(code, total) ==
  LET From[lengths \in Seq(Nat), i \in Nat] ==
        LET item == wire[i + 1].v.item
            symbol == item.symbol
            Filled(value, bounds) == lengths \o [k \in 1 .. bounds[1] + item.extra |-> value]
            more == CASE symbol <= MAX_BITS -> Append(lengths, symbol)
                      [] symbol = Copy -> Filled(Last(lengths), REPEAT)
                      [] symbol = FewZeros -> Filled(0, ZEROS)
                      [] symbol = ManyZeros -> Filled(0, MANY)
        IN  IF Len(lengths) = total THEN <<lengths, i>>
            ELSE IF i >= Len(wire) \/ wire[i + 1].t # "item" THEN <<>>
            ELSE IF wire[i + 1].v.lengths # code \/ (symbol = Copy /\ lengths = <<>>) \/ Len(more) > total THEN <<>>
            ELSE From[more, i + 1]
  IN  From[<<>>, 2]

StartDynamic ==
  LET head == wire[2].v
      place(s) == CHOOSE i \in DOMAIN CODE_LENGTH_ORDER : CODE_LENGTH_ORDER[i] = s
      code == Ln!Now([s \in DOMAIN CODE_LENGTH_ORDER |-> IF place(s - 1) <= Len(head.lengths) THEN head.lengths[place(s - 1)] ELSE 0])
  IN  /\ IsBlock("dynamic")
      /\ IF Len(wire) < 2 \/ wire[2].t # "tables" \/ head.literals > NUM_LITERAL \/ head.distances > Len(DIST_BASE) \/ ~Complete(code) THEN Malformed
         ELSE \E tables \in {Tables(code, head.literals + head.distances)} :
                LET literal == SubSeq(tables[1], 1, head.literals)
                    distance == After(tables[1], head.literals)
                IN  IF tables = <<>> \/ literal[END_OF_BLOCK + 1] = 0 \/ ~Complete(literal) \/ ~Complete(distance) THEN Malformed
                    ELSE Turn([Opened EXCEPT !.state = "compressed", !.literal = literal, !.distance = distance], tables[2])

(* What there is of a block that ends too soon is given after the error.    *)
ReadStored ==
  LET r == Compacted(reader)
      n == Least(r.left, OutSize - Len(r.out))
      read == [r EXCEPT !.out = @ \o [i \in 1 .. Least(n, Len(wire)) |-> wire[i].v[1]]]
  IN  /\ Produces("stored")
      /\ IF n > Len(wire) THEN Fails /\ reader' = read /\ wire' = <<>>
         ELSE Turn([read EXCEPT !.left = @ - n, !.state = IF r.left = n THEN "header" ELSE @], n)

(* Zeros are a symbol, too: the first of those with the shortest code.      *)
ZeroSymbol(lengths) ==
  CHOOSE s \in 0 .. Len(lengths) - 1 :
    /\ lengths[s + 1] > 0
    /\ \A t \in DOMAIN lengths : lengths[t] > 0 => lengths[t] > lengths[s + 1] \/ (lengths[t] = lengths[s + 1] /\ t > s)
Symbol(i, lengths) == IF i > Len(wire) THEN ZeroSymbol(lengths) ELSE IF wire[i].t = "code" /\ wire[i].v.lengths = lengths THEN wire[i].v.symbol ELSE NUM_LITERAL
Number(i) == IF i > Len(wire) THEN 0 ELSE wire[i].v

(* A match that does not fit goes on in the next turn.                      *)
Repeated(out, length, distance) ==
  FoldLeft(LAMBDA o, i : Append(o, o[Len(o) - distance + 1]), out, Upto(Least(length, OutSize - Len(out))))
Over(out, length) == Most(0, length - (OutSize - Len(out)))
Goal(out, taken, state, copy) == [out |-> out, taken |-> taken, state |-> state, copy |-> copy]

(* Where decoding may stop: once, or anywhere in what is made up.           *)
Decoded(start) ==
  LET From[out \in Seq(Nat), i \in Nat] ==
        LET symbol == Symbol(i + 1, reader.literal)
            length == LENGTH_BASE[symbol - END_OF_BLOCK] + Number(i + 2)
            distance == DIST_BASE[Symbol(i + 3, reader.distance) + 1] + Number(i + 4)
            needs == i + IF symbol > END_OF_BLOCK THEN 4 ELSE 1
            made == Most(0, needs - Len(wire))
            over == Over(out, length)
            bad == {Goal(out, i, "bad", <<>>)}
        IN  IF Len(out) = OutSize THEN {Goal(out, i, "compressed", <<>>)}
            ELSE (IF made > 0 THEN bad ELSE {}) \cup
                 IF made > 0 /\ reader.pad + made > MADE_UP THEN bad
                 ELSE IF symbol < LITERALS THEN From[Append(out, symbol), i + 1]
                 ELSE IF symbol = END_OF_BLOCK THEN {Goal(out, i + 1, "header", <<>>)}
                 ELSE IF symbol >= NUM_LITERAL \/ Symbol(i + 3, reader.distance) >= Len(DIST_BASE) \/ distance > Len(out) THEN bad
                 ELSE IF over > 0 THEN {Goal(Repeated(out, length, distance), i + 4, "compressed", <<over, distance>>)}
                 ELSE From[Repeated(out, length, distance), i + 4]
  IN  From[start, 0]

ReadCompressed ==
  LET r == Compacted(reader)
      copied == IF r.copy = <<>> THEN r.out ELSE Repeated(r.out, r.copy[1], r.copy[2])
      over == IF r.copy = <<>> THEN 0 ELSE Over(r.out, r.copy[1])
  IN  /\ Produces("compressed")
      /\ IF over > 0 THEN Turn([r EXCEPT !.out = copied, !.copy = <<over, @[2]>>], 0)
         ELSE \E goal \in Decoded(copied) :
                LET read == [r EXCEPT !.out = goal.out, !.copy = goal.copy, !.pad = @ + Most(0, goal.taken - Len(wire))]
                IN  IF goal.state # "bad" THEN Turn([read EXCEPT !.state = goal.state], goal.taken)
                    ELSE Fails /\ reader' = [read EXCEPT !.pad = MADE_UP] /\ wire' = <<>>

Take ==
  /\ Goes /\ Available > 0
  /\ \E n \in 1 .. Available : Gives(SubSeq(reader.out, reader.read + 1, reader.read + n)) /\ reader' = [reader EXCEPT !.read = @ + n]
  /\ UNCHANGED wire

TakeNothing == Produces("done") /\ Ends /\ UNCHANGED <<wire, reader>>

-----------------------------------------------------------------------------
(* A stream ends between two blocks, in a stored one or between two codes.  *)
DMissed(i, midway) == ~midway /\ Len(Sent) <= MaxCut /\ wire[i + 1].t \notin {"tables", "item"}

DNext ==
  \/ Push \/ PutBlock \/ Finish \/ Cut(DMissed) \/ Call
  \/ ReadEnd \/ NoBlock \/ StartStored \/ StartFixed \/ StartDynamic \/ ReadStored \/ ReadCompressed
  \/ Take \/ TakeNothing

(* What a match may still reach is there.                                   *)
HistoryIsHeld == Len(reader.out) >= Least(MAX_DISTANCE, Len(got) + Available)

DTypeOK ==
  /\ Len(reader.out) <= OutSize /\ reader.read <= Len(reader.out)
  /\ reader.copy # <<>> => reader.state = "compressed"
=============================================================================
