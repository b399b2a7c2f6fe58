------------------------------- MODULE Bzip2 -------------------------------
(***************************************************************************)
(* bzip2: runs are shortened, blocks sorted (Burrows-Wheeler), moved to    *)
(* front and coded with prefix codes, of which a block has several.  A     *)
(* block is one token: its symbols are bits, and what goes before them,    *)
(* the bytes that occur, the tables and their selectors, are its fields.   *)
(* Bytes are small numbers, for the length of a run is one among them;     *)
(* rows and positions are numbered from 0, sequences from 1.               *)
(***************************************************************************)
EXTENDS Wire, Lengths, FiniteSets

CONSTANTS
  ESCAPE,           \* equal bytes that are followed by how many more there are
  MAX_RLE1_RUN,     \* the longest run one escape stands for
  BLOCK_MAX,        \* bytes of a block of the encoder
  LIMIT,            \* and of the decoder
  GROUP_SIZE,       \* symbols coded with one table
  TABLE_STEPS,      \* numbers of symbols from which there is one table more
  REFINE_ROUNDS, MAX_CODE_LEN, SEED_HIGH_COST,
  Bytes, MaxStream, MaxMembers

RUN_A == 0
RUN_B == 1

NewEncoder == [data |-> <<>>, block |-> <<>>, run_byte |-> 0, run_len |-> 0, block_crc |-> <<>>, stream_crc |-> <<>>,
               header_written |-> FALSE, open |-> FALSE, out |-> <<>>]

BInit ==
  /\ codec = "bzip2"
  /\ given = <<>> /\ wire = <<>> /\ damage = "none" /\ got = <<>> /\ last = "writing" /\ refused = FALSE
  /\ writer = NewEncoder
  /\ reader = [out |-> <<>>, stream_crc |-> <<>>, started |-> FALSE, done |-> FALSE]

-----------------------------------------------------------------------------
(* Sorting: the rank of a rotation by its first bytes, twice as many in     *)
(* every round; rotations that are equal stay in their order.               *)

Number(S) == Cardinality(S)

Ranks(block) ==
  LET n == Len(block)
      after(i, shift) == ((i + shift - 1) % n) + 1
      Doubled[shift \in Nat] ==
        IF shift = 0 THEN Now([i \in 1 .. n |-> Number({j \in 1 .. n : block[j] < block[i]})])
        ELSE LET rank == Doubled[shift \div 2]
                 smaller(i) == {j \in 1 .. n : rank[j] = rank[i] /\ rank[after(j, shift)] < rank[after(i, shift)]}
             IN  Now([i \in 1 .. n |-> rank[i] + Number(smaller(i))])
      last_shift == {k \in {2 ^ e : e \in 0 .. n} : k < n /\ 2 * k >= n}
  IN  Doubled[IF n = 1 THEN 0 ELSE CHOOSE k \in last_shift : TRUE]

BurrowsWheeler(block) ==
  LET n == Len(block)
      rank == Ranks(block)
      order == Sorted(Numbers(n), LAMBDA i, j : rank[i] < rank[j] \/ (rank[i] = rank[j] /\ i < j))
  IN  [last |-> Now([r \in 1 .. n |-> block[IF order[r] = 1 THEN n ELSE order[r] - 1]]),
       origin |-> (CHOOSE r \in 1 .. n : order[r] = 1) - 1]

ZeroRun[n \in Nat] == IF n = 0 THEN <<>> ELSE <<IF (n - 1) % 2 = 1 THEN RUN_B ELSE RUN_A>> \o ZeroRun[(n - 1) \div 2]

SymbolMap(column) == SelectSeq(Now([i \in 1 .. LIMIT |-> i - 1]), LAMBDA byte : byte \in ToSet(column))

MoveToFront(column) ==
  LET Put(x, byte) ==
        LET index == CHOOSE i \in DOMAIN x.mtf : x.mtf[i] = byte
        IN  IF index = 1 THEN [x EXCEPT !.zeros = @ + 1]
            ELSE [mtf |-> <<byte>> \o Remove(x.mtf, byte), zeros |-> 0, out |-> x.out \o ZeroRun[x.zeros] \o <<index>>]
      end == FoldLeft(Put, [mtf |-> SymbolMap(column), zeros |-> 0, out |-> <<>>], column)
  IN  end.out \o ZeroRun[end.zeros] \o <<Len(SymbolMap(column)) + 1>>

-----------------------------------------------------------------------------
(* Tables.  A table gives the length of a symbol's code at one more than    *)
(* the symbol.                                                              *)

Groups(symbols) == (Len(symbols) + GROUP_SIZE - 1) \div GROUP_SIZE
Chunk(symbols, g) == SubSeq(symbols, (g - 1) * GROUP_SIZE + 1, Least(g * GROUP_SIZE, Len(symbols)))
Frequency(symbols, s) == Number({i \in DOMAIN symbols : symbols[i] = s})
SumOf(f, from, to) == FoldLeft(LAMBDA sum, s : sum + f[s], 0, [i \in 1 .. to - from |-> from + i])
TableCount(n) == 2 + Number({s \in TABLE_STEPS : n >= s})

(* To start with every table takes its share of the symbols.                *)
SeedTables(frequencies, count) ==
  LET alpha == Len(frequencies)
      Seed(x, t) ==
        LET target == x.remaining \div (count - t + 1)
            ends == {e \in x.start .. alpha : e = alpha \/ (e > x.start /\ SumOf(frequencies, x.start, e) >= target)}
            end == CHOOSE e \in ends : \A f \in ends : e <= f
            taken == SumOf(frequencies, x.start, end)
        IN  [start |-> end, remaining |-> IF taken > x.remaining THEN 0 ELSE x.remaining - taken,
             tables |-> Append(x.tables, Now([s \in 1 .. alpha |-> IF s \in x.start + 1 .. end THEN 1 ELSE SEED_HIGH_COST]))]
  IN  FoldLeft(Seed, [start |-> 0, remaining |-> SumOf(frequencies, 0, alpha), tables |-> <<>>], [t \in 1 .. count |-> t]).tables

Cost(table, chunk) == FoldLeft(LAMBDA sum, s : sum + table[s + 1], 0, chunk)

(* Of the tables that cost a group least, the first.                        *)
Best(costs) == CHOOSE t \in DOMAIN costs : \A u \in DOMAIN costs : costs[t] < costs[u] \/ (costs[t] = costs[u] /\ t <= u)

Selectors(tables, symbols) ==
  Now([g \in 1 .. Groups(symbols) |-> Best([t \in DOMAIN tables |-> Cost(tables[t], Chunk(symbols, g))])])

Refitted(alpha, symbols, count, selectors) ==
  LET used(s, t) == {i \in DOMAIN symbols : symbols[i] + 1 = s /\ selectors[((i - 1) \div GROUP_SIZE) + 1] = t}
  IN  [tables |-> Now([t \in 1 .. count |-> AssignLengths(Now([s \in 1 .. alpha |-> Most(1, Number(used(s, t)))]), MAX_CODE_LEN)]),
       selectors |-> selectors]

Refined(x, symbols) == Refitted(Len(x.tables[1]), symbols, Len(x.tables), Selectors(x.tables, symbols))

BuildTables(symbols, alpha) ==
  FoldLeft(LAMBDA x, round : Refined(x, symbols),
           [tables |-> SeedTables(Now([s \in 1 .. alpha |-> Frequency(symbols, s - 1)]), TableCount(Len(symbols))), selectors |-> <<>>],
           [r \in 1 .. REFINE_ROUNDS |-> r])

OfLength(lengths, l) == {s \in DOMAIN lengths : lengths[s] = l}

(* The code of a symbol: shorter ones first, then smaller symbols.          *)
Code(lengths, s) ==
  LET FirstCode[l \in Nat] == IF l = 0 THEN 0 ELSE 2 * (FirstCode[l - 1] + Number(OfLength(lengths, l - 1) \ {0}))
      code == FirstCode[lengths[s]] + Number({r \in OfLength(lengths, lengths[s]) : r < s})
  IN  [k \in 1 .. lengths[s] |-> (code \div (2 ^ (lengths[s] - k))) % 2]

Coded(symbols, x) ==
  FlattenSeq([i \in DOMAIN symbols |-> Code(x.tables[x.selectors[((i - 1) \div GROUP_SIZE) + 1]], symbols[i] + 1)])

-----------------------------------------------------------------------------
(* The encoder                                                              *)

Magic == Token("bzh", <<>>)

WriteTables(crc, sorted, map, symbols, built) ==
  [crc |-> crc, origin |-> sorted.origin, map |-> map, tables |-> built.tables, selectors |-> built.selectors, bits |-> Coded(symbols, built)]

WriteSymbols(crc, sorted, map, symbols) == WriteTables(crc, sorted, map, symbols, BuildTables(symbols, Len(map) + 2))

WriteSorted(crc, sorted) == WriteSymbols(crc, sorted, SymbolMap(sorted.last), MoveToFront(sorted.last))

WriteBlock(w) ==
  IF w.block = <<>> THEN w
  ELSE [w EXCEPT !.out = @ \o (IF w.header_written THEN <<>> ELSE <<Magic>>)
                           \o <<Token("block", WriteSorted(w.block_crc, BurrowsWheeler(w.block)))>>,
                 !.header_written = TRUE, !.stream_crc = Append(@, w.block_crc), !.block_crc = <<>>, !.block = <<>>]

Runs(byte, n) == [i \in 1 .. n |-> byte]

PutRun(w, byte, n) ==
  [w EXCEPT !.block_crc = @ \o Runs(byte, n), !.run_len = 0,
            !.block = @ \o Runs(byte, Least(n, ESCAPE)) \o IF n >= ESCAPE THEN <<n - ESCAPE>> ELSE <<>>]

(* Mutant: room is made for the bytes of a run and not for its count.       *)
FlushRunCountless(w) ==
  IF w.run_len = 0 THEN w
  ELSE PutRun(IF Len(w.block) + ESCAPE > BLOCK_MAX THEN WriteBlock(w) ELSE w, w.run_byte, w.run_len)

FlushRun(w) ==
  IF w.run_len = 0 THEN w
  ELSE PutRun(IF Len(w.block) + ESCAPE + 1 > BLOCK_MAX THEN WriteBlock(w) ELSE w, w.run_byte, w.run_len)

Unwritten == UNCHANGED <<codec, damage, reader, got, refused>>
Puts(w) == writer' = [w EXCEPT !.out = <<>>] /\ wire' = wire \o w.out

(* A stream may come after the zeros of another.                            *)
Open ==
  /\ last = "writing" /\ ~writer.open /\ Len(given) < MaxMembers
  /\ \E zeros \in {<<>>} \cup IF given = <<>> THEN {} ELSE {<<Token("zeros", <<>>)>>} : wire' = wire \o zeros
  /\ writer' = [NewEncoder EXCEPT !.open = TRUE]
  /\ UNCHANGED <<given, last>> /\ Unwritten

(* One run of what is written; the same byte may have come before.          *)
Write(byte, run) ==
  LET merged == IF writer.run_len > 0 /\ writer.run_byte = byte THEN Least(run, MAX_RLE1_RUN - writer.run_len) ELSE 0
      Taking(w, n) == [FlushRun(w) EXCEPT !.run_byte = byte, !.run_len = n]
      rest == run - merged
      parts == [i \in 1 .. (rest + MAX_RLE1_RUN - 1) \div MAX_RLE1_RUN |-> Least(MAX_RLE1_RUN, rest - (i - 1) * MAX_RLE1_RUN)]
  IN  /\ last = "writing" /\ writer.open /\ Len(Sent) + run <= MaxStream
      /\ Puts(FoldLeft(Taking, [writer EXCEPT !.run_len = @ + merged, !.data = @ \o Runs(byte, run)], parts))
      /\ UNCHANGED <<given, last>> /\ Unwritten

Ended(w) == w.out \o (IF w.header_written THEN <<>> ELSE <<Magic>>) \o <<Token("stream", w.stream_crc)>>

Finish ==
  /\ last = "writing" /\ writer.open
  /\ wire' = wire \o Ended(WriteBlock(FlushRun(writer)))
  /\ given' = Append(given, writer.data)
  /\ writer' = NewEncoder
  /\ Closes(MaxMembers)
  /\ Unwritten

-----------------------------------------------------------------------------
(* The decoder                                                              *)

Prefix(bits, at, n) == FoldLeft(LAMBDA code, bit : 2 * code + bit, 0, SubSeq(bits, at + 1, at + n))

(* limit, base and perm: of each length the last code, what is to be taken  *)
(* from a code, and the symbols in the order of their codes.                *)
DecodeTable(lengths) ==
  LET before(l) == Number({s \in DOMAIN lengths : lengths[s] < l})
      Limit[l \in Nat] == IF l = 0 THEN -1 ELSE 2 * (Limit[l - 1] + 1) + Number(OfLength(lengths, l)) - 1
  IN  [limit |-> [l \in ToSet(lengths) |-> Limit[l]],
       base |-> [l \in ToSet(lengths) |-> 2 * (Limit[l - 1] + 1) - before(l)],
       perm |-> Sorted(Numbers(Len(lengths)), LAMBDA a, b : lengths[a] < lengths[b] \/ (lengths[a] = lengths[b] /\ a < b))]

(* The symbols up to the end of the block; none where the bits give out or  *)
(* are no code.                                                             *)
NONE == <<>>
Symbols(block) ==
  LET tables == Now([t \in DOMAIN block.tables |-> DecodeTable(block.tables[t])])
      end == Len(block.map) + 1
      Next1[at \in Nat, k \in Nat] ==
        LET table == tables[block.selectors[(k \div GROUP_SIZE) + 1]]
            fits == {l \in DOMAIN table.limit : at + l <= Len(block.bits) /\ Prefix(block.bits, at, l) <= table.limit[l]}
            l == CHOOSE m \in fits : \A n \in fits : m <= n
            symbol == table.perm[Prefix(block.bits, at, l) - table.base[l] + 1] - 1
        IN  IF k \div GROUP_SIZE >= Len(block.selectors) \/ fits = {} THEN NONE
            ELSE IF symbol = end THEN IF at + l = Len(block.bits) THEN <<end>> ELSE NONE
            ELSE LET rest == Next1[at + l, k + 1] IN IF rest = NONE THEN NONE ELSE <<symbol>> \o rest
  IN  Next1[0, 0]

(* A number of zeros has RUN_A and RUN_B for its digits, the smallest first.*)
FromFront(symbols, map) ==
  LET Zeros(x) == [x EXCEPT !.out = @ \o Runs(x.mtf[1], x.run), !.run = 0, !.place = 1]
      Get(x, s) ==
        IF s \in {RUN_A, RUN_B} THEN [x EXCEPT !.run = @ + x.place * (s + 1), !.place = 2 * @]
        ELSE IF s = Len(map) + 1 THEN Zeros(x)
        ELSE LET y == Zeros(x) IN [y EXCEPT !.out = Append(@, y.mtf[s]), !.mtf = <<y.mtf[s]>> \o Remove(@, y.mtf[s])]
  IN  FoldLeft(Get, [mtf |-> map, out |-> <<>>, run |-> 0, place |-> 1], symbols).out

InverseBwt(column, origin) ==
  LET n == Len(column)
      slot(i) == Number({j \in 1 .. n : column[j] < column[i]}) + Number({j \in 1 .. i - 1 : column[j] = column[i]})
      next == Now([r \in 1 .. n |-> CHOOSE i \in 1 .. n : slot(i) = r - 1])
      Follow(x, i) == [out |-> Append(x.out, column[x.at]), at |-> next[x.at]]
  IN  FoldLeft(Follow, [out |-> <<>>, at |-> next[origin + 1]], column).out

(* None where an escape has no count.                                       *)
DecodeRle1(input) ==
  LET run(i) == CHOOSE n \in 1 .. ESCAPE : /\ i + n - 1 <= Len(input) /\ \A k \in 1 .. n : input[i + k - 1] = input[i]
                                           /\ n < ESCAPE => (i + n > Len(input) \/ input[i + n] # input[i])
      Rest[i \in Nat] ==
        IF i > Len(input) THEN [ok |-> TRUE, out |-> <<>>]
        ELSE IF run(i) < ESCAPE THEN LET rest == Rest[i + run(i)] IN [rest EXCEPT !.out = Runs(input[i], run(i)) \o @]
        ELSE IF i + ESCAPE > Len(input) THEN [ok |-> FALSE, out |-> <<>>]
        ELSE LET rest == Rest[i + ESCAPE + 1] IN [rest EXCEPT !.out = Runs(input[i], ESCAPE + input[i + ESCAPE]) \o @]
  IN  Rest[1]

Reads == Goes /\ reader.out = <<>> /\ ~reader.done
Sees(t) == wire # <<>> /\ Head(wire).t = t
Fail(r) == Fails /\ reader' = r /\ wire' = After(wire, 1)

StartStream ==
  /\ Reads /\ ~reader.started
  /\ IF Sees("bzh") THEN On /\ wire' = Tail(wire) /\ reader' = [reader EXCEPT !.started = TRUE] ELSE Fail(reader)

(* What a block decodes to is held before its checksum is looked at.        *)
Decoded(crc, plain) ==
  IF ~plain.ok THEN Fail(reader)
  ELSE IF plain.out # crc THEN Fail([reader EXCEPT !.out = plain.out])
  ELSE On /\ wire' = Tail(wire) /\ reader' = [reader EXCEPT !.out = plain.out, !.stream_crc = Append(@, crc)]

Sorts(block, column) ==
  IF Len(column) > LIMIT \/ block.origin >= Len(column) THEN Fail(reader)
  ELSE Decoded(block.crc, DecodeRle1(InverseBwt(column, block.origin)))

Codes(block, symbols) == IF symbols = NONE THEN Fail(reader) ELSE Sorts(block, FromFront(symbols, block.map))

NextBlock ==
  /\ Reads /\ reader.started /\ Sees("block")
  /\ Codes(Head(wire).v, Symbols(Head(wire).v))

(* After a stream zeros are skipped, and then another may start.            *)
EndStream ==
  LET after == IF Len(wire) > 1 /\ wire[2].t = "zeros" THEN 2 ELSE 1
  IN  /\ Reads /\ reader.started /\ Sees("stream")
      /\ IF Head(wire).v # reader.stream_crc THEN Fail(reader)
         ELSE IF Len(wire) = after THEN On /\ wire' = <<>> /\ reader' = [reader EXCEPT !.done = TRUE]
         ELSE IF wire[after + 1] = Magic
         THEN On /\ wire' = After(wire, after + 1) /\ reader' = [reader EXCEPT !.stream_crc = <<>>]
         ELSE Fails /\ wire' = After(wire, after + 1) /\ reader' = [reader EXCEPT !.stream_crc = <<>>]

NoBlock == Reads /\ reader.started /\ ~Sees("block") /\ ~Sees("stream") /\ Fail(reader)

Take ==
  /\ Goes /\ reader.out # <<>> /\ UNCHANGED wire
  /\ \E n \in 1 .. Len(reader.out) : Gives(SubSeq(reader.out, 1, n)) /\ reader' = [reader EXCEPT !.out = After(@, n)]

TakeNothing == Goes /\ reader.out = <<>> /\ reader.done /\ Ends /\ UNCHANGED <<wire, reader>>

-----------------------------------------------------------------------------
(* A bit of a block is another.                                             *)
AlterBit ==
  /\ last = "ready" /\ damage = "none"
  /\ \E i \in DOMAIN wire : /\ wire[i].t = "block"
                            /\ \E b \in DOMAIN wire[i].v.bits : wire' = [wire EXCEPT ![i].v.bits[b] = 1 - @]
  /\ damage' = "altered"
  /\ UNCHANGED <<codec, given, writer, reader, got, last, refused>>

BMissed(i, midway) ==
  /\ wire[i + 1].t # "zeros"
  /\ i > 0 /\ wire[i + 1].t = "bzh" => midway

BNext ==
  \/ Open \/ (\E byte \in Bytes, run \in 1 .. 2 * MAX_RLE1_RUN : Write(byte, run)) \/ Finish
  \/ Cut(BMissed) \/ AlterBit \/ Call
  \/ StartStream \/ NextBlock \/ EndStream \/ NoBlock \/ Take \/ TakeNothing

BTypeOK ==
  /\ Len(given) <= MaxMembers /\ writer.run_len <= MAX_RLE1_RUN /\ Len(writer.block) <= BLOCK_MAX
  /\ reader.done => wire = <<>>
=============================================================================
