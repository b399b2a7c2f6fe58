----------------------------- MODULE RangeCoder -----------------------------
(***************************************************************************)
(* The range coder of LZMA.  A bit narrows the range of an encoder by the  *)
(* probability of its context and adds to low, of which a byte leaves when *)
(* no carry can reach it any more.  Registers are of four bytes.           *)
(***************************************************************************)
LOCAL INSTANCE Integers
LOCAL INSTANCE Sequences
LOCAL INSTANCE SequencesExt
LOCAL INSTANCE TLC

CONSTANTS BASE,        \* bytes that there are
          PROB_BITS, MOVE_BITS

TOP == BASE ^ 3
REGISTER == BASE ^ 4

-----------------------------------------------------------------------------
(* Probabilities of a 0, by context; those that have not been used are not  *)
(* held.                                                                    *)
PROB_INIT == 2 ^ (PROB_BITS - 1)
Prob(probs, context) == IF context \in DOMAIN probs THEN probs[context] ELSE PROB_INIT
Bound(c, context) == (c.range \div 2 ^ PROB_BITS) * Prob(c.probs, context)
Adapted(probs, context, bit) ==
  LET p == Prob(probs, context)
  IN  (context :> IF bit = 0 THEN p + (2 ^ PROB_BITS - p) \div 2 ^ MOVE_BITS ELSE p - p \div 2 ^ MOVE_BITS) @@ probs

NoProbs == [c \in {} |-> 0]

-----------------------------------------------------------------------------
(* RangeEncoder                                                             *)

NewEncoder(probs) == [low |-> 0, range |-> REGISTER - 1, cache |-> 0, pending |-> 1, probs |-> probs, out |-> <<>>]

(* A byte that is all ones waits with those before it for the carry.        *)
ShiftLow(c) ==
  LET carry == c.low \div REGISTER
      leaving == [i \in 1 .. c.pending |-> ((IF i = 1 THEN c.cache ELSE BASE - 1) + carry) % BASE]
      shifted == [c EXCEPT !.low = (@ * BASE) % REGISTER]
  IN  IF c.low < REGISTER - TOP \/ c.low >= REGISTER
      THEN [shifted EXCEPT !.out = @ \o leaving, !.cache = (c.low \div TOP) % BASE, !.pending = 1]
      ELSE [shifted EXCEPT !.pending = @ + 1]

Widened(c) == FoldLeft(LAMBDA d, i : IF d.range < TOP THEN ShiftLow([d EXCEPT !.range = @ * BASE]) ELSE d, c, <<1, 2, 3>>)

(* A decision is a bit in its context, or without one.                      *)
Direct == <<>>

Encoded(c, context, bit) ==
  LET bound == IF context = Direct THEN c.range \div 2 ELSE Bound(c, context)
      probs == IF context = Direct THEN c.probs ELSE Adapted(c.probs, context, bit)
  IN  Widened([c EXCEPT !.low = @ + IF bit = 0 THEN 0 ELSE bound,
                        !.range = IF bit = 0 \/ context = Direct THEN bound ELSE @ - bound, !.probs = probs])

(* The context of each bit of a symbol holds the bits before it.            *)
Node(bits) == FoldLeft(LAMBDA node, bit : 2 * node + bit, 1, bits)
Walk(context, bits) == [k \in DOMAIN bits |-> <<Append(context, Node(SubSeq(bits, 1, k - 1))), bits[k]>>]
HighFirst(symbol, n) == [k \in 1 .. n |-> (symbol \div 2 ^ (n - k)) % 2]
LowFirst(symbol, n) == [k \in 1 .. n |-> (symbol \div 2 ^ (k - 1)) % 2]
Tree(context, n, symbol) == Walk(context, HighFirst(symbol, n))
TreeReverse(context, n, symbol) == Walk(context, LowFirst(symbol, n))
DirectBits(value, n) == [k \in 1 .. n |-> <<Direct, HighFirst(value, n)[k]>>]

EncodedAll(c, decisions) == FoldLeft(LAMBDA d, decision : Encoded(d, decision[1], decision[2]), c, decisions)
Finished(c) == FoldLeft(LAMBDA d, i : ShiftLow(d), c, <<1, 2, 3, 4, 5>>).out

-----------------------------------------------------------------------------
(* RangeDecoder: each operator gives the decoder after it, with the value   *)
(* that has been read.  Where the input has ended there are zeros.          *)

START_LEN == 5
NewDecoder(input, probs) ==
  [range |-> REGISTER - 1, code |-> FoldLeft(LAMBDA code, byte : code * BASE + byte, 0, SubSeq(input, 2, START_LEN)),
   probs |-> probs, input |-> input, taken |-> START_LEN, value |-> 0, node |-> 1]

Byte(d) == IF d.taken < Len(d.input) THEN d.input[d.taken + 1] ELSE 0
Normalized(d) ==
  IF d.range >= TOP THEN d
  ELSE [d EXCEPT !.range = (@ * BASE) % REGISTER, !.code = (@ * BASE + Byte(d)) % REGISTER, !.taken = @ + 1]

ReadBit(d, context) ==
  LET bound == Bound(d, context)
      bit == IF d.code < bound THEN 0 ELSE 1
  IN  Normalized([d EXCEPT !.range = IF bit = 0 THEN bound ELSE @ - bound, !.code = IF bit = 0 THEN @ ELSE @ - bound,
                           !.probs = Adapted(@, context, bit), !.value = bit])

(* What a difference wraps to below zero shows in its first bit.            *)
ReadDirect(d) ==
  LET half == d.range \div 2
      rest == (d.code + REGISTER - half) % REGISTER
      below == rest >= REGISTER \div 2
  IN  Normalized([d EXCEPT !.range = half, !.code = IF below THEN (rest + half) % REGISTER ELSE rest, !.value = IF below THEN 0 ELSE 1])

Turns(n) == [i \in 1 .. n |-> i]
Below(d) == [d EXCEPT !.node = 2 * @ + d.value]
ReadNode(d, context) == Below(ReadBit(d, Append(context, d.node)))
Leaf(d, n) == [d EXCEPT !.value = d.node - 2 ^ n]
ReadTree(d, context, n) == Leaf(FoldLeft(LAMBDA e, i : ReadNode(e, context), [d EXCEPT !.node = 1], Turns(n)), n)

(* The same bits, the last one first.                                       *)
Reversed(d, n) == [d EXCEPT !.value = FoldLeft(LAMBDA sum, k : sum + 2 ^ (k - 1) * HighFirst(@, n)[k], 0, Turns(n))]
ReadTreeReverse(d, context, n) == Reversed(ReadTree(d, context, n), n)

ReadDirectBits(d, n) == Leaf(FoldLeft(LAMBDA e, i : Below(ReadDirect(e)), [d EXCEPT !.node = 1], Turns(n)), n)
=============================================================================
