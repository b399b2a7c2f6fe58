------------------------------ MODULE Filters -------------------------------
(***************************************************************************)
(* Filters of a 7z folder.  The writer holds the folder and filters it as  *)
(* a whole; the reader filters back what it gets in chunks, of which the   *)
(* filter may leave the end to the next.  Delta takes from every byte the  *)
(* one so many before it; the others put where a call leads in the place   *)
(* of how far it leads.                                                    *)
(*                                                                         *)
(* A byte is a digit of base BASE, a power of two, and what the code does  *)
(* with bytes and words of 256 is done with such digits.  CALL is the byte *)
(* of the instruction that calls (E8 or E9, EB).  Instructions are at      *)
(* offsets from 0, sequences start at 1.                                   *)
(***************************************************************************)
EXTENDS Wire

CONSTANTS
  BASE, CALL,
  FILTER_CHUNK,   \* bytes filtered at a time
  Programs,       \* of every filter the folders it is tried on
  Distance,       \* of Delta
  MaxCut          \* bytes of a folder that may lose its end

WORD == BASE ^ 4
Shifted(way, source, position) == IF way = "encode" THEN (source + position) % WORD ELSE (source + WORD - (position % WORD)) % WORD
Digit(value, k) == (value \div (BASE ^ k)) % BASE
Holds(data, i, bytes) == SubSeq([j \in DOMAIN data |-> IF j \in i + 1 .. i + Len(bytes) THEN bytes[j - i] ELSE data[j]], 1, Len(data))

(* What a filter makes of data, how much of it is done, and what it keeps.  *)
Result(data, done, kept) == [data |-> data, done |-> done, kept |-> kept]

-----------------------------------------------------------------------------
(* Delta, with the bytes before the data that it reaches back to.           *)

Before(all, i) == IF i > Distance THEN all[i - Distance] ELSE 0

DeltaEncoded(all) == [i \in DOMAIN all |-> (all[i] + BASE - Before(all, i)) % BASE]

(* History and data, of which the data is restored.                         *)
DeltaRestored(history, data) == FoldLeft(LAMBDA all, byte : Append(all, (byte + Before(all, Len(all) + 1)) % BASE), history, data)

DeltaConvert(data, history, all) == Result(After(all, Len(history)), Len(data), SubSeq(all, Len(all) - Least(Distance, Len(all)) + 1, Len(all)))

-----------------------------------------------------------------------------
(* x86: a call has four bytes of distance, of which the last is 0 or all    *)
(* ones.  What looks like a call may be within another instruction: the     *)
(* mask tells which of the bytes before looked like one.                    *)

TestMsByte(byte) == byte \in {0, BASE - 1}
Faded(mask, gap) == IF gap > 2 THEN 0 ELSE mask \div (2 ^ gap)
Marked(mask) == mask \div 2 + 4

(* The digits of a value up to the k-th turned over.                        *)
Flipped(value, k) == value + BASE ^ (k + 1) - 1 - 2 * (value % (BASE ^ (k + 1)))

X86Target(value, current, mask, way) ==
  LET once == Shifted(way, value, current)
      k == mask \div 2
  IN  IF mask # 0 /\ TestMsByte(Digit(once, k)) THEN Shifted(way, Flipped(once, k), current) ELSE once

X86Bytes(value) == <<Digit(value, 0), Digit(value, 1), Digit(value, 2), IF Digit(value, 3) % 2 = 1 THEN BASE - 1 ELSE 0>>

Value(data, i) == data[i + 1] + BASE * data[i + 2] + BASE ^ 2 * data[i + 3] + BASE ^ 3 * data[i + 4]

IsInside(data, at, mask) == mask # 0 /\ (mask > 4 \/ mask = 3 \/ TestMsByte(data[at + mask \div 2 + 2]))

X86Convert(whole, start, mask0, way) ==
  LET limit == Len(whole) - 4
      (* From the byte after the last one looked at, and from the next.      *)
      From[data \in Seq(0 .. BASE - 1), pos \in Nat, at \in Nat, mask \in 0 .. 7] ==
        IF at < limit /\ data[at + 1] # CALL THEN From[data, pos, at + 1, mask]
        ELSE IF at # pos THEN From[data, at, at, Faded(mask, at - pos)]
        ELSE IF at >= limit THEN Result(data, at, mask)
        ELSE IF IsInside(data, at, mask) \/ ~TestMsByte(data[at + 5]) THEN From[data, at + 1, at + 1, Marked(mask)]
        ELSE From[Holds(data, at + 1, X86Bytes(X86Target(Value(data, at + 1), start + 5 + at, mask, way))), at + 5, at + 5, 0]
  IN  IF limit < 1 THEN Result(whole, 0, mask0) ELSE From[whole, 0, 0, mask0]

-----------------------------------------------------------------------------
(* ARM: words of four bytes, three of them the distance in words.           *)

ArmBytes(word, position, way) ==
  LET source == word[1] + BASE * word[2] + BASE ^ 2 * word[3]
      destination == Shifted(way, 4 * source, position + 8) \div 4
  IN  IF word[4] = CALL THEN <<Digit(destination, 0), Digit(destination, 1), Digit(destination, 2), CALL>> ELSE word

ArmConvert(data, start, way) ==
  LET word(i) == SubSeq(data, i + 1, i + 4)
      done == Len(data) - (Len(data) % 4)
  IN  Result([j \in DOMAIN data |->
                LET i == j - 1 - ((j - 1) % 4) IN IF i < done THEN ArmBytes(word(i), start + i, way)[j - i] ELSE data[j]], done, 0)

(* Thumb: a call is two half words, each marked in its upper byte, of which *)
(* the lower half counts; another may start at every half word that is not  *)
(* the second of one.                                                       *)
HALF == BASE \div 2
IsThumbCall(data, i) == data[i + 2] < HALF /\ data[i + 4] >= HALF

ThumbBytes(data, i, position, way) ==
  LET source == ((data[i + 2] % HALF) * BASE + data[i + 1]) * HALF * BASE + (data[i + 4] % HALF) * BASE + data[i + 3]
      destination == Shifted(way, 2 * source, position + 4) \div 2
      upper == destination \div (HALF * BASE)
  IN  <<upper % BASE, (upper \div BASE) % HALF, destination % BASE, HALF + ((destination \div BASE) % HALF)>>

ThumbConvert(whole, start, way) ==
  LET From[data \in Seq(0 .. BASE - 1), i \in Nat] ==
        IF i + 4 > Len(data) THEN Result(data, i, 0)
        ELSE IF IsThumbCall(data, i) THEN From[Holds(data, i, ThumbBytes(data, i, start + i, way)), i + 4]
        ELSE From[data, i + 2]
  IN  From[whole, 0]

-----------------------------------------------------------------------------
(* The writer                                                               *)

Filters == {"delta", "x86", "arm", "thumb"}

FInit ==
  /\ codec = "filter"
  /\ given = <<>> /\ wire = <<>> /\ damage = "none" /\ got = <<>> /\ last = "writing" /\ refused = FALSE
  /\ \E filter \in Filters : writer = [data |-> <<>>, filter |-> filter]
  /\ reader = [pending |-> <<>>, ready |-> <<>>, at |-> 0, produced |-> 0, drained |-> FALSE, position |-> 0,
               kept |-> IF writer.filter = "delta" THEN <<>> ELSE 0]

Encode(data) ==
  CASE writer.filter = "delta" -> DeltaEncoded(data)
    [] writer.filter = "x86" -> X86Convert(data, 0, 0, "encode").data
    [] writer.filter = "arm" -> ArmConvert(data, 0, "encode").data
    [] writer.filter = "thumb" -> ThumbConvert(data, 0, "encode").data

Unwritten == UNCHANGED <<codec, damage, reader, got, refused>>

Push(bytes) ==
  /\ last = "writing" /\ writer.data = <<>>
  /\ writer' = [writer EXCEPT !.data = bytes]
  /\ UNCHANGED <<given, wire, last>> /\ Unwritten

Finish ==
  /\ last = "writing"
  /\ wire' = Data(Encode(writer.data))
  /\ given' = <<writer.data>>
  /\ writer' = [writer EXCEPT !.data = <<>>]
  /\ last' = "ready"
  /\ Unwritten

-----------------------------------------------------------------------------
(* The reader                                                               *)

Convert(data) ==
  CASE writer.filter = "delta" -> DeltaConvert(data, reader.kept, DeltaRestored(reader.kept, data))
    [] writer.filter = "x86" -> X86Convert(data, reader.position, reader.kept, "decode")
    [] writer.filter = "arm" -> ArmConvert(data, reader.position, "decode")
    [] writer.filter = "thumb" -> ThumbConvert(data, reader.position, "decode")

(* What a filter leaves is kept for the next time, but not the last time.   *)
Done(result, drained) == IF drained THEN Len(result.data) ELSE result.done

Reads == Goes /\ reader.at = Len(reader.ready)
Wanted == Most(FILTER_CHUNK - Len(reader.pending), 1)

Converted(result, done, drained) ==
  /\ reader' = [pending |-> After(result.data, done), ready |-> SubSeq(result.data, 1, done), at |-> 0, drained |-> drained,
                produced |-> reader.produced + done, position |-> reader.position + done, kept |-> result.kept]
  /\ IF drained /\ reader.produced + done # Len(Sent) THEN Fails ELSE On

(* The source is read until a chunk is full or the source is at its end.    *)
Fill ==
  /\ Reads /\ ~reader.drained
  /\ wire' = After(wire, Least(Wanted, Len(wire)))
  /\ \E data \in {reader.pending \o [i \in 1 .. Least(Wanted, Len(wire)) |-> wire[i].v[1]]}, drained \in {Len(wire) < Wanted} :
       \E result \in {Convert(data)} : Converted(result, Done(result, drained), drained)

Take ==
  /\ Goes /\ reader.at < Len(reader.ready) /\ UNCHANGED wire
  /\ \E n \in 1 .. Len(reader.ready) - reader.at :
       /\ Gives(SubSeq(reader.ready, reader.at + 1, reader.at + n))
       /\ reader' = [reader EXCEPT !.at = @ + n]

TakeNothing == Reads /\ reader.drained /\ Ends /\ UNCHANGED <<wire, reader>>

-----------------------------------------------------------------------------
FMissed(i, midway) == ~midway /\ Len(wire) <= MaxCut

FNext ==
  \/ (\E bytes \in Programs[writer.filter] : Push(bytes)) \/ Finish
  \/ Cut(FMissed) \/ Call
  \/ Fill \/ Take \/ TakeNothing

FTypeOK ==
  /\ Len(reader.pending) <= FILTER_CHUNK /\ reader.at <= Len(reader.ready)
  /\ reader.produced <= Len(Sent)
  /\ IF writer.filter = "delta" THEN Len(reader.kept) <= Distance ELSE reader.kept <= 7
=============================================================================
