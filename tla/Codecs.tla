------------------------------- MODULE Codecs -------------------------------
(***************************************************************************)
(* The streaming codecs, ciphers and filters, one at a time: what is       *)
(* written through any of them, in whatever pieces, is what its reader     *)
(* gives, in whatever pieces it is asked for, and what has been damaged on *)
(* the way is noticed.                                                     *)
(***************************************************************************)
EXTENDS Wire, TLAPS

CONSTANTS
  Flags, CHUNK, RESERVE, READ, Padding, MaxPush,           \* Members
  DICT, Slack, Threshold, Radix, MaxData,                  \* XzStreams
  WINDOW_SIZE, BLOCK_MAX, MIN_MATCH, Patterns,             \* ZstdFrames
  ESCAPE, MAX_RLE1_RUN, LIMIT, GROUP_SIZE, TABLE_STEPS,    \* Bzip2
  REFINE_ROUNDS, MAX_CODE_LEN, SEED_HIGH_COST, Bytes, MaxStream, SORT_MAX,
  MaxMembers,
  HEADER_LEN, BLOCK_SIZE, LANES, BLOCK_LEN, CIPHER_CHUNK, MaxSecret,   \* Ciphers
  BASE, CALL, FILTER_CHUNK, Programs, Distance, MaxCut,    \* Filters
  DEFLATE_BLOCK, PROBE_SIZE, MAX_STORED, PARALLEL_CHUNK, LITERALS,     \* Deflate
  LENGTH_BASE, LENGTH_EXTRA, DIST_BASE, DIST_EXTRA, MAX_MATCH,
  MAX_DISTANCE, HASH_BYTES, HASH_SIZE, MAX_CHAIN, GOOD_LENGTH, NICE_LENGTH,
  MAX_BASE, MAX_BITS, MAX_CODE_LENGTH, REPEAT, ZEROS, MANY,
  CODE_LENGTH_ORDER, OUT_CHUNK, MADE_UP, Texts,
  PROB_BITS, MOVE_BITS, LC, PB, LEN_BITS, HIGH_BITS, LEN_STATES,       \* Lzma
  SLOT_BITS, END_POS_MODEL_INDEX, ALIGN_BITS, QUAD, DEPTH, SKIP_SHIFT,
  LZMA_CHUNK, Jobs, MaxDamaged

ASSUME RunsAreEscaped == MAX_RLE1_RUN \in Nat /\ ESCAPE \in 1 .. MAX_RLE1_RUN /\ SORT_MAX > ESCAPE /\ LIMIT >= SORT_MAX

Ms == INSTANCE Members
Xz == INSTANCE XzStreams
Zs == INSTANCE ZstdFrames
Bz == INSTANCE Bzip2 WITH BLOCK_MAX <- SORT_MAX
Ci == INSTANCE Ciphers WITH CHUNK <- CIPHER_CHUNK
Fi == INSTANCE Filters
De == INSTANCE Deflate WITH BLOCK_SIZE <- DEFLATE_BLOCK
Lz == INSTANCE Lzma WITH HASH_BYTES <- QUAD, CHUNK <- LZMA_CHUNK, MaxCut <- MaxDamaged

Init == Ms!MInit \/ Xz!XInit \/ Zs!ZInit \/ Bz!BInit \/ Ci!CInit \/ Fi!FInit \/ De!DInit \/ Lz!LInit

Next ==
  \/ codec \in {"gzip", "lzip", "lzma"} /\ Ms!MNext
  \/ codec = "xz" /\ Xz!XNext
  \/ codec = "zstd" /\ Zs!ZNext
  \/ codec = "bzip2" /\ Bz!BNext
  \/ codec \in {"zipcrypto", "winzip", "7zaes"} /\ Ci!CNext
  \/ codec = "filter" /\ Fi!FNext
  \/ codec = "deflate" /\ De!DNext
  \/ codec = "lzma1" /\ Lz!LNext

(* A call of read that has begun goes on, for it does nothing else.         *)
Reading == codec \notin {"bzip2", "filter", "lzma1"} /\ last = "busy" /\ Next

Spec == Init /\ [][Next]_vars /\ WF_vars(Reading)

TypeOK ==
  /\ damage \in {"none", "cut", "altered", "password"} /\ refused \in BOOLEAN
  /\ last \in {"writing", "ready", "busy", "data", "end", "error"}
  /\ codec \in {"gzip", "lzip", "lzma"} => Ms!MTypeOK
  /\ codec = "xz" => Xz!XTypeOK
  /\ codec = "zstd" => Zs!ZTypeOK
  /\ codec = "bzip2" => Bz!BTypeOK
  /\ codec \in {"zipcrypto", "winzip", "7zaes"} => Ci!CTypeOK
  /\ codec = "filter" => Fi!FTypeOK
  /\ codec = "deflate" => De!DTypeOK
  /\ codec = "lzma1" => Lz!LTypeOK

(* Whatever its pieces, its members, blocks and resets, an undamaged stream *)
(* gives every byte once and in its order, then its end and no error: the   *)
(* read of every codec against the writer of the same codec.                *)
Pipe == INSTANCE Pipe WITH sent <- Sent, damaged <- damage # "none"
ImplementsPipe == Pipe!PipeSpec

(* A stream with checksums that lost its end or had a byte altered, or that *)
(* is opened with another password, never comes to its end quietly: some    *)
(* call of read has failed before, unless the bytes are the ones that were  *)
(* written all the same.  LZMA itself and its plain file, Deflate and the   *)
(* AES of a 7z folder have no checksum of their own; ZipCrypto and the filters notice   *)
(* what is missing only.                                                    *)
Checked ==
  CASE codec \in {"lzma", "lzma1", "7zaes", "deflate"} -> FALSE
    [] codec \in {"zipcrypto", "filter"} -> damage = "cut"
    [] codec = "xz" -> writer.flags = 1 \/ damage = "cut"
    [] codec = "zstd" -> writer.sums
    [] OTHER -> TRUE
DamageIsNoticed == last = "end" /\ damage # "none" /\ Checked => refused \/ got = Sent

(* A gzip or xz reader that has failed fails again, however often it is     *)
(* asked: neither data nor an end follows an error.                         *)
FailureLasts == refused /\ codec \in {"gzip", "xz"} => last \in {"busy", "error"}

(* The bytes that a match may still reach are held in the encoder's sliding *)
(* buffer and in the decoder's window, however they are drained.            *)
HistoryIsHeld ==
  /\ codec = "xz" => Xz!HistoryIsHeld
  /\ codec = "zstd" => Zs!HistoryIsHeld
  /\ codec = "deflate" => De!HistoryIsHeld
  /\ codec = "lzma1" => Lz!HistoryIsHeld

(* gzip and lzip decompress a file at once if it is whole, and only then.   *)
DecompressNotices == codec \in {"gzip", "lzip"} /\ last = "ready" => (Ms!Decompresses(wire) <=> damage = "none")

(* A call of read comes to its result, on a damaged stream too; but not on  *)
(* a Zstandard stream that ends where a block would begin.                  *)
CallsReturn == last = "busy" /\ ~(codec = "zstd" /\ damage = "cut") /\ codec \notin {"bzip2", "filter", "lzma1"} ~> last # "busy"

-----------------------------------------------------------------------------
(* That the failure of a gzip or xz reader lasts, for all constants: such a *)
(* reader has nothing to do but fail once it has, and its "stage" is kept   *)
(* by every step of its own.                                                *)
Lasting ==
  codec \in {"gzip", "xz"} =>
    /\ refused => last \in {"busy", "error"} /\ reader.stage = "failed"
    /\ codec = "gzip" => "stage" \in DOMAIN reader

(* No step turns one codec into another.                                    *)
LEMMA CodecStays == ASSUME Next PROVE codec' = codec
<1>1. CASE Ms!MNext
  <2>1. CASE Ms!Start \/ (\E n \in {1, 2} : Ms!Push(n)) \/ Ms!Finish \/ Ms!Close
    BY ONLY <2>1 DEF Ms!Start, Ms!Push, Ms!Finish, Ms!Close, Ms!Unwritten
  <2>2. CASE Ms!Cut(Ms!Missed) \/ Ms!Alter \/ Ms!Call
    BY ONLY <2>2 DEF Ms!Cut, Ms!Alter, Ms!Call
  <2>3. CASE Ms!StartMember \/ Ms!Fill \/ Ms!Decode
    BY ONLY <2>3 DEF Ms!StartMember, Ms!Fill, Ms!Decode, Ms!Goes
  <2>4. CASE Ms!Enough \/ Ms!EndMember \/ Ms!Starve
    BY ONLY <2>4 DEF Ms!Enough, Ms!EndMember, Ms!Starve, Ms!Goes
  <2>5. CASE Ms!Settled
    BY ONLY <2>5 DEF Ms!Settled, Ms!Goes
  <2> QED
    BY ONLY <1>1, <2>1, <2>2, <2>3, <2>4, <2>5 DEF Ms!MNext
<1>2. CASE Xz!XNext
  <2>1. CASE Xz!StartStream \/ Xz!StartBlock \/ (\E n \in {1, 2} : Xz!Push(n)) \/ (\E l \in BOOLEAN : Xz!Drain(l))
            \/ Xz!FinishBlock \/ Xz!EndBlock \/ Xz!EndStream
    BY ONLY <2>1 DEF Xz!StartStream, Xz!StartBlock, Xz!Push, Xz!Drain, Xz!FinishBlock, Xz!EndBlock, Xz!EndStream, Xz!Unwritten
  <2>2. CASE Xz!Cut(Xz!Missed) \/ Xz!AlterChunk \/ Xz!Call
    BY ONLY <2>2 DEF Xz!Cut, Xz!AlterChunk, Xz!Call
  <2>3. CASE Xz!ReadStreamHeader \/ Xz!StartReadingBlock \/ Xz!FinishStream
    BY ONLY <2>3 DEF Xz!ReadStreamHeader, Xz!StartReadingBlock, Xz!FinishStream, Xz!At, Xz!Goes
  <2>4. CASE Xz!Take \/ Xz!ReadChunk \/ Xz!MissChunk
    BY ONLY <2>4 DEF Xz!Take, Xz!ReadChunk, Xz!MissChunk, Xz!At, Xz!Goes
  <2>5. CASE Xz!FinishReadingBlock \/ Xz!Settled
    BY ONLY <2>5 DEF Xz!FinishReadingBlock, Xz!Settled, Xz!At, Xz!Goes
  <2> QED
    BY ONLY <1>2, <2>1, <2>2, <2>3, <2>4, <2>5 DEF Xz!XNext
<1>3. CASE Zs!ZNext
  <2>1. CASE Zs!StartFrame \/ Zs!Push \/ Zs!Block \/ Zs!Finish \/ Zs!EndFrame
    BY ONLY <2>1 DEF Zs!StartFrame, Zs!Push, Zs!Block, Zs!Finish, Zs!EndFrame, Zs!Unwritten
  <2>2. CASE Zs!Cut(Zs!ZMissed) \/ Zs!AlterBlock \/ Zs!Call
    BY ONLY <2>2 DEF Zs!Cut, Zs!AlterBlock, Zs!Call
  <2>3. CASE Zs!ReadSkippable \/ Zs!EndOfFrames \/ Zs!NoMagic
    BY ONLY <2>3 DEF Zs!ReadSkippable, Zs!EndOfFrames, Zs!NoMagic, Zs!Steps, Zs!Goes
  <2>4. CASE Zs!ReadFrameHeader \/ Zs!ReadBlock \/ Zs!Take
    BY ONLY <2>4 DEF Zs!ReadFrameHeader, Zs!ReadBlock, Zs!Take, Zs!Steps, Zs!Goes
  <2>5. CASE Zs!TakeNothing
    BY ONLY <2>5 DEF Zs!TakeNothing, Zs!Steps, Zs!Goes
  <2> QED
    BY ONLY <1>3, <2>1, <2>2, <2>3, <2>4, <2>5 DEF Zs!ZNext
<1>4. CASE Bz!BNext
  <2>1. CASE Bz!Open \/ (\E byte \in Bytes, run \in 1 .. 2 * MAX_RLE1_RUN : Bz!Write(byte, run)) \/ Bz!Finish
    BY ONLY <2>1 DEF Bz!Open, Bz!Write, Bz!Finish, Bz!Unwritten
  <2>2. CASE Bz!Cut(Bz!BMissed) \/ Bz!AlterBit \/ Bz!Call
    BY ONLY <2>2 DEF Bz!Cut, Bz!AlterBit, Bz!Call
  <2>3. CASE Bz!StartStream \/ Bz!NextBlock \/ Bz!EndStream
    BY ONLY <2>3 DEF Bz!StartStream, Bz!NextBlock, Bz!EndStream, Bz!Reads, Bz!Goes
  <2>4. CASE Bz!NoBlock \/ Bz!Take \/ Bz!TakeNothing
    BY ONLY <2>4 DEF Bz!NoBlock, Bz!Take, Bz!TakeNothing, Bz!Reads, Bz!Goes
  <2> QED
    BY ONLY <1>4, <2>1, <2>2, <2>3, <2>4 DEF Bz!BNext
<1>5. CASE Ci!CNext
  <2>1. CASE Ci!Start \/ (\E n \in 1 .. MaxSecret : Ci!Write(n)) \/ Ci!Finish
    BY ONLY <2>1 DEF Ci!Start, Ci!Write, Ci!Finish, Ci!Unwritten
  <2>2. CASE Ci!Cut(Ci!CMissed) \/ Ci!AlterByte \/ Ci!ForgetPassword \/ Ci!Call
    BY ONLY <2>2 DEF Ci!Cut, Ci!AlterByte, Ci!ForgetPassword, Ci!Call
  <2>3. CASE Ci!OpenAes \/ Ci!OpenZipCrypto \/ Ci!OpenFolder
    BY ONLY <2>3 DEF Ci!OpenAes, Ci!OpenZipCrypto, Ci!OpenFolder, Ci!Opens, Ci!Reads, Ci!ReadsFolder, Ci!Goes
  <2>4. CASE Ci!Decrypt \/ Ci!Short \/ Ci!AtEnd
    BY ONLY <2>4 DEF Ci!Decrypt, Ci!Short, Ci!AtEnd, Ci!Opens, Ci!Reads, Ci!ReadsFolder, Ci!Goes
  <2>5. CASE Ci!AtLimit \/ Ci!NextChunk \/ Ci!TakeFolder
    BY ONLY <2>5 DEF Ci!AtLimit, Ci!NextChunk, Ci!TakeFolder, Ci!Opens, Ci!Reads, Ci!ReadsFolder, Ci!Goes
  <2>6. CASE Ci!Done \/ Ci!Stale
    BY ONLY <2>6 DEF Ci!Done, Ci!Stale, Ci!Opens, Ci!Reads, Ci!ReadsFolder, Ci!Goes
  <2> QED
    BY ONLY <1>5, <2>1, <2>2, <2>3, <2>4, <2>5, <2>6 DEF Ci!CNext
<1>6. CASE Fi!FNext
  BY ONLY <1>6 DEF Fi!FNext, Fi!Push, Fi!Finish, Fi!Unwritten, Fi!Cut, Fi!Call, Fi!Fill, Fi!Take, Fi!TakeNothing, Fi!Reads, Fi!Goes
<1>7. CASE De!DNext
  <2>1. CASE De!Push \/ De!PutBlock \/ De!Finish
    BY ONLY <2>1 DEF De!Push, De!PutBlock, De!Finish, De!Unwritten
  <2>2. CASE De!Cut(De!DMissed) \/ De!Call
    BY ONLY <2>2 DEF De!Cut, De!Call
  <2>3. CASE De!ReadEnd \/ De!NoBlock \/ De!StartStored
    BY ONLY ZenonT(40), <2>3 DEF De!ReadEnd, De!NoBlock, De!StartStored, De!Produces, De!IsBlock, De!Goes
  <2>4. CASE De!StartFixed \/ De!StartDynamic \/ De!ReadStored
    BY ONLY ZenonT(40), <2>4 DEF De!StartFixed, De!StartDynamic, De!ReadStored, De!Produces, De!IsBlock, De!Goes
  <2>5. CASE De!ReadCompressed \/ De!Take \/ De!TakeNothing
    BY ONLY ZenonT(40), <2>5 DEF De!ReadCompressed, De!Take, De!TakeNothing, De!Produces, De!IsBlock, De!Goes
  <2> QED
    BY ONLY <1>7, <2>1, <2>2, <2>3, <2>4, <2>5 DEF De!DNext
<1>8. CASE Lz!LNext
  <2>1. CASE Lz!Push \/ Lz!PutSpan \/ Lz!Finish \/ Lz!Close
    BY ONLY ZenonT(40), <2>1 DEF Lz!Push, Lz!PutSpan, Lz!Finish, Lz!Close, Lz!Unwritten
  <2>2. CASE Lz!Cut(Lz!LMissed) \/ Lz!AlterByte \/ Lz!Call
    BY ONLY <2>2 DEF Lz!Cut, Lz!AlterByte, Lz!Call
  <2>3. CASE Lz!Open \/ Lz!Enough \/ Lz!Decode
    BY ONLY <2>3 DEF Lz!Open, Lz!Enough, Lz!Decode, Lz!Producing, Lz!Goes
  <2>4. CASE Lz!EndMember \/ Lz!DecodeChunk \/ Lz!Take
    BY ONLY <2>4 DEF Lz!EndMember, Lz!DecodeChunk, Lz!Take, Lz!Producing, Lz!Goes
  <2>5. CASE Lz!TakeNothing
    BY ONLY <2>5 DEF Lz!TakeNothing, Lz!Producing, Lz!Goes
  <2> QED
    BY ONLY <1>8, <2>1, <2>2, <2>3, <2>4, <2>5 DEF Lz!LNext
<1> QED
  BY <1>1, <1>2, <1>3, <1>4, <1>5, <1>6, <1>7, <1>8 DEF Next

(* Members: in gzip.                                                        *)
LEMMA GzipLasts == ASSUME codec = "gzip", codec' = codec, Lasting, Ms!MNext PROVE Lasting'
<1> USE DEF Lasting
<1>1. refused \in {TRUE} => last \in {"busy", "error"} /\ reader.stage = "failed"
  OBVIOUS
<1>2. ASSUME UNCHANGED <<reader, refused>>, last \in {"writing", "ready"} \/ last' \in {"busy", last}
      PROVE  Lasting'
  BY <1>2
<1>3. ASSUME Ms!Start \/ (\E n \in {1, 2} : Ms!Push(n)) \/ Ms!Finish \/ Ms!Close
      PROVE  Lasting'
  BY <1>2, <1>3 DEF Ms!Start, Ms!Push, Ms!Finish, Ms!Close, Ms!Unwritten
<1>4. ASSUME Ms!Cut(Ms!Missed) \/ Ms!Alter \/ Ms!Call
      PROVE  Lasting'
  BY <1>2, <1>4 DEF Ms!Cut, Ms!Alter, Ms!Call
<1>5. ASSUME Ms!Fail
      PROVE  Lasting'
  BY <1>5 DEF Ms!Fail, Ms!Fails, Ms!Stage, Ms!Failed
<1>6. ASSUME ~refused, ~refused', "stage" \in DOMAIN reader'
      PROVE  Lasting'
  BY <1>6
<1>7. CASE Ms!Settled
  BY <1>7 DEF Ms!Settled, Ms!Goes, Ms!Ends, Ms!Fails
<1>8. ASSUME Ms!StartMember \/ Ms!Fill \/ Ms!Decode \/ Ms!Enough \/ Ms!EndMember \/ Ms!Starve
      PROVE  Lasting'
  <2>1. reader.stage \in {"between", "member"}
    BY <1>8 DEF Ms!StartMember, Ms!Fill, Ms!Decode, Ms!Enough, Ms!EndMember, Ms!Starve
  <2>2. ~refused
    BY <2>1
  <2>3. ASSUME Ms!Ends \/ Ms!On \/ (\E bytes : Ms!Gives(bytes))
        PROVE  ~refused'
    BY <2>2, <2>3 DEF Ms!Ends, Ms!On, Ms!Gives
  <2>4. ASSUME NEW rest, Ms!FinishMember(rest)
        PROVE  Ms!Fail \/ (~refused' /\ "stage" \in DOMAIN reader')
    BY <2>2, <2>4 DEF Ms!FinishMember, Ms!Ends, Ms!On, Ms!Stage
  <2>5. CASE Ms!StartMember
    <3>1. Ms!Fail \/ (~refused' /\ "stage" \in DOMAIN reader')
      BY <2>2, <2>5 DEF Ms!StartMember, Ms!Ends, Ms!On, Ms!Stage
    <3> QED
      BY <1>5, <1>6, <2>2, <3>1
  <2>6. CASE Ms!Fill
    BY <1>6, <2>2, <2>6 DEF Ms!Fill, Ms!On
  <2>7. CASE Ms!Decode
    BY <1>6, <2>2, <2>7 DEF Ms!Decode, Ms!Given, Ms!Gives
  <2>8. CASE Ms!Enough
    BY <1>6, <2>2, <2>8 DEF Ms!Enough, Ms!Ends
  <2>9. CASE Ms!EndMember
    BY <1>5, <1>6, <2>2, <2>4, <2>9 DEF Ms!EndMember
  <2>10. CASE Ms!Starve
    <3>1. CASE Ms!Fail \/ Ms!FinishMember(reader.ahead)
      BY <1>5, <1>6, <2>2, <2>4, <3>1
    <3>2. ASSUME Ms!Gives(<<0>>), reader' = [reader EXCEPT !.pad = @ + 1, !.sum = Append(@, 0), !.left = Ms!Most(0, @ - 1)]
          PROVE  Lasting'
      BY <1>6, <2>2, <3>2 DEF Ms!Gives
    <3> QED
      BY <2>10, <3>1, <3>2 DEF Ms!Starve
  <2> QED
    BY <1>8, <2>5, <2>6, <2>7, <2>8, <2>9, <2>10
<1> QED
  BY <1>3, <1>4, <1>7, <1>8 DEF Ms!MNext

(* xz: a reader that failed is at none of the other stages.                 *)
LEMMA XzLasts == ASSUME codec = "xz", codec' = codec, Lasting, Xz!XNext PROVE Lasting'
<1> USE DEF Lasting
<1>1. ASSUME Xz!StartStream \/ Xz!StartBlock \/ (\E n \in {1, 2} : Xz!Push(n)) \/ (\E l \in BOOLEAN : Xz!Drain(l))
             \/ Xz!FinishBlock \/ Xz!EndBlock \/ Xz!EndStream
      PROVE  ~refused'
  BY <1>1 DEF Xz!StartStream, Xz!StartBlock, Xz!Push, Xz!Drain, Xz!FinishBlock, Xz!EndBlock, Xz!EndStream, Xz!Unwritten
<1>2. ASSUME Xz!Cut(Xz!Missed) \/ Xz!AlterChunk
      PROVE  ~refused'
  BY <1>2 DEF Xz!Cut, Xz!AlterChunk
<1>3. CASE Xz!Call
  BY <1>3 DEF Xz!Call
<1>4. CASE Xz!Settled
  BY <1>4 DEF Xz!Settled, Xz!Goes, Xz!Ends, Xz!Fails
<1>5. ASSUME Xz!Fail
      PROVE  Lasting'
  BY <1>5 DEF Xz!Fail, Xz!Fails
<1>6. ASSUME Xz!ReadStreamHeader \/ Xz!StartReadingBlock \/ Xz!FinishStream \/ Xz!Take \/ Xz!ReadChunk
             \/ Xz!MissChunk \/ Xz!FinishReadingBlock
      PROVE  Xz!Fail \/ ~refused'
  <2>1. ~refused
    BY <1>6 DEF Xz!ReadStreamHeader, Xz!StartReadingBlock, Xz!FinishStream, Xz!Take, Xz!ReadChunk, Xz!MissChunk,
                Xz!FinishReadingBlock, Xz!At
  <2>2. CASE Xz!ReadStreamHeader
    BY <2>1, <2>2 DEF Xz!ReadStreamHeader, Xz!Ends, Xz!On
  <2>3. CASE Xz!StartReadingBlock
    BY <2>1, <2>3 DEF Xz!StartReadingBlock, Xz!On
  <2>4. CASE Xz!FinishStream
    BY <2>1, <2>4 DEF Xz!FinishStream, Xz!On
  <2>5. CASE Xz!Take
    BY <2>1, <2>5 DEF Xz!Take, Xz!Gives
  <2>6. CASE Xz!ReadChunk
    BY <2>1, <2>6 DEF Xz!ReadChunk, Xz!On
  <2>7. CASE Xz!MissChunk
    BY <2>1, <2>7 DEF Xz!MissChunk, Xz!On
  <2>8. CASE Xz!FinishReadingBlock
    BY <2>1, <2>8 DEF Xz!FinishReadingBlock, Xz!On
  <2> QED
    BY <1>6, <2>2, <2>3, <2>4, <2>5, <2>6, <2>7, <2>8
<1> QED
  BY <1>1, <1>2, <1>3, <1>4, <1>5, <1>6 DEF Xz!XNext

(* A gzip or xz reader that has failed fails again, for all constants.      *)
THEOREM FailuresLast == Spec => []FailureLasts
<1>1. Init => Lasting
  BY DEF Init, Lasting, Ms!MInit, Xz!XInit, Zs!ZInit, Bz!BInit, Ci!CInit, Fi!FInit, De!DInit, Lz!LInit
<1>2. Lasting /\ [Next]_vars => Lasting'
  <2>1. CASE UNCHANGED vars
    BY <2>1 DEF Lasting, vars
  <2>2. CASE Next
    <3>1. codec' = codec
      BY <2>2, CodecStays
    <3>2. CASE codec = "gzip"
      BY <2>2, <3>1, <3>2, GzipLasts DEF Next
    <3>3. CASE codec = "xz"
      BY <2>2, <3>1, <3>3, XzLasts DEF Next
    <3>4. CASE codec \notin {"gzip", "xz"}
      BY <3>1, <3>4 DEF Lasting
    <3> QED
      BY <3>2, <3>3, <3>4
  <2> QED
    BY <2>1, <2>2
<1>3. Lasting => FailureLasts
  BY DEF Lasting, FailureLasts
<1> QED
  BY <1>1, <1>2, <1>3, PTL DEF Spec
=============================================================================
