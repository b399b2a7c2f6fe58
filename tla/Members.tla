------------------------------ MODULE Members -------------------------------
(***************************************************************************)
(* gzip, lzip and the plain LZMA file: a header, compressed data, and for  *)
(* the first two a trailer, any number of such members one after another   *)
(* and zeros after the last.  Their decoders read ahead, so what they hold *)
(* when a member ends is the start of what follows it.                     *)
(*                                                                         *)
(* The codec proper is one token to a byte and one for the end.            *)
(***************************************************************************)
EXTENDS Wire

CONSTANTS
  Flags,        \* optional fields of a header that a member may have
  CHUNK,        \* bytes an LZMA writer encodes at a time
  RESERVE,      \* bytes it keeps back while more may come
  READ,         \* tokens a decoder asks for at a time
  Padding,      \* bytes Inflate and bound on the ones LZMA makes up
  MaxPush, MaxMembers

MInit ==
  /\ codec \in {"gzip", "lzip", "lzma"}
  /\ given = <<>> /\ wire = <<>> /\ damage = "none" /\ got = <<>> /\ last = "writing" /\ refused = FALSE
  /\ writer = [data |-> <<>>, at |-> 0, open |-> FALSE, sized |-> FALSE]
  /\ reader = [stage |-> "between", feed |-> <<>>, ahead |-> <<>>, sum |-> <<>>, left |-> 0, pad |-> 0]

-----------------------------------------------------------------------------
(* Writers                                                                  *)

Unwritten == UNCHANGED <<codec, damage, reader, got, refused>>
Header(fields) == <<Token("header", fields)>> \o [i \in DOMAIN fields |-> Token(fields[i], <<>>)]

(* A writer that streams does not know the size; one that has all of the    *)
(* data puts it into the header of an LZMA file.                            *)
Start ==
  /\ last = "writing" /\ ~writer.open /\ Len(given) < IF codec = "lzma" THEN 1 ELSE MaxMembers
  /\ \E fields \in IF codec = "gzip" THEN {<<>>, Flags} ELSE {<<>>}, sized \in IF codec = "lzma" THEN BOOLEAN ELSE {FALSE} :
       /\ wire' = wire \o Header(fields)
       /\ writer' = [data |-> <<>>, at |-> 0, open |-> TRUE, sized |-> sized]
  /\ UNCHANGED <<given, last>> /\ Unwritten

(* How far an LZMA writer may encode: in whole chunks, short of what the    *)
(* longest match might still change, until no more can come.                *)
EncodedUpTo(at, end, final) ==
  IF final THEN end ELSE IF end - at < RESERVE THEN at ELSE at + CHUNK * ((end - at - RESERVE) \div CHUNK)

Push(n) ==
  LET data == writer.data \o Fresh(n)
      at == IF codec = "gzip" THEN Len(data) ELSE EncodedUpTo(writer.at, Len(data), FALSE)
  IN  /\ last = "writing" /\ writer.open /\ Len(data) <= MaxPush
      /\ writer' = [writer EXCEPT !.data = data, !.at = at]
      /\ wire' = wire \o Data(SubSeq(data, writer.at + 1, at))
      /\ UNCHANGED <<given, last>> /\ Unwritten

(* Mutant: the sizes are compared, the checksums are not.                   *)
TrailerOfSize(data) == Token("trailer", <<Len(data)>>)

Trailer(data) == Token("trailer", data)

Finish ==
  LET data == writer.data
      rest == Data(SubSeq(data, writer.at + 1, EncodedUpTo(writer.at, Len(data), TRUE)))
      size(w) == [w EXCEPT ![1].v = <<Len(data)>>]
  IN  /\ last = "writing" /\ writer.open
      /\ wire' = IF codec = "lzma" THEN IF writer.sized THEN size(wire \o rest) ELSE wire \o rest \o <<Token("final", <<>>)>>
                 ELSE wire \o rest \o <<Token("final", <<>>), Trailer(data)>>
      /\ given' = Append(given, data)
      /\ writer' = [data |-> <<>>, at |-> 0, open |-> FALSE, sized |-> FALSE]
      /\ UNCHANGED last /\ Unwritten

(* The file may have been padded with zeros.                                *)
Close ==
  /\ last = "writing" /\ ~writer.open /\ given # <<>>
  /\ last' = "ready"
  /\ \E zeros \in IF codec = "lzma" THEN {<<>>} ELSE {<<>>, <<Token("zeros", <<>>)>>} : wire' = wire \o zeros
  /\ UNCHANGED <<given, writer>> /\ Unwritten

-----------------------------------------------------------------------------
(* Readers                                                                  *)

Source == reader.feed \o wire
Take(n) == wire' = After(wire, n - Least(n, Len(reader.feed)))
Fed(n) == After(reader.feed, n)
Stage(s) == reader' = [reader EXCEPT !.stage = s]

(* Mutant: a gzip reader that failed looks for the next member.             *)
FailedBetween == IF codec = "gzip" THEN "between" ELSE "done"

(* A gzip reader that failed goes on failing; an lzip reader has let go of  *)
(* its source; an LZMA decoder is as it was.                                *)
Failed == CASE codec = "gzip" -> "failed" [] codec = "lzip" -> "done" [] codec = "lzma" -> reader.stage
Fail == Fails /\ Stage(Failed) /\ UNCHANGED wire

(* A member starts only where its header is whole, with every field that    *)
(* the header says it has.                                                  *)
IsHeader(s) ==
  /\ s[1].t = "header"
  /\ codec = "gzip" => /\ Len(s) > Len(s[1].v)
                       /\ \A i \in DOMAIN s[1].v : s[i + 1].t = s[1].v[i]

StartMember ==
  LET fields == Len(Source[1].v)
      n == IF codec = "gzip" THEN 1 + fields ELSE 1
  IN  /\ Goes /\ reader.stage = "between"
      /\ IF codec # "lzma" /\ (Source = <<>> \/ Source[1].t = "zeros") THEN Ends /\ Stage("done") /\ UNCHANGED wire
         ELSE IF Source = <<>> \/ ~IsHeader(Source) THEN Fail
         ELSE /\ On /\ Take(n)
              /\ reader' = [reader EXCEPT !.stage = "member", !.feed = Fed(n), !.sum = <<>>, !.pad = 0,
                                          !.left = IF codec = "lzma" /\ fields = 1 THEN Source[1].v[1] + 1 ELSE 0]

(* One read of the source, short or not; what was handed back comes first.  *)
Fill ==
  /\ Goes /\ On /\ reader.stage = "member" /\ reader.ahead = <<>> /\ reader.left # 1
  /\ \/ /\ reader.feed # <<>>
        /\ LET n == Least(READ, Len(reader.feed))
           IN  reader' = [reader EXCEPT !.ahead = SubSeq(reader.feed, 1, n), !.feed = Fed(n)]
        /\ UNCHANGED wire
     \/ /\ reader.feed = <<>>
        /\ \E n \in 1 .. Least(READ, Len(wire)) :
             reader' = [reader EXCEPT !.ahead = SubSeq(wire, 1, n)] /\ wire' = After(wire, n)

Given(byte) ==
  /\ Gives(<<byte>>)
  /\ reader' = [reader EXCEPT !.sum = Append(@, byte), !.left = Most(0, @ - 1),
                              !.ahead = IF @ = <<>> THEN @ ELSE Tail(@)]

Decode ==
  /\ Goes /\ UNCHANGED wire /\ reader.stage = "member" /\ reader.ahead # <<>> /\ reader.left # 1
  /\ Head(reader.ahead).t = "data" /\ Given(Head(reader.ahead).v[1])

(* An LZMA decoder that was told the size stops there.                      *)
Enough == Goes /\ UNCHANGED wire /\ reader.stage = "member" /\ reader.left = 1 /\ Ends /\ UNCHANGED reader

(* Mutant: what the decoder has read ahead is lost.                         *)
HandedBackNothing(rest) == reader.feed

(* After the data, what the decoder holds goes before what it did not ask   *)
(* for; lzip has nothing of that kind left.                                 *)
HandedBack(rest) == IF codec = "gzip" THEN rest \o reader.feed ELSE rest

FinishMember(rest) ==
  LET source == HandedBack(rest) \o wire
  IN  IF codec = "lzma" THEN Ends /\ Stage("done") /\ UNCHANGED wire
      ELSE IF source # <<>> /\ source[1] = Trailer(reader.sum)
      THEN /\ On /\ wire' = After(wire, 1 - Least(1, Len(HandedBack(rest))))
           /\ reader' = [reader EXCEPT !.stage = "between", !.feed = After(HandedBack(rest), 1), !.ahead = <<>>]
      ELSE Fail

EndMember ==
  /\ Goes /\ reader.stage = "member" /\ reader.ahead # <<>> /\ reader.left # 1
  /\ Head(reader.ahead).t = "final" /\ FinishMember(Tail(reader.ahead))

(* Where the input ends too soon, Inflate makes up zero bits, as many as a  *)
(* last symbol might need, and LZMA makes up zeros for ever: they may mean  *)
(* data, the end of the data or nothing that can be.                        *)
Starved ==
  \/ reader.ahead = <<>> /\ Source = <<>>
  \/ reader.ahead # <<>> /\ Head(reader.ahead).t \notin {"data", "final"}

Starve ==
  /\ Goes /\ reader.stage = "member" /\ Starved /\ reader.left # 1
  /\ \/ Fail
     \/ /\ reader.pad < Padding
        /\ \/ FinishMember(reader.ahead)
           \/ /\ Gives(<<0>>) /\ UNCHANGED wire
              /\ reader' = [reader EXCEPT !.pad = @ + 1, !.sum = Append(@, 0), !.left = Most(0, @ - 1)]

Settled ==
  /\ Goes /\ UNCHANGED <<wire, reader>>
  /\ \/ reader.stage = "done" /\ Ends
     \/ reader.stage = "failed" /\ Fails

-----------------------------------------------------------------------------
(* The other way to read, of a whole file at once.                          *)

Parsed(s, token) ==
  CASE s.at = "between" /\ token.t = "zeros" -> s
    [] s.at = "between" /\ token.t = "header" -> [at |-> "member", fields |-> token.v, sum |-> <<>>]
    [] s.at = "member" /\ s.fields # <<>> /\ token.t = Head(s.fields \o <<"">>) -> [s EXCEPT !.fields = Tail(@)]
    [] s.at = "member" /\ s.fields = <<>> /\ token.t = "data" -> [s EXCEPT !.sum = @ \o token.v]
    [] s.at = "member" /\ s.fields = <<>> /\ token.t = "final" -> [s EXCEPT !.at = "trailer"]
    [] s.at = "trailer" /\ token = Trailer(s.sum) -> [s EXCEPT !.at = "between"]
    [] OTHER -> [s EXCEPT !.at = "refused"]

Decompresses(source) ==
  FoldLeft(Parsed, [at |-> "between", fields |-> <<>>, sum |-> <<>>], source).at = "between"

-----------------------------------------------------------------------------
Missed(i, midway) ==
  /\ wire[i + 1].t # "zeros"
  /\ i = 0 \/ wire[i + 1].t = "header" => midway

MNext ==
  \/ Start \/ (\E n \in {1, 2} : Push(n)) \/ Finish \/ Close
  \/ Cut(Missed) \/ Alter \/ Call
  \/ StartMember \/ Fill \/ Decode \/ Enough \/ EndMember \/ Starve \/ Settled

MTypeOK ==
  /\ Len(given) <= MaxMembers /\ writer.at <= Len(writer.data)
  /\ Len(reader.feed) <= READ /\ Len(reader.ahead) <= READ
  /\ reader.stage \in {"between", "member", "done", "failed"}
=============================================================================
