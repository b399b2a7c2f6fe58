----------------------------- MODULE TarArchive -----------------------------
(***************************************************************************)
(* The tar format: TarWriter, which puts headers, extended headers, data   *)
(* and padding on a tape, and TarReader, which goes over the tape block by *)
(* block.  The tape may have been cut off, and may hold what other tools   *)
(* write: a global header, a volume label, the older kinds of sparse file. *)
(*                                                                         *)
(* A name is a short sequence of letters, slashes and spaces, data one of  *)
(* zeros and ones; blocks, fields and registers are narrowed to the        *)
(* constants below.  Of an entry's other fields, mtime stands for all that *)
(* are numbers and owner for the names of the user and the group.          *)
(***************************************************************************)
EXTENDS Integers, Sequences, FiniteSets, FiniteSetsExt, SequencesExt, TLC

CONSTANTS
  BLOCK,        \* bytes of a block
  NAME, PREFIX, \* bytes of the two fields of a name; LINKNAME is as NAME
  UNAME,        \* bytes of the name of an owner
  FieldLen,     \* bytes of a number, octal digits of which are bits here
  Radix,        \* values of a byte of a number that is not octal
  Register,     \* values of the integer it is read into
  PerHeader,    \* segments of a sparse file that fit a header or a block
  Formats,      \* the formats the writer may be asked for
  Entries,      \* entries: kind, name, link, data, mtime, owner
  MaxGiven      \* bound on the entries of a tape

VARIABLES
  tar_format,   \* the format of the writer
  given,        \* the entries that were written, and how
  tape,         \* items by offset, and where they end
  tar_phase,    \* "writing", "reading"
  reader        \* the TarReader and the entries it has given

vars == <<tar_format, given, tape, tar_phase, reader>>

Padding(size) == (BLOCK - (size % BLOCK)) % BLOCK
None == <<"none">>
Gnu == tar_format = "gnu"

-----------------------------------------------------------------------------
(* Numbers, octal as long as they fit, in base 256 beyond.                  *)

PutSigned(v) ==
  IF 0 <= v /\ v < 2 ^ (FieldLen - 1) THEN [octal |-> TRUE, value |-> v]
  ELSE [octal |-> FALSE,
        bytes |-> [i \in 1 .. FieldLen |->
                     LET d == (v \div (Radix ^ (FieldLen - i))) % Radix
                     IN  IF i > 1 THEN d
                         ELSE IF v < 0 THEN Radix \div 2 + Radix \div 4 + (d % (Radix \div 4))
                         ELSE Radix \div 2 + (d % (Radix \div 2))]]

(* The register wraps; its upper half is negative.                          *)
Wrap(v) == IF (v % Register) < Register \div 2 THEN v % Register ELSE (v % Register) - Register

ParseBase256(bytes) ==
  LET low(i) == IF i = 1 THEN bytes[1] % (Radix \div 4) ELSE bytes[i]
      sign == IF (bytes[1] \div (Radix \div 4)) % 2 = 1 THEN -1 ELSE 0
      value[i \in 0 .. FieldLen] == IF i = 0 THEN sign ELSE Wrap(value[i - 1] * Radix + low(i))
  IN  value[FieldLen]

ParseNumeric(field) == IF field.octal THEN field.value ELSE ParseBase256(field.bytes)

-----------------------------------------------------------------------------
(* Names.                                                                   *)

NoSplit == [prefix |-> None, rest |-> None]

(* Mutant: the slash is looked for in the prefix alone, and what follows it *)
(* is taken for a name whatever its length.                                 *)
SplitLong(name) ==
  LET slashes == {i \in 1 .. Len(name) : name[i] = "/" /\ i <= PREFIX + 1}
      at == Max(slashes)
  IN  IF Len(name) <= NAME THEN [prefix |-> <<>>, rest |-> name]
      ELSE IF slashes = {} THEN NoSplit
      ELSE [prefix |-> SubSeq(name, 1, at - 1), rest |-> SubSeq(name, at + 1, Len(name))]

(* split_ustar_name, at the last slash the prefix could reach.              *)
SplitUstarName(name) ==
  LET slashes == {i \in 1 .. Len(name) : name[i] = "/" /\ i <= PREFIX + 1}
      at == Max(slashes)
      rest == Len(name) - at
  IN  IF Len(name) <= NAME THEN [prefix |-> <<>>, rest |-> name]
      ELSE IF Len(name) > PREFIX + 1 + NAME \/ slashes = {} \/ rest > NAME \/ rest = 0 THEN NoSplit
      ELSE [prefix |-> SubSeq(name, 1, at - 1), rest |-> SubSeq(name, at + 1, Len(name))]

Clip(s, len) == SubSeq(s, 1, Min({Len(s), len}))
Trimmed(s) == Clip(s, Max({0} \cup {i \in DOMAIN s : s[i] # " "}))

(* header::write: a name that cannot be split is cut off, and only the Gnu  *)
(* format has no prefix.                                                    *)
WriteName(name) ==
  LET split == IF Gnu \/ SplitUstarName(name) = NoSplit THEN [prefix |-> <<>>, rest |-> name]
               ELSE SplitUstarName(name)
  IN  [prefix |-> split.prefix, rest |-> Clip(split.rest, NAME)]

(* header::parse.                                                           *)
ParseName(field) ==
  IF ~Gnu /\ field.prefix # <<>> THEN Trimmed(field.prefix) \o <<"/">> \o Trimmed(field.rest) ELSE Trimmed(field.rest)

-----------------------------------------------------------------------------
(* Pax records, each preceded by its length, which counts its own digits.   *)

Digits(n) == IF n < 10 THEN 1 ELSE 2
Weight(key, value) == IF key \in {"major", "realsize", "size", "comment"} THEN Digits(value) ELSE Len(value)

(* Three letters stand for every key.                                       *)
RecordLen(key, value) ==
  LET payload == 3 + Weight(key, value) + 3
  IN  CHOOSE n \in payload + 1 .. payload + 2 : n = payload + Digits(n)

EncodedLen(attributes) == MapThenSumSet(LAMBDA key : RecordLen(key, attributes[key]), DOMAIN attributes)
When(condition, attributes) == IF condition THEN attributes ELSE <<>>
Attr(attributes, key, default) == IF key \in DOMAIN attributes THEN attributes[key] ELSE default

-----------------------------------------------------------------------------
(* Sparse files.                                                            *)

(* A byte in a run of zeros as long as a block.                             *)
InHole(data, at) ==
  \E from \in Max({1, at - BLOCK + 1}) .. at :
    from + BLOCK - 1 <= Len(data) /\ \A i \in from .. from + BLOCK - 1 : data[i] = 0

BlockBytes(data, b) == b * BLOCK + 1 .. Min({(b + 1) * BLOCK, Len(data)})

(* scan: the blocks that hold something, in runs.                           *)
Segments(data) ==
  LET kept == {b \in 0 .. (Len(data) - 1) \div BLOCK : \E at \in BlockBytes(data, b) : ~InHole(data, at)}
      starts == SetToSortSeq({b \in kept : b - 1 \notin kept}, <)
      ends(b) == Min({(CHOOSE e \in b + 1 .. Len(data) : e \notin kept /\ b .. e - 1 \subseteq kept) * BLOCK, Len(data)})
  IN  [i \in DOMAIN starts |-> [offset |-> starts[i] * BLOCK, length |-> ends(starts[i]) - starts[i] * BLOCK]]

StoredSize(segments) == FoldSeq(LAMBDA s, sum : s.length + sum, 0, segments)
Gather(segments, data) ==
  FlattenSeq([i \in DOMAIN segments |-> SubSeq(data, segments[i].offset + 1, segments[i].offset + segments[i].length)])

(* to_data: the number of segments and two numbers for each, a byte each.   *)
MapLen(segments) == LET len == 1 + 2 * Len(segments) IN len + Padding(len)
WorthIt(segments, data) == StoredSize(segments) + MapLen(segments) + BLOCK < Len(data)

(* expand, once validate has passed: what lies before a segment is stored   *)
(* before it.                                                               *)
Expand(segments, real_size, stored) ==
  [i \in 1 .. real_size |->
     LET inside == {k \in DOMAIN segments : segments[k].offset < i /\ i <= segments[k].offset + segments[k].length}
         k == CHOOSE k \in inside : TRUE
     IN  IF inside = {} THEN 0 ELSE stored[StoredSize(SubSeq(segments, 1, k - 1)) + i - segments[k].offset]]

-----------------------------------------------------------------------------
(* Writing.                                                                 *)

Emit(t, item, len) == [t EXCEPT !.items = t.end :> item @@ @, !.end = @ + len]
PadToBlock(t, size) == [t EXCEPT !.end = @ + Padding(size)]
Payload(t, item, len) ==
  IF len = 0 THEN t ELSE PadToBlock(Emit(t, [kind |-> "payload", of |-> item], len), len)

Header(kind, name, link, size, mtime, owner) ==
  [kind |-> kind, name |-> WriteName(name), link |-> Clip(link, NAME), size |-> PutSigned(size),
   mtime |-> PutSigned(mtime), owner |-> owner, segments |-> <<>>, more |-> FALSE]

Plain == <<"c">>
EmitMetadata(t, kind, payload, len) ==
  Payload(Emit(t, Header(kind, Plain, <<>>, len, 0, <<>>), BLOCK), payload, len)

OwnerFits(owner) == Len(owner) <= UNAME
OwnerAttr(owner) == When(~OwnerFits(owner) /\ ~Gnu, "uname" :> owner)
OwnerField(owner) == IF OwnerFits(owner) THEN owner ELSE <<>>

EmitExtended(t, extended) ==
  IF extended = <<>> THEN t ELSE EmitMetadata(t, "pax", extended, EncodedLen(extended))

StoredName(e) == IF e.kind = "directory" /\ Last(e.name) # "/" THEN Append(e.name, "/") ELSE e.name

(* write_header: what does not fit goes before the header.                 *)
LongParts(t, e, name, name_fits, link_fits) ==
  LET named == IF ~name_fits /\ Gnu THEN EmitMetadata(t, "long name", name, Len(name) + 1) ELSE t
  IN  IF ~link_fits /\ Gnu THEN EmitMetadata(named, "long link", e.link, Len(e.link) + 1) ELSE named

LongAttrs(e, name, name_fits, link_fits) ==
  When(~name_fits /\ ~Gnu, "path" :> name) @@ When(~link_fits /\ ~Gnu, "linkpath" :> e.link) @@ OwnerAttr(e.owner)

WriteFields(t, e, name, name_fits, link_fits) ==
  Emit(EmitExtended(LongParts(t, e, name, name_fits, link_fits), LongAttrs(e, name, name_fits, link_fits)),
       Header(e.kind, name, e.link, IF e.kind = "regular" THEN Len(e.data) ELSE 0, e.mtime, OwnerField(e.owner)), BLOCK)

WriteHeader(t, e) == WriteFields(t, e, StoredName(e), SplitUstarName(StoredName(e)) # NoSplit, Len(e.link) <= NAME)

(* add_entry, or start_entry, write_data and finish_entry.                  *)
Written(t, e) ==
  Payload(WriteHeader(t, e), e.data, IF e.kind = "regular" THEN Len(e.data) ELSE 0)

(* The rest of add_sparse: a PAX 1.0 sparse file, its map before its data.  *)
WrittenSparse(t, e, segments, stored) ==
  LET extended == "major" :> 1 @@ "sparse.name" :> e.name @@ "realsize" :> Len(e.data) @@ "size" :> stored
                  @@ OwnerAttr(e.owner)
  IN  Payload(Emit(EmitExtended(t, extended), Header("regular", Plain, <<>>, stored, e.mtime, OwnerField(e.owner)), BLOCK),
              [segments |-> segments, body |-> Gather(segments, e.data)], stored)

(* What other tools write: segments in pax records, or in the header and as *)
(* many blocks after it as it takes.  A last segment, which may be empty,   *)
(* says where the file ends.                                                *)
ForeignSegments(data) == Append(Segments(data), [offset |-> Len(data), length |-> 0])

ForeignPax(t, e, segments, stored) ==
  LET extended == "realsize" :> Len(e.data) @@ "map" :> segments
  IN  Payload(Emit(EmitMetadata(t, "pax", extended, EncodedLen(extended)),
                   Header("regular", e.name, <<>>, stored, e.mtime, e.owner), BLOCK),
              Gather(segments, e.data), stored)

ForeignGnu(t, e, segments, stored) ==
  LET blocks == (Len(segments) - 1) \div PerHeader
      part(k) == SubSeq(segments, k * PerHeader + 1, Min({(k + 1) * PerHeader, Len(segments)}))
      headed == Emit(t, [Header("gnu sparse", e.name, <<>>, stored, e.mtime, e.owner)
                           EXCEPT !.segments = part(0), !.more = blocks > 0] @@ "real_size" :> Len(e.data), BLOCK)
      block(k, u) == Emit(u, [kind |-> "map", segments |-> part(k), more |-> k < blocks], BLOCK)
  IN  Payload(FoldSeq(block, headed, [k \in 1 .. blocks |-> k]), Gather(segments, e.data), stored)

-----------------------------------------------------------------------------
NoMap == [in_data |-> FALSE, segments |-> <<>>, real_size |-> 0]

(* Mutant: a name that was read ahead is still there for the next entry.    *)
ForgetLess(r) == [r EXCEPT !.pending = <<>>, !.long_link = None, !.map = NoMap]

(* What next_entry keeps in local variables is gone when it returns.        *)
Forget(r) == [r EXCEPT !.pending = <<>>, !.long_name = None, !.long_link = None, !.map = NoMap]

NewReader == [at |-> 0, global |-> <<>>, pending |-> <<>>, long_name |-> None, long_link |-> None,
              map |-> NoMap, entry |-> <<>>, state |-> "header", got |-> <<>>]

Init ==
  /\ tar_format \in Formats
  /\ given = <<>> /\ tape = [items |-> <<>>, end |-> 0, cut |-> FALSE]
  /\ tar_phase = "writing" /\ reader = NewReader

TypeOK ==
  /\ tar_format \in Formats /\ tar_phase \in {"writing", "reading"}
  /\ Len(given) <= MaxGiven /\ tape.end \in Nat
  /\ reader.at \in 0 .. tape.end /\ reader.state \in {"header", "map", "data", "finished", "failed"}
  /\ reader.state \in {"data", "finished"} => reader.pending = <<>> /\ reader.long_name = None

Put(e, t) ==
  /\ tar_phase = "writing" /\ Len(given) < MaxGiven
  /\ given' = Append(given, [e EXCEPT !.name = StoredName(e), !.owner = IF Gnu THEN OwnerField(@) ELSE @])
  /\ tape' = t
  /\ UNCHANGED <<tar_format, tar_phase, reader>>

AddEntry(e) == Put(e, Written(tape, e))
AddSparse(e) ==
  /\ e.kind = "regular"
  /\ \E segments \in {Segments(e.data)} :
       Put(e, IF WorthIt(segments, e.data) THEN WrittenSparse(tape, e, segments, MapLen(segments) + StoredSize(segments))
              ELSE Written(tape, e))

AddForeignSparse(e) ==
  /\ e.kind = "regular" /\ Len(e.name) <= NAME /\ OwnerFits(e.owner) /\ e.data # <<>>
  /\ \E segments \in {ForeignSegments(e.data)}, how \in {"pax", "gnu"} :
       Put(e, IF how = "pax" THEN ForeignPax(tape, e, segments, StoredSize(segments))
              ELSE ForeignGnu(tape, e, segments, StoredSize(segments)))

(* No entries: the label of a volume, or a global header with a comment.    *)
AddForeignHeader ==
  /\ tar_phase = "writing" /\ given = <<>> /\ tape.end = 0
  /\ tape' = IF Gnu THEN EmitMetadata(tape, "volume label", <<>>, 0)
             ELSE EmitMetadata(tape, "pax global", "comment" :> 1, RecordLen("comment", 1))
  /\ UNCHANGED <<tar_format, given, tar_phase, reader>>

(* finish, and then the tape may lose its end.                              *)
Zero == [kind |-> "zero"]
Finish ==
  /\ tar_phase = "writing"
  /\ LET ended == Emit(Emit(tape, Zero, BLOCK), Zero, BLOCK)
     IN  \/ tape' = [ended EXCEPT !.end = @ + ((3 * BLOCK - (@ % (3 * BLOCK))) % (3 * BLOCK))]
         \/ \E end \in 0 .. ended.end : tape' = [tape EXCEPT !.end = end, !.cut = TRUE]
  /\ tar_phase' = "reading"
  /\ UNCHANGED <<tar_format, given, reader>>

-----------------------------------------------------------------------------
(* Reading.                                                                 *)

(* read_exact_tracked: 0 when there is nothing, an error when there is not  *)
(* enough.                                                                  *)
Available(at, len) == IF at >= tape.end THEN "nothing" ELSE IF at + len > tape.end THEN "short" ELSE "all"
ItemAt(at) == IF at \in DOMAIN tape.items THEN tape.items[at] ELSE Zero

Fail == reader' = [reader EXCEPT !.state = "failed"]
End == reader' = [Forget(reader) EXCEPT !.state = "finished"]

(* assemble: records win over long names, and those over the header.        *)
Assemble(head, map, at) ==
  LET a == reader.pending @@ reader.global
      sparse == IF map # NoMap \/ "realsize" \notin DOMAIN a THEN map
                ELSE [in_data |-> "major" \in DOMAIN a, segments |-> Attr(a, "map", <<>>), real_size |-> a["realsize"]]
      said == Attr(a, "size", ParseNumeric(head.size))
      stored == IF sparse.segments = <<>> THEN said ELSE StoredSize(sparse.segments)
      size == IF sparse = NoMap THEN said ELSE sparse.real_size
      long(kept, field) == IF kept # None THEN kept ELSE field
      name == Attr(a, "sparse.name", Attr(a, "path", long(reader.long_name, ParseName(head.name))))
      kind == IF head.kind = "regular" /\ size = 0 /\ Last(name) = "/" THEN "directory" ELSE head.kind
      entry == [kind |-> kind, name |-> name, sparse |-> sparse, stored |-> stored, mtime |-> ParseNumeric(head.mtime),
                link |-> Attr(a, "linkpath", long(reader.long_link, Trimmed(head.link))),
                owner |-> Attr(a, "uname", Trimmed(head.owner))]
  IN  reader' = [Forget(reader) EXCEPT !.at = at, !.state = "data", !.entry = entry]

(* A header with a payload of its own: the payload is kept for the entry.   *)
ReadMetadata(head) ==
  LET size == ParseNumeric(head.size)
      from == reader.at + BLOCK
      after == from + size + Padding(size)
      payload == ItemAt(from).of
      r == [reader EXCEPT !.at = after]
  IN  IF after > tape.end THEN Fail
      ELSE reader' = CASE head.kind = "long name" -> [r EXCEPT !.long_name = payload]
                       [] head.kind = "long link" -> [r EXCEPT !.long_link = payload]
                       [] head.kind = "pax global" -> [r EXCEPT !.global = payload]
                       [] head.kind = "pax" -> [r EXCEPT !.pending = payload @@ @]
                       [] head.kind = "volume label" -> r

Metadata == {"long name", "long link", "pax global", "pax", "volume label"}

(* One turn of the loop of next_entry.  What is not a header fails its      *)
(* checksum.                                                                *)
ReadHeader ==
  /\ tar_phase = "reading" /\ reader.state = "header"
  /\ LET head == ItemAt(reader.at)
         after == reader.at + BLOCK
     IN  CASE Available(reader.at, BLOCK) = "nothing" -> End
           [] Available(reader.at, BLOCK) = "short" -> Fail
           [] OTHER ->
                CASE head = Zero -> IF Available(after, BLOCK) = "short" THEN Fail ELSE End
                  [] head.kind \in {"payload", "map"} -> Fail
                  [] head.kind \in Metadata -> ReadMetadata(head)
                  [] head.kind = "gnu sparse" ->
                       LET map == [in_data |-> FALSE, segments |-> head.segments, real_size |-> head.real_size]
                       IN  IF head.more
                           THEN reader' = [reader EXCEPT !.at = after, !.state = "map", !.map = map, !.entry = head]
                           ELSE Assemble(head, map, after)
                  [] OTHER -> Assemble(head, NoMap, after)
  /\ UNCHANGED <<tar_format, given, tape, tar_phase>>

(* read_gnu_sparse_map: the blocks after the header, as long as there are   *)
(* more.                                                                    *)
ReadMap ==
  /\ tar_phase = "reading" /\ reader.state = "map"
  /\ LET block == ItemAt(reader.at)
         map == [reader.map EXCEPT !.segments = @ \o block.segments]
     IN  IF Available(reader.at, BLOCK) # "all" THEN Fail
         ELSE IF block.more THEN reader' = [reader EXCEPT !.at = @ + BLOCK, !.map = map]
         ELSE Assemble(reader.entry, map, reader.at + BLOCK)
  /\ UNCHANGED <<tar_format, given, tape, tar_phase>>

CarriesData(kind) == kind \in {"regular", "gnu sparse"}

(* What an entry comes to, with its data.                                   *)
Content(entry, stored) ==
  IF entry.sparse.in_data THEN Expand(stored.segments, entry.sparse.real_size, stored.body)
  ELSE IF entry.sparse.segments # <<>> THEN Expand(entry.sparse.segments, entry.sparse.real_size, stored)
  ELSE stored

Given(entry, data) ==
  [kind |-> IF entry.kind = "gnu sparse" THEN "regular" ELSE entry.kind,
   name |-> entry.name, link |-> entry.link, data |-> data, mtime |-> entry.mtime, owner |-> entry.owner]

(* Mutant: padding is not skipped with the data.                            *)
AfterDataUnpadded(entry) == IF CarriesData(entry.kind) THEN reader.at + entry.stored ELSE reader.at

AfterData(entry) ==
  IF CarriesData(entry.kind) THEN reader.at + entry.stored + Padding(entry.stored) ELSE reader.at

(* read_data or copy_data: all of it, and its padding.                      *)
ReadData ==
  /\ tar_phase = "reading" /\ reader.state = "data"
  /\ LET entry == reader.entry
         data == IF CarriesData(entry.kind) /\ entry.stored > 0 THEN ItemAt(reader.at).of ELSE <<>>
     IN  IF AfterData(entry) > tape.end THEN Fail
         ELSE reader' = [reader EXCEPT !.at = AfterData(entry), !.state = "header",
                                       !.got = Append(@, Given(entry, Content(entry, data)))]
  /\ UNCHANGED <<tar_format, given, tape, tar_phase>>

Skipped == <<-1>>

(* skip_data: the entry is passed over, all but its name.                   *)
SkipData ==
  /\ tar_phase = "reading" /\ reader.state = "data"
  /\ IF AfterData(reader.entry) > tape.end THEN Fail
     ELSE reader' = [reader EXCEPT !.at = AfterData(reader.entry), !.state = "header",
                                   !.got = Append(@, Given(reader.entry, Skipped))]
  /\ UNCHANGED <<tar_format, given, tape, tar_phase>>

Next ==
  \/ \E e \in Entries : AddEntry(e) \/ AddSparse(e) \/ AddForeignSparse(e)
  \/ AddForeignHeader \/ Finish
  \/ ReadHeader \/ ReadMap \/ ReadData \/ SkipData

Spec == Init /\ [][Next]_vars

-----------------------------------------------------------------------------
(* A name that the writer of the Gnu format cuts off, see the README.       *)
CutOff(e) == Gnu /\ Len(e.name) > NAME /\ SplitUstarName(e.name) # NoSplit

Same(read, e) == CutOff(e) \/ read = e \/ read = [e EXCEPT !.data = Skipped]

(* Whatever is skipped, the entries that are read are those that were       *)
(* written, in order, each whole: up to the first that the end of the tape  *)
(* has cut into, and all of them when the tape is whole.                    *)
ReadsBack ==
  /\ Len(reader.got) <= Len(given)
  /\ \A i \in DOMAIN reader.got : Same(reader.got[i], given[i])
  /\ ~tape.cut => reader.state # "failed" /\ (reader.state = "finished" => Len(reader.got) = Len(given))
=============================================================================
