----------------------------- MODULE ZipArchive -----------------------------
(***************************************************************************)
(* The ZIP format: ZipWriter, which lays headers, data and the directory    *)
(* out over one file or over volumes, and ZipReader, which finds its way    *)
(* back from the end of the archive to every entry.                         *)
(*                                                                          *)
(* Headers have their real lengths, so that volumes end where they would;   *)
(* the 16 and 32 bit fields are narrowed to U16 and U32, so that they       *)
(* overflow.  Data is only a length.  Names, times, methods and checksums   *)
(* are left out, and with them the search for an end record in a comment.   *)
(***************************************************************************)
EXTENDS Integers, Sequences, FiniteSets, FiniteSetsExt, SequencesExt, TLC

CONSTANTS
  U16, U32,     \* the largest value of a 16 and of a 32 bit field
  VolumeSizes,  \* sizes of volumes, 0 for an archive in one file
  NameLen,      \* length of an entry's name
  CommentLen,   \* length of the archive's comment
  Contents,     \* entries: a compressed and an uncompressed size
  Expected,     \* what the size of a file was before it was streamed
  MaxEntries    \* bound on the entries of an archive

VARIABLES
  volume_size, ids, encryption,   \* what the archive is made of
  sink,        \* where its volumes start, and where it ends
  written,     \* the headers, by their place in all of it
  records,     \* the CentralRecords
  placed,      \* where the data of each really went
  directory,   \* the directory being written
  phase        \* "entries", "directory", "zip64", "end", "done", "failed"

vars == <<volume_size, ids, encryption, sink, written, records, placed, directory, phase>>

Schemes == {"none", "zipcrypto", "aes"}

-----------------------------------------------------------------------------
(* The sink, in one file or in volumes: see ZipVolumes.                     *)

BeginRecord(s, len) ==
  IF volume_size > 0 /\ s.end > Last(s.starts) /\ s.end - Last(s.starts) + len > volume_size
  THEN [s EXCEPT !.starts = Append(@, s.end)]
  ELSE s

(* Mutant: a volume that is just full is followed by an empty one.          *)
WriteEager(s, len) ==
  LET first == Last(s.starts)
      more == IF volume_size = 0 THEN 0 ELSE (s.end + len - first) \div volume_size
  IN  [starts |-> s.starts \o [k \in 1 .. more |-> first + k * volume_size], end |-> s.end + len]

(* Bytes at the end, in as many volumes as it takes.                        *)
Write(s, len) ==
  LET first == Last(s.starts)
      more == IF volume_size = 0 THEN 0 ELSE (s.end + len - 1 - first) \div volume_size
  IN  [starts |-> s.starts \o [k \in 1 .. more |-> first + k * volume_size], end |-> s.end + len]

Disk(s, offset) == Cardinality({i \in DOMAIN s.starts : s.starts[i] <= offset}) - 1
Locate(s, offset) == [disk |-> Disk(s, offset), local |-> offset - s.starts[Disk(s, offset) + 1]]

-----------------------------------------------------------------------------
(* Fields that are too narrow, and the Zip64 extra that takes their place.  *)

(* Mutant: the value that means "see the extra field" is stored as itself.  *)
TooLargeStrict(v) == v > U32

TooLarge(v) == v >= U32
NeedsZip64(compressed, uncompressed, offset) == TooLarge(compressed) \/ TooLarge(uncompressed) \/ TooLarge(offset)

Saturate(v, max) == IF v >= max THEN max ELSE v
Clamp32(v, zip64) == IF zip64 THEN U32 ELSE v % (U32 + 1)

Wanted(need) == SetToSortSeq({i \in DOMAIN need : need[i]}, <)
Block(values, need) == [k \in DOMAIN Wanted(need) |-> values[Wanted(need)[k]]]
BlockLen(block) == IF block = <<>> THEN 0 ELSE 4 + 8 * Len(block)

(* parse_zip64: the fields that are needed, one after the other, as long as *)
(* there are any.                                                           *)
Absent == -1
FromBlock(block, need, i) ==
  LET k == Cardinality({j \in 1 .. i : need[j]})
  IN  IF need[i] /\ k <= Len(block) THEN block[k] ELSE Absent
Resolve(field, value) == IF value = Absent THEN field ELSE value

Aes(dir) == encryption = "aes" /\ ~dir
Extras(dir) == 9 + (IF ids THEN 15 ELSE 0) + (IF Aes(dir) THEN 11 ELSE 0)
LocalLen(zip64, dir) == 30 + NameLen + (IF zip64 THEN 20 ELSE 0) + Extras(dir)

(* Twelve bytes for ZipCrypto; salt, verifier and code for AES-256.         *)
Overhead == IF encryption = "zipcrypto" THEN 12 ELSE IF encryption = "aes" THEN 28 ELSE 0

-----------------------------------------------------------------------------
TypeOK ==
  /\ volume_size \in VolumeSizes /\ ids \in BOOLEAN /\ encryption \in Schemes
  /\ \A i \in 1 .. Len(sink.starts) - 1 : sink.starts[i] < sink.starts[i + 1]
  /\ Last(sink.starts) < sink.end \/ sink.end = 0
  /\ \A o \in DOMAIN written : o + written[o].len <= sink.end
  /\ Len(records) <= MaxEntries /\ Len(placed) = Len(records)
  /\ directory.next \in 0 .. MaxEntries + 1
  /\ phase \in {"entries", "directory", "zip64", "end", "done", "failed"}

NoDirectory == [offset |-> 0, disk |-> 0, local |-> 0, on_last |-> 0, next |-> 0, size |-> 0, last_disk |-> 0]

(* A set of volumes begins with the four bytes of the spanning signature.   *)
Init ==
  /\ volume_size \in VolumeSizes /\ ids \in BOOLEAN /\ encryption \in Schemes
  /\ sink = [starts |-> <<0>>, end |-> IF volume_size > 0 THEN 4 ELSE 0]
  /\ written = <<>> /\ records = <<>> /\ placed = <<>>
  /\ directory = NoDirectory
  /\ phase = "entries"

(* Mutant: room is kept for the fixed part and the name only.               *)
ReserveBare == BeginRecord(sink, 30 + NameLen)

(* reserve_header: room for the header and the most extra fields there are. *)
Reserve == BeginRecord(sink, 30 + NameLen + 64)

LocalHeader(zip64, dir, compressed, uncompressed) ==
  [kind |-> "local", len |-> LocalLen(zip64, dir),
   compressed |-> Clamp32(compressed, zip64), uncompressed |-> Clamp32(uncompressed, zip64),
   block |-> IF zip64 THEN <<uncompressed, compressed>> ELSE <<>>]

Record(dir, descriptor, compressed, uncompressed, start) ==
  [dir |-> dir, descriptor |-> descriptor, compressed |-> compressed, uncompressed |-> uncompressed,
   local_header_offset |-> start.local, disk_start |-> start.disk]

(* write_entry: a directory, a link, or a file that was compressed before.  *)
AddWhole(dir, content) ==
  /\ phase = "entries" /\ Len(records) < MaxEntries
  /\ LET s == Reserve
         start == Locate(s, s.end)
         payload == content.compressed + IF dir THEN 0 ELSE Overhead
         zip64 == NeedsZip64(payload, content.uncompressed, start.local)
         header == LocalHeader(zip64, dir, payload, content.uncompressed)
         headed == Write(s, header.len)
     IN  /\ sink' = Write(headed, payload)
         /\ written' = s.end :> header @@ written
         /\ records' = Append(records, Record(dir, FALSE, payload, content.uncompressed, start))
         /\ placed' = Append(placed, headed.end)
  /\ UNCHANGED <<volume_size, ids, encryption, directory, phase>>

(* add_file and add_produced: the header is written for the size the file   *)
(* had, and its sizes are patched in afterwards, or follow in a descriptor. *)
AddStreamed(content, expected) ==
  /\ phase = "entries" /\ Len(records) < MaxEntries
  /\ LET s == Reserve
         start == Locate(s, s.end)
         zip64 == NeedsZip64(expected, expected, start.local)
         headed == Write(s, LocalLen(zip64, FALSE))
         payload == content.compressed + Overhead
         filled == Write(headed, payload)
         described == [kind |-> "descriptor", len |-> IF zip64 THEN 24 ELSE 16]
         begun == BeginRecord(filled, described.len)
         sealed == encryption # "none"
     IN  IF ~zip64 /\ NeedsZip64(payload, content.uncompressed, start.local)
         THEN /\ phase' = "failed" /\ sink' = filled
              /\ UNCHANGED <<written, records, placed>>
         ELSE /\ sink' = IF sealed THEN Write(begun, described.len) ELSE filled
              /\ written' =
                   IF sealed
                   THEN s.end :> LocalHeader(zip64, FALSE, 0, 0) @@ begun.end :> described @@ written
                   ELSE s.end :> LocalHeader(zip64, FALSE, payload, content.uncompressed) @@ written
              /\ records' = Append(records, Record(FALSE, sealed, payload, content.uncompressed, start))
              /\ placed' = Append(placed, headed.end)
              /\ UNCHANGED phase
  /\ UNCHANGED <<volume_size, ids, encryption, directory>>

-----------------------------------------------------------------------------
(* write_central_directory.                                                 *)

StartDirectory ==
  /\ phase = "entries"
  /\ LET start == Locate(sink, sink.end)
     IN  directory' = [offset |-> sink.end, disk |-> start.disk, local |-> start.local, on_last |-> 0, next |-> 1,
                       size |-> 0, last_disk |-> 0]
  /\ phase' = "directory"
  /\ UNCHANGED <<volume_size, ids, encryption, sink, written, records, placed>>

CentralHeader(r) ==
  LET values == <<r.uncompressed, r.compressed, r.local_header_offset>>
      need == [i \in 1 .. 3 |-> TooLarge(values[i])]
      block == Block(values, need)
  IN  [kind |-> "central", len |-> 46 + NameLen + BlockLen(block) + Extras(r.dir), descriptor |-> r.descriptor,
       compressed |-> Saturate(r.compressed, U32), uncompressed |-> Saturate(r.uncompressed, U32),
       local_header_offset |-> Saturate(r.local_header_offset, U32), disk_start |-> Saturate(r.disk_start, U16),
       block |-> block]

AddHeader ==
  /\ phase = "directory" /\ directory.next <= Len(records)
  /\ LET header == CentralHeader(records[directory.next])
         s == BeginRecord(sink, header.len)
         t == Write(s, header.len)
         here == Disk(t, s.end) = Len(t.starts) - 1
     IN  /\ sink' = t
         /\ written' = s.end :> header @@ written
         /\ directory' = [directory EXCEPT !.next = @ + 1, !.on_last = IF here THEN @ + 1 ELSE 0]
  /\ UNCHANGED <<volume_size, ids, encryption, records, placed, phase>>

(* What the end of the archive will say, made up before there is room for   *)
(* it: the size, the last volume, and whether the fields are too narrow.    *)
CloseDirectory ==
  /\ phase = "directory" /\ directory.next > Len(records)
  /\ LET size == sink.end - directory.offset
         last_disk == Len(sink.starts) - 1
         zip64 == \/ Len(records) > U16 \/ TooLarge(size)
                  \/ TooLarge(directory.local) \/ last_disk >= U16
     IN  /\ directory' = [directory EXCEPT !.size = size, !.last_disk = last_disk]
         /\ phase' = IF zip64 THEN "zip64" ELSE "end"
  /\ UNCHANGED <<volume_size, ids, encryption, sink, written, records, placed>>

(* write_zip64_end: the record and its locator, 56 and 20 bytes.            *)
AddZip64End ==
  /\ phase = "zip64"
  /\ LET place == Locate(sink, sink.end)
         s == BeginRecord(sink, 76)
     IN  /\ sink' = Write(s, 76)
         /\ written' =
              s.end :> [kind |-> "zip64 end", len |-> 56, size |-> directory.size, total |-> Len(records),
                        offset |-> directory.local, directory_disk |-> directory.disk]
              @@ s.end + 56 :> [kind |-> "locator", len |-> 20, offset |-> place.local]
              @@ written
  /\ phase' = "end"
  /\ UNCHANGED <<volume_size, ids, encryption, records, placed, directory>>

AddEnd ==
  /\ phase = "end"
  /\ LET end == [kind |-> "end", len |-> 22 + CommentLen,
                 disk |-> Saturate(directory.last_disk, U16), directory_disk |-> Saturate(directory.disk, U16),
                 on_disk |-> Saturate(directory.on_last, U16), total |-> Saturate(Len(records), U16),
                 size |-> Saturate(directory.size, U32), offset |-> Saturate(directory.local, U32)]
         s == BeginRecord(sink, end.len)
     IN  /\ sink' = Write(s, end.len)
         /\ written' = s.end :> end @@ written
  /\ phase' = "done"
  /\ UNCHANGED <<volume_size, ids, encryption, records, placed, directory>>

Next ==
  \/ \E dir \in BOOLEAN, content \in Contents : (dir => content.uncompressed = 0) /\ AddWhole(dir, content)
  \/ \E content \in Contents, expected \in Expected : AddStreamed(content, expected)
  \/ StartDirectory \/ AddHeader \/ CloseDirectory
  \/ AddZip64End \/ AddEnd

Spec == Init /\ [][Next]_vars

-----------------------------------------------------------------------------
(* Reading back.  Wrong stands for an error.                                *)

Wrong == [ok |-> FALSE]
Is(kind, offset) == offset \in DOMAIN written /\ written[offset].kind = kind

(* A set that came out as one volume is read as a single file.              *)
Volumes == Len(sink.starts)
GlobalOffset(disk, offset) ==
  IF Volumes = 1 THEN IF disk = 0 THEN offset ELSE Absent
  ELSE IF disk < Volumes THEN sink.starts[disk + 1] + offset ELSE Absent

EndOffset == sink.end - 22 - CommentLen

Narrow(end) ==
  \/ end.total = U16 \/ end.on_disk = U16 \/ end.disk = U16 \/ end.directory_disk = U16
  \/ end.size = U32 \/ end.offset = U32

(* read_zip64, once the locator was found: its disk is not looked at.       *)
Zip64Directory ==
  LET at == written[EndOffset - 20].offset
  IN  IF at < sink.end /\ Is("zip64 end", at)
      THEN [ok |-> TRUE, offset |-> written[at].offset, size |-> written[at].size, disk |-> written[at].directory_disk]
      ELSE Wrong

(* eocd::find.                                                              *)
FindDirectory ==
  LET end == written[EndOffset]
  IN  IF Narrow(end) /\ Is("locator", EndOffset - 20) THEN Zip64Directory
      ELSE [ok |-> TRUE, offset |-> end.offset, size |-> end.size, disk |-> end.directory_disk]

(* central::parse_all: headers one after the other, to the end of the       *)
(* directory or to anything that is not one.                                *)
Headers(from, to) ==
  LET after[o \in from .. to] ==
        IF Is("central", o) /\ o + written[o].len <= to THEN <<o>> \o after[o + written[o].len] ELSE <<>>
  IN  after[from]

(* central::parse_one.                                                      *)
Entry(header) ==
  LET need == <<header.uncompressed = U32, header.compressed = U32,
                header.local_header_offset = U32, header.disk_start = U16>>
      value(i) == FromBlock(header.block, need, i)
  IN  [descriptor |-> header.descriptor,
       uncompressed |-> Resolve(header.uncompressed, value(1)), compressed |-> Resolve(header.compressed, value(2)),
       local_header_offset |-> Resolve(header.local_header_offset, value(3)),
       disk_start |-> Resolve(header.disk_start, value(4))]

(* local::read_at and entry_range: where the data is and how much of it.    *)
EntryRange(entry) ==
  LET at == GlobalOffset(entry.disk_start, entry.local_header_offset)
      header == written[at]
      full == header.compressed = U32 \/ header.uncompressed = U32
      said == Resolve(header.compressed, FromBlock(header.block, <<full, full>>, 2))
  IN  IF Is("local", at)
      THEN [ok |-> TRUE, data |-> at + header.len, uncompressed |-> entry.uncompressed,
            compressed |-> IF entry.descriptor \/ said = 0 THEN entry.compressed ELSE said]
      ELSE Wrong

(* with_layout, and then every entry of the list.                           *)
ReadBack ==
  LET found == FindDirectory
      from == GlobalOffset(found.disk, found.offset)
      headers == Headers(from, from + found.size)
  IN  IF found.ok /\ from # Absent /\ from + found.size <= sink.end
      THEN [ok |-> TRUE, entries |-> [i \in DOMAIN headers |-> EntryRange(Entry(written[headers[i]]))]]
      ELSE Wrong

-----------------------------------------------------------------------------
(* Every entry of a finished archive is read back, in its order, with the   *)
(* place and the sizes of its data, however large it is and wherever the    *)
(* volumes end.                                                             *)
AllRead ==
  ReadBack = [ok |-> TRUE,
              entries |-> [i \in DOMAIN records |->
                             [ok |-> TRUE, data |-> placed[i], uncompressed |-> records[i].uncompressed,
                              compressed |-> records[i].compressed]]]

(* This holds of archives in one file and of sets without the Zip64 end.    *)
ReadsBack == phase = "done" /\ (Volumes = 1 \/ \A o \in DOMAIN written : written[o].kind # "locator") => AllRead

(* lib.rs:326, of set_volume_size: to read a set back, name any piece of    *)
(* it.  The Zip64 end of a set is looked for in its first volume.           *)
SetReadsBack == phase = "done" => AllRead

(* A header that fits a volume lies in one.                                 *)
HeadersAreWhole ==
  \A o \in DOMAIN written :
    volume_size > 0 /\ written[o].len <= volume_size => Disk(sink, o) = Disk(sink, o + written[o].len - 1)
=============================================================================
