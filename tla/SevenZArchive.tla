--------------------------- MODULE SevenZArchive ---------------------------
(***************************************************************************)
(* The 7z format: SevenZWriter, which packs files into folders, each       *)
(* through a chain of coders, and describes them in a header at the end;   *)
(* and SevenZReader, which finds the header, the folders and the files     *)
(* again.  Archives of 7-Zip, whose folders have a coder with four inputs, *)
(* are read as well.                                                       *)
(*                                                                         *)
(* What a coder makes of its input is a record that says so and has the    *)
(* length; coders are undone by name.  The bytes of a file are its place   *)
(* in the archive and their own place in the file.  A byte of the header   *)
(* has three bits.                                                         *)
(***************************************************************************)
EXTENDS Integers, Sequences, FiniteSets, FiniteSetsExt, SequencesExt, TLC

CONSTANTS
  Items,        \* entries: kind, size, and mtime, -1 for none
  BlockSizes,   \* what a folder is to hold, 0 for one file
  MinHeader,    \* entries of a header that is worth compressing
  MaxItems      \* bound on the entries of an archive

VARIABLES
  options,      \* the Options of the writer
  items,        \* the entries that were added, with what there was of them
  writer,       \* the SevenZWriter
  out           \* what is in the file by offset, and the signature header

vars == <<options, items, writer, out>>

-----------------------------------------------------------------------------
(* Numbers: the ones at the top of the first byte count the bytes after it. *)

Ones(i) == 8 - 2 ^ (3 - i)
Low(value, n) == [k \in 1 .. n |-> (value \div (8 ^ (k - 1))) % 8]

PutNumber(value) ==
  LET fits == {i \in 0 .. 2 : value < 4 ^ (i + 1)}
  IN  IF fits = {} THEN <<7>> \o Low(value, 3)
      ELSE <<Ones(Min(fits)) + value \div (8 ^ Min(fits))>> \o Low(value, Min(fits))

Number(bytes) ==
  LET more == Max({i \in 0 .. 3 : bytes[1] >= Ones(i)})
      low == MapThenSumSet(LAMBDA k : bytes[k + 1] * (8 ^ (k - 1)), 1 .. more)
  IN  IF more = 3 THEN low ELSE low + (bytes[1] % (2 ^ (2 - more))) * (8 ^ more)

(* Bits, three to a byte, the last byte filled up; and the vector that says *)
(* which of a list are there, which is left out when all are.               *)
PutBits(values) ==
  [b \in 1 .. (Len(values) + 2) \div 3 |-> [k \in 1 .. 3 |-> LET i == 3 * (b - 1) + k IN i <= Len(values) /\ values[i]]]
Bits(bytes, len) == [i \in 1 .. len |-> bytes[(i + 2) \div 3][((i - 1) % 3) + 1]]

PutDefined(values) == IF \A i \in DOMAIN values : values[i] THEN <<>> ELSE PutBits(values)
Defined(bytes, len) == IF bytes = <<>> THEN [i \in 1 .. len |-> TRUE] ELSE Bits(bytes, len)

Rank(flags, i) == Cardinality({j \in 1 .. i : flags[j]})
Total(sizes) == FoldSeq(LAMBDA a, b : a + b, 0, sizes)

-----------------------------------------------------------------------------
(* Coders.                                                                  *)

Coded(coder, data, len) == [by |-> coder, of |-> data, len |-> len]
Plain(bytes) == Coded("plain", bytes, Len(bytes))
Garbage == Plain(<<>>)

(* Compressed data may be longer than what it was; sealed data is a whole   *)
(* number of blocks, of two.                                                *)
PackedLen(packing, len) == IF packing = "copy" THEN len ELSE len \div 2 + 2
SealedLen(len) == len + (len % 2)

(* A coder gives its input back in the length the folder says, or nothing   *)
(* that is of use.  BCJ2 has one piece for each of its inputs.              *)
Undo(coder, inputs, size) ==
  IF \A i \in DOMAIN inputs :
       /\ inputs[i].by = (IF Len(inputs) = 1 THEN coder ELSE coder \o ToString(i))
       /\ inputs[i].of.len = size
  THEN inputs[1].of ELSE Garbage

Coder(id, in_streams) == [id |-> id, in_streams |-> in_streams]

(* put_folder: each coder takes what the one before it gives.               *)
Chain(coders) == [i \in 1 .. Len(coders) - 1 |-> [in_index |-> i, out_index |-> i - 1]]

(* seal: the packed stream of a folder, encrypted if there is a password.   *)
Seal(folder, compressed) ==
  IF options.encryption = "none" THEN [folder EXCEPT !.packed = <<compressed>>]
  ELSE [folder EXCEPT !.coders = <<Coder("aes", 1)>> \o @, !.sizes = <<compressed.len>> \o @,
                      !.packed = <<Coded("aes", compressed, SealedLen(compressed.len))>>]

-----------------------------------------------------------------------------
(* Writing.                                                                 *)

NoFolder == [open |-> FALSE, plain |-> <<>>, substreams |-> <<>>]

Options ==
  [block_size : BlockSizes, packing : {"copy", "lzma2"}, filter : BOOLEAN, compress_header : BOOLEAN,
   encryption : {"none", "data", "header"}]

Init ==
  /\ options \in Options
  /\ items = <<>>
  /\ writer = [position |-> 0, folders |-> <<>>, files |-> <<>>, open |-> NoFolder]
  /\ out = [done |-> FALSE, data |-> <<>>, at |-> 0]

TypeOK ==
  /\ options \in Options
  /\ Len(items) <= MaxItems /\ Len(writer.files) = Len(items)
  /\ writer.open.plain # <<>> => writer.open.open
  /\ Total(writer.open.substreams) = Len(writer.open.plain)
  /\ \A i \in DOMAIN writer.folders : Len(writer.folders[i].sizes) = Len(writer.folders[i].coders)
  /\ \A o \in DOMAIN out.data : o + out.data[o].len <= writer.position
  /\ out.done => ~writer.open.open

Placed(w, packed) == [w EXCEPT !.position = @ + packed.len]

(* close_folder: nothing is written of a folder no file is in.              *)
ClosedFolder(w) ==
  LET plain == Plain(w.open.plain)
      filtered == IF options.filter THEN Coded("filter", plain, plain.len) ELSE plain
      compressed == Coded(options.packing, filtered, PackedLen(options.packing, plain.len))
      coders == <<Coder(options.packing, 1)>> \o IF options.filter THEN <<Coder("filter", 1)>> ELSE <<>>
      folder == Seal([coders |-> coders, sizes |-> [i \in DOMAIN coders |-> plain.len], packed |-> <<>>,
                      binds |-> <<>>, substreams |-> w.open.substreams], compressed)
  IN  IF w.open.substreams = <<>> THEN [w EXCEPT !.open = NoFolder]
      ELSE [Placed(w, folder.packed[1]) EXCEPT !.open = NoFolder,
              !.folders = Append(@, [folder EXCEPT !.binds = Chain(folder.coders)])]

Stored(w, o) ==
  IF Len(w.folders) = Len(writer.folders) THEN o
  ELSE [o EXCEPT !.data = writer.position :> Last(w.folders).packed[1] @@ @]

(* begin: a folder that holds enough is closed before the file.             *)
Begun == IF writer.open.open /\ Len(writer.open.plain) >= options.block_size THEN ClosedFolder(writer) ELSE writer

FileRecord(item, has_stream, is_empty_file) ==
  [has_stream |-> has_stream, is_empty_file |-> is_empty_file, is_anti |-> item.kind = "anti", mtime |-> item.mtime]

MayAdd == ~out.done /\ Len(items) < MaxItems

(* add_directory and add_anti, and a file that has nothing to it.           *)
AddBare(item) ==
  /\ MayAdd /\ item.size = 0
  /\ items' = Append(items, item)
  /\ writer' = [writer EXCEPT !.files = Append(@, FileRecord(item, FALSE, item.kind # "directory"))]
  /\ UNCHANGED <<options, out>>

(* add_file and add_stream: a file may turn out to be shorter than it was,  *)
(* and to hold nothing at all.                                              *)
AddFile(item, got) ==
  /\ MayAdd /\ item.size > 0 /\ got <= item.size
  /\ items' = Append(items, [item EXCEPT !.size = got])
  /\ LET open == [Begun.open EXCEPT !.open = TRUE,
                    !.plain = @ \o [k \in 1 .. got |-> <<Len(items) + 1, k>>],
                    !.substreams = IF got = 0 THEN @ ELSE Append(@, got)]
     IN  writer' = [Begun EXCEPT !.open = open, !.files = Append(@, FileRecord(item, got > 0, got = 0))]
  /\ out' = Stored(Begun, out)
  /\ UNCHANGED options

(* A folder 7-Zip has made of one program: BCJ2 and its four inputs, three  *)
(* of them compressed.                                                      *)
AddForeign(item) ==
  /\ MayAdd /\ item.size > 0 /\ options.encryption = "none" /\ ~writer.open.open
  /\ items' = Append(items, item)
  /\ LET plain == Plain([k \in 1 .. item.size |-> <<Len(items) + 1, k>>])
         part(i) == Coded("bcj2" \o ToString(i), plain, item.size)
         packed == [i \in 1 .. 4 |-> IF i < 4 THEN Coded("lzma", part(i), i) ELSE part(4)]
         at(i) == writer.position + Total([k \in 1 .. i - 1 |-> packed[k].len])
         folder == [coders |-> <<Coder("bcj2", 4), Coder("lzma", 1), Coder("lzma", 1), Coder("lzma", 1)>>,
                    sizes |-> [i \in 1 .. 4 |-> item.size],
                    packed |-> packed, indices |-> <<4, 5, 6, 3>>,
                    binds |-> [i \in 1 .. 3 |-> [in_index |-> i - 1, out_index |-> i]], substreams |-> <<item.size>>]
     IN  /\ writer' = [writer EXCEPT !.folders = Append(@, folder), !.position = at(5),
                                     !.files = Append(@, FileRecord(item, TRUE, FALSE))]
         /\ out' = [out EXCEPT !.data = [o \in {at(i) : i \in 1 .. 4} |-> packed[CHOOSE i \in 1 .. 4 : at(i) = o]] @@ @]
  /\ UNCHANGED options

(* Mutant: the size of the last file of a folder is written too.            *)
SizesAll(folder) == [k \in 1 .. Len(folder.substreams) |-> PutNumber(folder.substreams[k])]

(* The sizes of the files of a folder, but for the last.                    *)
Sizes(folder) == [k \in 1 .. Len(folder.substreams) - 1 |-> PutNumber(folder.substreams[k])]

(* put_streams_info.                                                        *)
StreamsInfo(folders, pos) ==
  [pos |-> PutNumber(pos),
   pack_sizes |-> FlattenSeq([i \in DOMAIN folders |-> [k \in DOMAIN folders[i].packed |-> PutNumber(folders[i].packed[k].len)]]),
   folders |-> [i \in DOMAIN folders |->
                  [coders |-> folders[i].coders, binds |-> folders[i].binds,
                   indices |-> IF Len(folders[i].packed) = 1 THEN <<>> ELSE folders[i].indices,
                   sizes |-> [k \in DOMAIN folders[i].sizes |-> PutNumber(folders[i].sizes[k])]]],
   counts |-> [i \in DOMAIN folders |-> PutNumber(Len(folders[i].substreams))],
   sizes |-> FlattenSeq([i \in DOMAIN folders |-> Sizes(folders[i])])]

(* put_files_info: the vectors of empty and of anti files are over those    *)
(* entries alone that have no data.                                         *)
FilesInfo(files) ==
  LET streamless == SelectSeq(files, LAMBDA f : ~f.has_stream)
      timed == SelectSeq(files, LAMBDA f : f.mtime # -1)
      over(list, Flag(_)) == PutBits([i \in DOMAIN list |-> Flag(list[i])])
  IN  [count |-> PutNumber(Len(files)),
       empty_stream |-> over(files, LAMBDA f : ~f.has_stream),
       empty_file |-> over(streamless, LAMBDA f : f.is_empty_file),
       anti |-> over(streamless, LAMBDA f : f.is_anti),
       defined |-> PutDefined([i \in DOMAIN files |-> files[i].mtime # -1]),
       mtimes |-> [i \in DOMAIN timed |-> PutNumber(timed[i].mtime)]]

(* finish: the header, packed like a folder if it is long or secret, and    *)
(* the signature that leads to it.                                          *)
HeaderFolder(compressed, len) ==
  LET bare == [coders |-> <<Coder("lzma2", 1)>>, sizes |-> <<len>>, packed |-> <<compressed>>, binds |-> <<>>, substreams |-> <<len>>]
  IN  IF options.encryption = "header" THEN Seal(bare, compressed) ELSE bare

PutHeader(w, data, header, len) ==
  /\ writer' = [w EXCEPT !.position = @ + len]
  /\ out' = [done |-> TRUE, at |-> w.position, data |-> w.position :> Coded("header", header, 1) @@ data]

PutEncoded(w, data, folder) ==
  PutHeader(Placed(w, folder.packed[1]), w.position :> folder.packed[1] @@ data,
            [encoded |-> TRUE, streams |-> StreamsInfo(<<[folder EXCEPT !.binds = Chain(folder.coders)]>>, w.position)], 1)

PutDirectory(w, data, header, len) ==
  IF options.encryption = "header" \/ (options.compress_header /\ len > MinHeader)
  THEN PutEncoded(w, data, HeaderFolder(Coded("lzma2", Coded("plain", header, len), PackedLen("lzma2", len)), len))
  ELSE PutHeader(w, data, header, 1)

FinishAs(w) ==
  PutDirectory(w, Stored(w, out).data, [encoded |-> FALSE, streams |-> StreamsInfo(w.folders, 0), files |-> FilesInfo(w.files)],
               Len(w.files) + 3 * Len(w.folders))

Finish == ~out.done /\ FinishAs(ClosedFolder(writer)) /\ UNCHANGED <<options, items>>

Next ==
  \/ \E item \in Items : AddBare(item) \/ AddForeign(item)
  \/ \E item \in Items, got \in 0 .. 3 : AddFile(item, got)
  \/ Finish

Spec == Init /\ [][Next]_vars

-----------------------------------------------------------------------------
(* Reading.                                                                 *)

At(offset) == IF offset \in DOMAIN out.data THEN out.data[offset] ELSE Garbage

(* Folder::read: with one packed stream, it is the input nothing is bound   *)
(* to.                                                                      *)
TotalIn(folder) == Total([i \in DOMAIN folder.coders |-> folder.coders[i].in_streams])
FirstIn(folder, coder) == Total([i \in 1 .. coder - 1 |-> folder.coders[i].in_streams])
Bound(folder, in_index) == {b \in ToSet(folder.binds) : b.in_index = in_index}
PackedIndices(folder) ==
  IF TotalIn(folder) - Len(folder.binds) > 1 THEN folder.indices
  ELSE <<CHOOSE i \in 0 .. TotalIn(folder) - 1 : Bound(folder, i) = {}>>

(* main_out_stream: the output nothing takes.  Coders have one each.        *)
MainOut(folder) ==
  CHOOSE i \in 0 .. Len(folder.coders) - 1 : \A b \in ToSet(folder.binds) : b.out_index # i
UnpackSize(folder) == Number(folder.sizes[MainOut(folder) + 1])

(* packed_offset and folder_first_pack.                                     *)
FirstPack(streams, index) == Total([i \in 1 .. index - 1 |-> Len(PackedIndices(streams.folders[i]))])
PackedStream(streams, k) ==
  At(Number(streams.pos) + Total([j \in 1 .. k - 1 |-> Number(streams.pack_sizes[j])]))

(* chain::decoder: from the main output back through the coders to the      *)
(* packed streams, at most as deep as there are coders.                     *)
Decoded(streams, index) ==
  LET folder == streams.folders[index]
      slot(in_index) == CHOOSE k \in DOMAIN PackedIndices(folder) : PackedIndices(folder)[k] = in_index
      build[call \in (0 .. Len(folder.coders) + 1) \X (0 .. Len(folder.coders))] ==
        LET depth == call[1]
            coder == call[2] + 1
            input(k) ==
              LET in_index == FirstIn(folder, coder) + k - 1
              IN  IF Bound(folder, in_index) = {} THEN PackedStream(streams, FirstPack(streams, index) + slot(in_index))
                  ELSE build[<<depth + 1, (CHOOSE b \in Bound(folder, in_index) : TRUE).out_index>>]
        IN  IF depth > Len(folder.coders) THEN Garbage
            ELSE Undo(folder.coders[coder].id, [k \in 1 .. folder.coders[coder].in_streams |-> input(k)],
                      Number(folder.sizes[coder]))
  IN  build[<<0, MainOut(folder)>>].of

(* SevenZReader::new.                                                       *)
ArchiveHeader ==
  LET header == At(out.at).of
  IN  IF header.encoded THEN Decoded(header.streams, 1) ELSE header

(* read_sub_streams_info: the last file of a folder has what is left of it. *)
SubStreams(streams) ==
  LET counts == [i \in DOMAIN streams.folders |-> Number(streams.counts[i])]
      listed(i) == Total([j \in 1 .. i - 1 |-> counts[j] - 1])
      sizes(i) == [k \in 1 .. counts[i] - 1 |-> Number(streams.sizes[listed(i) + k])]
  IN  [i \in DOMAIN counts |-> IF counts[i] = 0 THEN <<>> ELSE Append(sizes(i), UnpackSize(streams.folders[i]) - Total(sizes(i)))]

(* Mutant: the flags of an entry are looked up by its place among all.      *)
FilesByPlace(info) ==
  LET count == Number(info.count)
      streamless == [i \in 1 .. count |-> Bits(info.empty_stream, count)[i]]
      empty == Rank(streamless, count)
      defined == Defined(info.defined, count)
      flag(bits, i) == streamless[i] /\ i <= empty /\ Bits(bits, empty)[i]
  IN  [i \in 1 .. count |->
         [has_stream |-> ~streamless[i],
          is_empty_file |-> flag(info.empty_file, i), is_anti |-> flag(info.anti, i),
          mtime |-> IF defined[i] THEN Number(info.mtimes[Rank(defined, i)]) ELSE -1]]

(* read_files_info.                                                         *)
Files(info) ==
  LET count == Number(info.count)
      streamless == [i \in 1 .. count |-> Bits(info.empty_stream, count)[i]]
      empty == Rank(streamless, count)
      defined == Defined(info.defined, count)
      flag(bits, i) == streamless[i] /\ Bits(bits, empty)[Rank(streamless, i)]
  IN  [i \in 1 .. count |->
         [has_stream |-> ~streamless[i],
          is_empty_file |-> flag(info.empty_file, i), is_anti |-> flag(info.anti, i),
          mtime |-> IF defined[i] THEN Number(info.mtimes[Rank(defined, i)]) ELSE -1]]

(* locations and entry_reader: files with data take the substreams in turn, *)
(* folder after folder.                                                     *)
InFolder(header, sub, folder, within) ==
  LET offset == Total(SubSeq(sub[folder], 1, within - 1))
  IN  SubSeq(Decoded(header.streams, folder), offset + 1, offset + sub[folder][within])

EntryData(header, sub, k) ==
  LET before(f) == Total([j \in 1 .. f |-> Len(sub[j])])
      folder == Min({f \in DOMAIN sub : before(f) >= k})
  IN  InFolder(header, sub, folder, k - before(folder - 1))

Kind(file) == IF file.is_anti THEN "anti" ELSE IF file.has_stream \/ file.is_empty_file THEN "file" ELSE "directory"

(* Every entry of a finished archive is read as it was added, with its kind *)
(* and its time and the bytes there were, whichever folder they are in and  *)
(* however the folders and the header are packed.                           *)
ReadsAs(header, files, sub) ==
  /\ Len(files) = Len(items)
  /\ \A i \in DOMAIN items :
       /\ Kind(files[i]) = items[i].kind /\ files[i].mtime = items[i].mtime
       /\ files[i].has_stream <=> items[i].size > 0
       /\ files[i].has_stream =>
            EntryData(header, sub, Cardinality({j \in 1 .. i : files[j].has_stream})) = [k \in 1 .. items[i].size |-> <<i, k>>]

HeaderReadsBack(header) == ReadsAs(header, Files(header.files), SubStreams(header.streams))

ReadsBack == out.done => HeaderReadsBack(ArchiveHeader)
=============================================================================
