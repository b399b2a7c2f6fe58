# ttarchive in TLA+

A model of ttarchive, a Rust library that creates, lists and extracts ZIP, tar
and 7z archives: what its threads, files, volumes and formats do, checked by TLC
on small instances, and proved with TLAPS where it matters for every size.

Source paths below are relative to `src/src/`. `PROJECT.json` names, for every
definition, the lines it stands for.

## 1. The system

| part | state it keeps | operations | talks to |
|---|---|---|---|
| work pool `pipeline/pool.rs` | shared counter, failure flag, first error under a mutex | `for_each(count, threads, init, task)` | called by every extraction and creation |
| progress `utils/progress.rs` | atomic counters, the totals, the caller's callback | `set_totals`, `start_entry`, `add_bytes`, `finish_entry`, `finish` | called by all workers; calls out to the user |
| layout `pipeline/layout.rs` | the table of claimed paths, the destination tree | selection, stripping, claims, `create_directory`, `should_write` | shared by the three extractions |
| zip extraction `pipeline/extract.rs` | plan, phase, summary | plan, directories, files, links, metadata | pool, layout, ZIP reader |
| tarball extraction `pipeline/tarball.rs` | plan, waiting bodies, links, directories | one loop, then bodies, hard links, metadata | pool, layout, tar reader |
| 7z extraction `pipeline/sevenz.rs` | plan, a cursor per folder, links set aside | folders, links, anti items, metadata | pool, layout, 7z reader |
| creation `pipeline/create.rs`, `tarball.rs`, `sevenz.rs` | sorted list of sources, files read ahead, chunks, folders | `collect`, `Batch::take`, waves of chunks, sinks | pool, writers |
| ZIP volumes `zip/volumes.rs` | the pieces, their lengths, the position | `write`, `seek`, `begin_record`, `locate`, `finish`, `discover` | under the ZIP writer, over the ZIP reader |
| 7z volumes `sevenz/volumes.rs`, `source.rs` | the same, other names and another end | `write`, `seek`, `finish`, `ArchiveSource::open` | under the 7z writer, over the 7z reader |
| ZIP format `zip/writer.rs`, `reader.rs`, `parsers/` | records of the directory; the layout that was found | headers, data, descriptors, directory, end; the way back | volumes, extraction, creation |
| tar format `tar/` | pending long names, pax records, sparse maps | read and write headers and bodies | tarball |
| 7z format `sevenz/` | folders, streams, the header | read and write the header, chains of coders | 7z pipeline |
| wrappers `codecs/gzip`, `xz`, `lzip`, `lzma/alone.rs`, `zstd`, `bzip2` | what was read ahead, the member they are in, its checks | writers in any pieces, readers over members and streams | tarballs, ZIP, 7z |
| codecs `codecs/deflate`, `lzma`, `zstd`, `bzip2`, `ppmd`, `legacy` | match chains, windows, tables, models, range coders | encode and decode streams | wrappers, ZIP, 7z |
| filters `codecs/bcj` | position, mask, last bytes, what waits for the next chunk | filter a folder, filter it back | 7z |
| encryption `crypto/` | key schedules, counters, held-back trailers | seal and open streams | ZIP and 7z |
| platform `platform/` | none | name policy, links, metadata | extraction, `collect` |

Threads exist only inside one call of `for_each`. The three extractions and the
three creations are sequences of phases, some of which are such a call; workers
meet in the destination, in the progress counters, in the claims of paths, and in
the slots their results go to. The formats sit between the pipelines and a file
or a set of volumes and are written by one thread.

What is hard here, and which properties make each part correct:

* **Interleaving.** Workers claim indices, fail, and report progress while
  others run. The pool must hand out each index once, lose none, and give a
  true answer; progress must be reported no more often than asked for and end complete; the
  destination must not depend on who was first.
* **Stale state.** Files are listed, sized, and only later read; a place in the
  destination is checked in one phase and used in another; pieces of an earlier
  set lie beside a new one.
* **Partial failure.** Any worker may fail anywhere. What was touched must have
  been planned, and a creation that reports success must have stored everything.
* **Ordering.** Metadata of directories after everything in them; hard links
  after bodies; folders read forward only; results taken in the order of the
  list though they finish in any.
* **Boundaries.** Volumes and pieces that end within, at, or just after a write;
  fields whose largest value means "look elsewhere".
* **Sequences.** Readers are called in any pieces, also after an error; decoders
  read past the end of a member; what a chunk may leave out depends on the
  chunks before it; records before a tar entry belong to it alone.
* **Truncation.** A stream may end anywhere. It must not be taken for whole, and
  no call may go on for ever.

There is no crash recovery (nothing is resumed), no retry, no timeout, and no
message; none is modelled. What a creation abandons half-way is: the pieces it
leaves are there when the next one starts.

## 2. Modules

Arrows: `EXTENDS` (→), `INSTANCE` (⇒), implements (⊑).

| module | models | |
|---|---|---|
| `ForEach` | the contract of `for_each` | the abstract pool |
| `WorkPool` | `for_each` with its threads, atomics and mutex | ⊑ `ForEach` |
| `WorkPool_proof` | theorems about `WorkPool` | → `WorkPool`, `TLAPS` |
| `Progress` | `Reporter`, each load and exchange a step | |
| `Progress_proof` | theorems about `Progress` | → `Progress`, `Collections_proof` |
| `Collections_proof` | lemmas about sums, finite orders, greatest and least elements, and sequences put end to end | → `TLAPS` |
| `FlatFile` | a file one can write to and seek in | the abstract sink |
| `ZipVolumes`, `SevenZVolumes` | the sinks that cut archives up, the directory, the search for the pieces | ⊑ `FlatFile` |
| `Layout` | plan, claims and the destination tree | |
| `ZipExtract`, `TarExtract`, `SevenZExtract` | the three extractions | → `Layout`, ⇒ `ForEach` |
| `Extraction` | the choice between them, and what all promise | ⇒ the three |
| `Extraction_proof` | lemmas about `Layout`, theorems about `Extraction`, and so about the three | → `Extraction`, `Collections_proof` |
| `Results_proof` | the theorem about what an extraction leaves | → `Extraction_proof` |
| `Sources` | `collect`, the file system that others change, entries without contents | |
| `ZipCreate`, `TarCreate`, `SevenZCreate` | the three creations | → `Sources` |
| `Creation` | the choice between them, and what all promise | ⇒ the three |
| `Creation_proof` | theorems about `Creation`, and so about the three | → `Creation`, `Collections_proof` |
| `Volumes` | the two kinds of volumes, and what both promise | ⇒ the two |
| `Volumes_proof` | theorems about `Volumes`, and so about both kinds | → `Volumes`, `Collections_proof` |
| `ZipArchive`, `TarArchive`, `SevenZArchive` | the three formats: writer and reader | |
| `Archives` | the choice between them, and what all promise | ⇒ the three |
| `Pipe` | bytes in, the same bytes out, or an error | the abstract codec |
| `Wire` | what the codecs' modules share: a writer, tokens on a wire that may be damaged, a reader that is called again and again, the windows that matches reach back into | |
| `Members` | gzip, lzip, the plain LZMA file | → `Wire` |
| `XzStreams` | xz and LZMA2 | → `Wire` |
| `ZstdFrames` | Zstandard | → `Wire` |
| `Bzip2` | bzip2 | → `Wire`, `Lengths` |
| `Deflate` | raw Deflate: matches, blocks, tables, chunks; the inflater | → `Wire`, ⇒ `Lengths` |
| `RangeCoder` | LZMA's range coder: encoder with carry, decoder, trees of bits | |
| `Lzma` | LZMA: finder, packets, states, members, chunks, sizes; the decoder | → `Wire`, ⇒ `RangeCoder` |
| `Ciphers` | ZipCrypto, WinZip's AES, the AES of 7z folders | → `Wire` |
| `Filters` | delta and branch filters of 7z folders | → `Wire` |
| `Lengths` | package-merge | |
| `Codecs` | the choice between all of these, and what all promise | ⇒ the eight, ⊑ `Pipe` |
| `MC*` | instances for TLC (`WorkPool` needs none) | → the module they are named for |

The pipelines do not repeat the pool: they use `ForEach`, its contract, and
`PoolImplementsForEach` proves that the threads keep it. In the same way
`ZipArchive` describes the volumes by where they start, and `Volumes` shows
that the sink behaves as one flat file however it is cut, and that what it leaves
is found and read as that file. `SevenZArchive` names coders where `Codecs` shows
that each gives back what it was given.

### How the state corresponds

* `WorkPool`: `pc[w]` is the line a worker is at; `next`, `failed`, `lock` and
  `error` are the `AtomicUsize`, the `AtomicBool`, the holder of the mutex and
  what is under it. `done` and `errs` are history. `threads = 1` is the plain
  loop, as in the code.
* `Progress`: the atomics under their own names; `update[t]` is the
  `ProgressUpdate` a thread is putting together, `paid` counts the reports that
  the byte threshold caused, and `max_bytes`, `went_backwards` belong to the
  callback of `tests/progress.rs`.
* `ZipVolumes`, `SevenZVolumes`: `files` is the directory, by number of piece, 0
  being the archive's own name; `starts`, `lengths`, `position` are the sink's.
  Several archives are created over one name and any of them may be abandoned.
* `Layout`, `*Extract`: a name is a sequence of components with the verdict of
  the name policy; `tree` is the destination, at each path a kind and the entry
  its contents come from. `phase` and `at` say which loop of `extract` runs and
  how far it is. `before` is the destination as it was found.
* `Sources`, `*Create`: `disk` is the file system; the action `Change` is any
  other program that truncates, extends, replaces or removes a file. Contents
  are units `<<path, offset>>`, so that a unit that lands in the wrong entry or
  place is seen.
* `ZipArchive`: `sink` is where the volumes start and where all of it ends;
  `written` holds the headers by place, at their real lengths; `records` are the
  `CentralRecord`s, and `placed` (history) is where the data of each went.
  `ReadBack` is what `ZipReader` then finds.
* `TarArchive`: `tape` holds headers, payloads and data by offset; `reader` is
  the `TarReader` with its pending names, pax records, global records and the
  body it is in, and the entries it has given.
* `SevenZArchive`: `writer` is the open folder, the streams and the files of the
  `SevenZWriter`; `out` is what it wrote: data by offset, the header as numbers of
  bytes, the place of it. `ReadsAs` is what the reader makes of it.
* `Wire` and its eight users: `writer` is the encoder's state, `wire` the tokens
  that its reader has not taken, `reader` the decoder's state; `last` says what
  the last call of `read` came to, and `busy` that it is still going on, so that
  each turn of the code's loops is a step. Tokens are fields of a format; a cut
  may leave the first part of one.
* `Lzma`: an encoder is its range coder, its finder, the state, the distances
  used last and the probabilities by context; the decoder has the same on the
  other side, and no definition of it uses one of the encoder's for what they
  both must know. The wire holds the bytes of the range coder.

## 3. Runs

| run | question | bounds | result |
|---|---|---|---|
| `WorkPool` | is an index handed out once and none lost, is the answer true, does the call return? | 3 indices, 3 threads, every init and task may fail | holds |
| `ProgressReports` | do racing workers report no more often than paid for, each in order, and completely at the end? | 2 workers, 3 entries of 0 to 3 bytes in up to 2 pieces, threshold 2 | holds |
| `ProgressBackwards` | can the callback see the bytes go down? | the same | it can: finding 1 |
| `Volumes` | is the sink one flat file in bounded pieces, are records uncut, is what was finished found from each name and read as it was written? | ZIP and 7z, 2 archives, plain or in volumes of 1 or 3, up to 4 bytes, writes of 2, pieces left before | holds |
| `ZipVolumesPlain` | is a plain archive over an old set found as itself? | volumes of 1 or 2, up to 3 bytes | it is not: finding 2 |
| `Extraction` | does a success leave what plan, options and destination determine, is everything counted and reported, are directories last? | archives of up to 3 entries over 4 paths, 5 destinations, all options, 2 workers | holds |
| `ExtractionNever` | does `Overwrite::Never` leave every file alone? | up to 2 entries | it does not: finding 3 |
| `Creation` | does entry k hold source k, whole, in bounded memory, in one stream; are hard links right? | trees of up to 3 files of 0, 1, 2 or 5 units, one change by others, 2 threads | holds |
| `Archives` | does the reader of each format find every entry in its order, at its place and size, with its data? | ZIP: 3 entries, sizes around the limit of a field, one file or volumes of 2 sizes, two ciphers. Tar: 2 of 8 entries, two formats, a tape cut anywhere. 7z: 3 of 5 items, folders of one file or of 3 bytes, filtered, packed, encrypted, plain or packed header | holds |
| `ZipArchiveSets` | does that hold of ZIP sets that need a Zip64 end? | the same | it does not: finding 4 |
| `Codecs` | does every reader give what its writer was given, in whatever pieces; is damage noticed; does a call return? | up to 2 members or streams and 3 to 14 bytes (32 for LZMA), see below | holds |
| `ZstdCut` | is a cut Zstandard stream refused? | the same | it is not: finding 5 |

Why the bounds are enough:

* Pool: two workers that race, plus one that is late or has failed; three
  indices so that one can be claimed past the end by each. The theorems hold for
  every number.
* Progress: one piece alone reaches the threshold, or two together do, so both
  orders of the exchange happen; an empty entry is announced and finished only.
* Volumes: a write can end before, at or after the end of a volume, cross one
  and cross two; with two archives every kind of leftover (shorter, longer,
  plain, abandoned) precedes every kind of success.
* Extraction: with three entries (`MaxEntries`), a third meets what a collision of two left;
  four paths are a directory, two things in it and one beside it.
* Creation: a threshold, chunk, piece and block of 2 and lengths 0, 1, 2, 5 put a
  file below, at and above each of them, and 5 makes three chunks: two waves.
* ZIP format: fields are narrowed (`U16 = 2`, `U32 = 255`) so that three entries
  and a few hundred bytes overflow them; the sizes are chosen so that they are
  one short of, equal to and above the limit, with and without the bytes that
  encryption adds. Header lengths are the real ones.
* Tar: fields of one and two letters and numbers of five bits, so that names fit,
  can be split and cannot, and numbers are octal, in base 256, and negative;
  one segment of a sparse map fits a header, and three a file. Two entries,
  because what is kept too long meets the next one.
* 7z: numbers use digits of base 8 (bytes of three bits), so that 70 and 300 take
  more than one byte and bit vectors have more than one; a block size of 0
  closes a folder for each file, one of 3 after one or two.
* Codecs: every size of a buffer is two to six, so that a member or a block ends
  before, at and after its end. A decoder asks for 3 tokens (`READ`) and a trailer
  with the header after it is longer, so what is handed back takes more than one
  fill. Windows hold two bytes and drop more than once. bzip2 streams of five
  bytes over two letters and runs of four have every run on both sides of its
  escape and of the end of a block, and two or three tables.
* Deflate: blocks of 12, a probe of 6, stored blocks of 4, chunks of 13, a window
  of 6 and texts of up to 14 bytes: two blocks, two chunks, several stored blocks,
  a window compacted more than once. `MAX_BASE = 20` clears the chains after
  the second block. The texts hold a longer match at the next byte, one that is
  too far, one that lies in the block before, and none in the probe.
* LZMA: a byte has two bits and a register four of them, so that a carry, a
  shift and a byte of ones that waits happen in texts of a few bytes. Probabilities
  have two bits, lengths one or two, distance slots four (footers with direct and
  aligned bits). Dictionaries of 4 and 16 drop and clamp; chunks of three bytes
  start the range coder anew within a text. All texts of five bytes, and longer
  ones that use each repeated distance, the literal after a match, matches put
  off, cut short and passed over.
* Ciphers: blocks of 2, two at a time by the processor, digests of 3, six bytes:
  every split between what is left of a block, whole lanes, whole blocks and
  the rest. Filters: bytes of base 4 and chunks of 5, so that an instruction of
  four or five bytes lies in two chunks, at the end, and within another.

`CHECK_DEADLOCK FALSE` stands where the system really stops: a finished call, a
finished archive, a bound on the archives created. `Extraction` checks for
deadlock: its modules stutter only once they are done.

Every property of a passing run has a mutant of the code in the module
(`...Late`, `...Unclipped`, and so on, next to what they alter) that breaks it.

**Fairness.** `WorkPool` claims that something must happen (`Returns`: the
call returns). `FairSpec` has weak fairness of the calling thread and of each
worker: scoped threads are scheduled by the operating system, and a worker is
never held up but by the mutex, which is held for two steps by a thread that can
always take them. Tasks are assumed to end, as they do not wait for each other.
`Codecs` claims that a call of `read` returns
(`CallsReturn`). `Reading`, a step within a call that has begun, is weakly fair:
the call is a loop of one thread that waits for nothing but the reader below it,
which is a file. It is not assumed of the caller, who may stop asking, except in
`ZstdSpec` of the run `ZstdCut`, whose caller reads until it is told of an end or
an error, as `io::copy` does. bzip2, the filters and the streams of `Lzma` are left out of `Reading`
and `CallsReturn`: their call is one step each, so it returns by the shape of
the model. A cut Zstandard stream is left out because it does not return:
finding 5.

## 4. What is proved

`WorkPool_proof.tla`, for every `MaxCount` and `MaxThreads` in `Nat` (the
assumptions `MaxCountAssumption`, `MaxThreadsAssumption`):

| theorem | says |
|---|---|
| `TypeCorrect` | every state is well typed |
| `IndicesAreExclusive` | no index is with two workers, or with one after it was settled |
| `IndicesAreKept` | every index below the counter is completed, failed, or in a worker's hands |
| `AnswersAreTrue` | Ok means that all was done, Err carries a failure that happened |
| `CallsAreClosed` | no worker and no lock outlives the call |
| `FirstErrorIsKept` | the error that is stored first is never replaced |
| `CounterIsBounded` | `next` passes `count` by at most one for each worker, so it cannot wrap |
| `PoolImplementsForEach` | `WorkPool` implements `ForEach` |

None of the invariants is inductive alone. `OneTaskPerIndex` needs to know that
whatever a worker holds is below the counter (`Ahead`), or a claim could collide
with it; `ResultIsTrue` needs that a worker that left by itself left with the
counter past the end or the flag raised (`Workers`), and that the flag is raised
only after an error was stored (`Errors`); all need the phases of the caller
(`Phases`). `IInv` is their conjunction; `InitIInv` and `NextIInv` show that it
holds at first and is kept by each action. `CounterIsBounded` has an invariant
of its own, `Overshoot`, that counts the workers that have left: each passes the
end once. `RefinementStep` maps each step to a step of the contract or to a
stutter.

`Progress_proof.tla`, for any finite sets of workers and entries, any pieces and
any threshold above zero (`WorkersAssumption`, `EntriesAssumption`,
`PiecesAssumption`, `ThresholdAssumption`, `MainAssumption`):

| theorem | says |
|---|---|
| `TypeCorrect` | every state is well typed |
| `ReportsAreThrottled` | reports for bytes cost a threshold of bytes each, whoever makes them |
| `ThreadsAreMonotone` | what one thread reports never goes down |
| `LastReportIsComplete` | a success ends with a report of all bytes and all entries |

`Throttled` needs `Reads`: a worker that is about to exchange read a value that
the counter has not passed, and has counted a threshold more than it.
`LastReportComplete` needs `Account`: bytes counted, bytes left to workers and
bytes of entries that none has taken add up to the whole. Its sums are folds
over sets, and `Collections_proof` gives what a step needs of them (`SumExcept`,
`SumWithout`). `Roles` and `Reports` are the phases of the threads.

`Volumes_proof.tla`, for any set of volume sizes above zero, any pieces left
before, and any bounds on writes, lengths and archives:

| theorem | says |
|---|---|
| `TypeCorrect` | every state of both sinks and of the directory is well typed |
| `VolumesStayBounded` | no volume is longer than asked for; starts and lengths are those of the files |
| `RecordsStayWhole` | a record that fits a volume lies in one |
| `ImplementsOneFile` | both sinks implement `FlatFile` |

`ZipInv` and `SevenZInv` strengthen the first three: each piece on disk has the
length that the sink goes by and starts where the one before ends (`Kept`), what
is left of a record fits the piece it is in, and the first piece of a ZIP is
never empty, so that the marker has bytes to replace. The refinement maps the
directory to its pieces put end to end (`Flatten`). Its lemmas are about where a
byte lies: a patch across pieces changes their concatenation in one place
(`Overlay`), a piece at the end prolongs it (`WholeGrows`). Every action of
either sink is then one write, seek, patch or start of `FlatFile`, or a stutter.

`Extraction_proof.tla` and `Results_proof.tla`, for any set of paths that holds
what stands above each and what stripping leaves of it (`PathsAssumption`), any
archives, options and destinations with what `InputsAssumption` says of them
(archives of at most `MaxEntries` entries of the kinds their format has; a
destination in which only directories hold something), and any number of workers (`BoundsAssumption`):

| theorem | says |
|---|---|
| `BuildPlanKeeps` | of the selected entries for one path a plan holds the first or the last, as `Overwrite` says, where the first stood |
| `DeepestFirstSorts` | the directories' metadata is set for each once, the deepest first |
| `PlansAreKept` | `PlanIsKept`: every extraction goes by that plan |
| `OnlyPlannedChanges` | `OnlyPlanned`: at any moment a zip or a tar has changed only what its plan names |
| `DirectoriesAreLast` | `DirectoriesLast`: no step changes what lies below a directory that has its metadata |
| `HardLinksAreShared` | `HardLinksShare`: after a success of a tar each hard link is the file of the name it points at, unless a later one overtook it |
| `AntiItemsAreApplied` | `AntiItemsApplied`: after a success of a 7z what an anti item names is gone, or something is still below it or written there |
| `ResultDoesNotVary` | `ResultIsDetermined`: after a success archive, options and the destination that was found determine what stands at each path, but for hard links of a tar and what the anti items of a 7z name or are led to, whatever the workers' order |

`build_plan` is a fold over the archive. `BuildPlanSteps` says what one more
entry does, and `BuildPlanKeeps` has the invariant of the loop, `KeptUpto`: after
`k` entries the plan is right for the first `k`. Its cases are an entry
without a place, a new path, and a rival that comes late and is dropped or takes
over the slot.

Of the extractions, `PlanInv` says that the plan is what `build_plan` makes of the
inputs once it was made; then

* `TreeInv`: what differs from the destination that was found may change
  (`Changeable`), no directory has metadata before the phase that sets it, and in
  that phase only those have it whose turn is over (`DoneFirst`). With the order
  of `DeepestFirstSorts` none of these lies above the next one (`SealFacts`),
  which is `DirectoriesLast`.
* `ZipInv`, `TarInv`: a place is looked at in one step and written in others. A
  zip's worker that has a file open, and a tar's body that waits for its
  worker, have a place that was free or may be replaced when it was looked at, and
  so may change whatever others did since; a hard link that waits has a name to
  point at.
* `SevenZInv`: a link's bytes are read by the worker of its folder and used phases
  later. What is set aside is behind the cursor of its worker, folders share
  no slot and none occurs twice in one (`GroupsApart`), so each link is found once
  (`LinksSort`) with an entry that the archive has (`EntryAtFacts`).

`ZipStep`, `TarStep` and `SevenZStep` go through the actions of the three modules;
`IInvNext` puts them together. Two results are about what is done after the files
and need an invariant more, on top of `IInv`:

* `HardLinkInv`: no step but those of hard links makes something else of a
  directory (`KeepsDirectories`). A hard link leaves its name and the one it points
  at with one file, since the two differ, and a later one changes neither unless it
  has to do with one of them (`LinksStay`): it takes its name, makes a directory of
  it on its own way down, or replaces a link that leads to it.
* `AntiInv`: a link stands only where one stood or is planned (`LinksOnly`), so
  that without one above a deleted path a deletion takes away that path and
  nothing else. The longer paths come first, and a deletion that finds a
  directory with something in it leaves it (`AntiStays`, `Applied`).

`ResultDoesNotVary` is the longest argument. What stands at a path is said by two
things: the directories made so far, and a state of each entry that is not a
directory, from waiting to made (`Holds`). The plan has one entry for a place
(`EntriesAreAlone`), so what happens there leaves the others alone (`OneEntry`);
`LookedAt`, `IsCreated`, `IsFinished`, `PassedOver` and the like say what each
kind of step does to its own. When all are made only the directories' metadata
is missing (`Sealing`), and of those for one path the last is the last to be
sealed, as `DeepestFirst` keeps them in order (`SealingEnds`). `ZipLeft`,
`TarLeft` and `SevenZLeft` say, phase by phase, what the states are: those of
the workers' files, of the entries the loop of a tar has passed, of the entries
in front of a folder's cursor. A worker that gives up leaves its entry in a
state of which nothing is claimed, and then there is no success. In a 7z it
takes besides that the reader's position finds the entry a slot was planned for
(`EntryIsRead`, from the offsets in a folder), and that each link with bytes was
set aside, and its bytes were that link's (`LinksRead`, `LinksBehind`).

Both of the properties before that used to claim more, and the attempt to prove them showed why that
is not so: a later hard link may need a directory where an earlier one was made,
and a deletion may go through a link of the archive. `TarHardLinks` and
`SevenZLeads` of `MCExtraction` are inputs where this happens.

`Creation_proof.tla`, for any finite set of paths, any file trees, inputs and
options (`PathsAssumption`, `LengthsAssumption`, `InputsAssumption`), any number
of workers and of changes by others (`ThreadsAssumption`), and any threshold,
chunk, budget, piece and block (`ZipAssumption`, `TarAssumption`,
`SevenZAssumption`):

| theorem | says |
|---|---|
| `TypeCorrect` | every state is of its module's phases and ranges |
| `EntriesMatchSources` | `EntriesAreSources`: entry k is source k of the list, by name, kind and contents |
| `HeldStaysBounded` | `HeldIsBounded`: what each format keeps in memory is within its bound |
| `StreamArrivesWhole` | `StreamIsWhole`: what a tar's sink was given arrives in order and whole |
| `HardLinksLeadBack` | `HardLinksNameTheFile`: a hard link names an earlier entry with its file's contents |
| `CreationCompletes` | `Complete`: a success has counted and reported every source and, of unchanged files, every byte announced |

The list is the same for the three. `LessNameOrders` shows that the order of the
names is one, `CollectedFacts` that the list holds every source once in that
order. `ListInv` says what list and entries are at any moment, and `ListInvKept`
that a step which lists, appends the entry of the source whose turn it is, lets
others change a file, or leaves both alone, keeps it (`ListStep`); each format
then shows that its steps are of that form. To that each adds:

* `TarInv`: what is out, queued, being filled and pending is, end to end, the
  entries so far (`StreamInv`; `PushKeepsFlow` goes through the three sinks); a
  linked source points back to one that is not linked (`PointsBack`), which is why
  the entry it names is a file's.
* `SevenZInv`: the sizes of a folder cut its data into its streams, and all but
  the last stay below the block (`Sound`). A file's contents are found by counting
  entries with a stream (`StreamsCount`), so each step either puts one stream
  at the end and one such entry, or neither (`SevenZMoves`).
* `ZipInv`: the queue of small files is in the order of the list, and those
  taken from it are those whose turn is over (`InTurn`): the head of what is ready
  is the source whose turn it is although nothing compares them (`QueueTurns`).
  What a slot has read is a beginning of its file, and all of it once it is done
  if nobody changed it (`HasRead`); a chunk is its piece (`IsPiece`), and pieces put
  end to end are the file up to where the last ends (`GatherFacts`). What is held
  is bounded when a wave is chosen (`WaveIsBounded`), and from then on it only
  shrinks (`HeldInv`).

`Complete` takes a balance over all of them (`CountInv`): what has been reported is
what the summary holds and what is under way (`Underway`), the bytes in the slots of
a wave, in the wave that is ready, in a chunked file that is not at its end or in
the file a tar is copying. `CountStep` says what a step may do to it, `CountKept`
that this keeps the balance, and `ZipCounts`, `TarCounts` and `SevenZCounts` that
every step of a format does no more. A zip needs besides that a piece which is not
done has read nothing (`ZipFresh`), for it is reported whole, and that none is
ready when the list ends (`NoneLeft`). The announced total is over a set of sources
and the summary grows source by source: `TotalIsSum` and `SizesGrow` bring the two
together. If a file changes, only the counts of entries are claimed.

Induction is by the least counterexample (`Collections_proof`), since the library's
induction theorems take an operator.

**Model-checked only.** Liveness (`Returns`, `CallsReturn`), because the prover
does not do fairness; what recursive functions compute (`Headers` in
`ZipArchive`, walks and sorts in `Sources`, matches in `Deflate`, sorted blocks
in `Bzip2`, bits of the range coder), because it would take induction over
data; `ReadsBack` of volumes (the search for the pieces); of the extractions
`TypeOK` and the counts of the summary (`Accounted`,
`EntriesComplete`); and so far all safety of the formats and, but for
`FailureLasts`, of the codecs.

`Codecs.tla` has a theorem of its own, `FailuresLast`: once a read of a gzip or
xz stream has failed every later one fails (`FailureLasts`), for any wire, damage
and sequence of reads.

## 5. Abstractions

* Atomics are relaxed in the code and interleaved one access at a time here. For
  the pool and the counters this loses nothing that is checked: each property is
  about one location, or about values after a join, which orders everything.
* Extraction: an entry's contents are one unit and a file is open, partial or
  whole; damage is a failure at any file. Where a link points outside of its
  own path is left open. A tar that can only be read in order has its bodies
  written in one of the orders of the workers. The scratch copy that
  `tarball.rs` makes of a compressed archive is not modelled.
* Creation: walking a directory is one step, and others change only the length
  or presence of files (`MaxChanges` times). Names are compared component by
  component. What compression does to bytes is left out, and with it the choice
  to store. A wave of `Parallel` is one step, since its pieces are fixed.
* ZIP format: names, times, attributes, methods and checksums are left out, as is
  the search for an end record inside a comment. Writing one entry is one step:
  there is one writer.
* Tar: the text of a number or a pax record is its value and its length; modes
  are left out, one number (`mtime`) and one owner stand for the others.
* 7z: a stream is what its coders were given and how long that makes it; names,
  attributes and the other times are left out, as BCJ2 is but for having four
  inputs.
* Codecs: checksums are ideal (the token holds what was summed). The codec proper of gzip and
  lzip is a token for each byte in `Members`, and a chunk in `XzStreams` carries
  what state the encoder was in; `Deflate` and `Lzma` are those codecs. Entropy
  coding of Zstandard is left out. Reads into an empty buffer are left out.
* LZMA: a decoder takes all of its stream before the first call gives a byte; how
  it reads ahead and meets the end is in `Members`. That the finder counts places
  modulo 2^32 (past that it finds less), and what a level sets beside the
  dictionary and the depth, are left out. Streams of other encoders may use what
  this one never writes, a single byte at the last distance and contexts by place;
  `foreign` says that a stream does. Whether a chunk is stored is in `XzStreams`.
* Deflate: a symbol is a token with the lengths of the table it was coded with, so
  a decoder with another table reads something else. Which kind of block is
  shortest is open, as is whether bits are over at a boundary; all choices are
  tried. Cuts fall between codes, between blocks and in stored bytes; what a
  decoder makes of missing bits is what a table makes of zeros.
* Ciphers: a byte of cipher text is its plain byte with the key it was made with;
  keys are what the code puts into them (counter, block before, bytes before).
  Filters and Deflate are not altered on their way, for they have no check of
  their own: only cut.
* File systems do what they are asked, or fail as a whole; permissions and
  full disks are failures like any other.

## 6. Findings

With a run (`PROJECT.json` has the lines):

1. `ProgressBackwards`: updates of two workers can be delivered in the wrong
   order; `tests/progress.rs` asserts that they are not.
2. `ZipVolumesPlain`: a plain ZIP written over a set leaves `.z01`, and is then
   read as the end of the old set.
3. `ExtractionNever`: under `Overwrite::Never` a plain file gives way to a
   directory.
4. `ZipArchiveSets`: a set of volumes with a Zip64 end cannot be opened: the
   reader takes the place of the record within its volume for a place in the
   whole set.
5. `ZstdCut`: a Zstandard stream that ends right after a frame's header or between
   two blocks is read as empty blocks without end, so `read` never returns.

Seen on the way, without a run of their own:

* Under `Overwrite::Always` the place of a pending hard link is cleared
  (`pipeline/tarball.rs:891`) before its source is looked for (`:896`): without
  one, the file is gone and the entry counts as skipped.
* Links of a 7z, and links of a zip that are not restored, are announced but never
  finished, so a count of entries does not complete (`EntriesComplete` states the
  exceptions).
* An anti item below a plain file ends a 7z extraction with an error
  (`pipeline/sevenz.rs:282`).
* A set of ZIP volumes whose archive is not called `.zip` cannot be found from its
  pieces (`zip/volumes.rs:129`).
* In a set of ZIP volumes the count of entries on the last disk also counts those
  of earlier disks, and the number of the last disk is taken before the end
  record may open another (`zip/writer.rs:526`, `:537`). The reader of this
  crate uses neither.
* A volume number above 65,535 is stored saturated without its Zip64 field
  (`zip/writer.rs:514`).
* If two inputs bring two files to one name in a tar, a hard link to that name
  may name the other file; `HardLinksNameTheFile` holds of distinct names.
* An archive that already stands among its own inputs is listed with its old
  length and then truncated; stored by a method that streams, it would be read
  as it grows.
* Gnu tar cuts names of 101 to 256 bytes that could be split (the program only
  writes pax); a name that ends in a space loses it on reading.
* gzip: read at once or as a stream, a file differs on one to nine zero bytes at
  its end, and only the former checks the checksum of a header.
* lzip: a call after an error reports an end. bzip2: after an error of a block's
  checksum the next call gives the block.
* A cut lzip or LZMA stream is decoded with made-up zeros, which need not end;
  `compress` (.Z) cannot tell a cut. LZMA2 takes an end between chunks for an end,
  which xz's check or index then notices.
* xz at once stops after the first block if the header has no packed size (the
  program does not use it so).
* Raw Deflate cut in its last block reads as whole if the zeros decode to its end,
  as with the fixed table they do; what was decoded before an error is given by
  the call after it. The checksums of the containers notice both.
* An error of the file below an LZMA range decoder that refills is taken for the
  end of the input (`codecs/lzma/range.rs:94`), and zeros follow.
* Lazy matching inserts the next place twice if its match is not better
  (`codecs/deflate/lz77.rs:174`), so that its chain is lost: only compression
  suffers.
* Zstandard cut in a frame to skip reads as ended and loses the frames after it;
  cut after the head of a last block without a checksum, it gives zeros.
* After an error of authentication `DecryptReader` reports an end, and a read into
  an empty buffer is an error there. `CbcDecryptReader` read again after an early
  end subtracts a position that was not reset (`crypto/sevenz_aes.rs:196`):
  a panic, or stale bytes; a folder's length keeps undamaged archives from it
  (action `Stale`). `Filtered` gives the last bytes of a folder after it has
  refused their number.

## 7. Not modelled, and the plan

Left aside, with the reason:

* PPMd: a decoder for archives of other tools. The state of its sub-allocator
  follows from statistics over thousands of counters; free calls of the
  allocator alone are not inputs it has. Shrink, reduce and implode, and
  `compress` (.Z): decoders without a writer in the crate that says what they
  should give.
* FSE and the Huffman streams of Zstandard, AES, SHA and the checksums: arithmetic over tables or registers, best tested with vectors.
* PowerPC, SPARC, ARM64, IA-64 and RISC-V filters: ARM's with the distance
  elsewhere. BCJ2, Deflate64, the filters of an xz block, raw ZIP splits.
* Adapters of `utils/io.rs` (sections, limits, counters), one counter each.
* Names, attributes and dates as text; tests, examples, fixtures and benchmarks.
* The detection of a format, setters and listing in `lib.rs`.

What comes next is proof, in this order:

1. `Extraction`: `TypeOK`, then `Accounted` on top of the states of
   `Results_proof`: each of them is in one count of the summary.
2. `Codecs`: `HistoryIsHeld`.
3. `ZipArchive`: `HeadersAreWhole`. `ReadsBack` of volumes.
