----------------------------- MODULE ZipCreate -----------------------------
(***************************************************************************)
(* pipeline::create: files up to a threshold are read and compressed        *)
(* several at a time, in waves that Batch holds ready until their turn; a   *)
(* larger one is cut into chunks that are compressed in waves of their own, *)
(* or, with a method that has no chunks, streamed.  A wave is one call of   *)
(* pool::for_each, one slot an index: a call with a failure returns it once *)
(* no slot is being worked on, and slots never started are left.            *)
(***************************************************************************)
EXTENDS Sources

CONSTANTS
  Threshold,  \* STREAM_THRESHOLD
  Chunk,      \* PARALLEL_CHUNK
  Budget      \* MEMORY_BUDGET

VARIABLES
  next,       \* how many small files Batch has compressed
  ready,      \* those whose turn has not come
  slots,      \* the wave being worked on: [source, from, upto, data, state]
  chunk       \* how many chunks of a large file are written

zvars == <<svars, next, ready, slots, chunk>>

IsSmall(s) == s.kind = "file" /\ s.size <= Threshold
Small == InOrder({k \in DOMAIN sources : IsSmall(sources[k])}, <)
LeastOf(a, b) == IF a <= b THEN a ELSE b
ThreadCount(items) == LeastOf(Threads, Max({items, 1}))
Slot(k, from, upto) == [source |-> k, from |-> from, upto |-> upto, data |-> <<>>, state |-> "waiting"]

Init == SInit /\ next = 0 /\ ready = <<>> /\ slots = <<>> /\ chunk = 0

(* Holes are refused once the inputs are listed.                            *)
ZBegin ==
  /\ List({})
  /\ phase' = IF options.sparse THEN "failed" ELSE "writing"
  /\ UNCHANGED <<next, ready, slots, chunk>>

-----------------------------------------------------------------------------
(* Batch.                                                                   *)

Announced(k) == sources[k].size
SizeOf(ks) == MapThenSumSet(Announced, ks)
Waves == {w \in 1 .. ThreadCount(Len(Small)) : next + w <= Len(Small)}
Fits(w) == SizeOf({Small[next + j] : j \in 1 .. w}) <= Budget

(* Mutant: the files are counted and their sizes are not.                   *)
WaveByNumber == Max(Waves)

Wave == Max({w \in Waves : w = 1 \/ Fits(w)})

Fill ==
  /\ Turn("file") /\ IsSmall(Now)
  /\ ready = <<>>
  /\ phase' = "wave"
  /\ slots' = [j \in 1 .. Wave |-> Slot(Small[next + j], 0, sources[Small[next + j]].size)]
  /\ UNCHANGED <<world, disk, changed, sources, at, body, entries, totals, report, next, ready, chunk>>

(* Mutant: the slots are handed over in the order they were done, which     *)
(* their lengths stand for here.                                            *)
FilledAsTheyCome ==
  /\ phase = "wave"
  /\ \A j \in DOMAIN slots : slots[j].state = "done"
  /\ ready' = SortSeq(slots, LAMBDA s, t : Len(s.data) < Len(t.data))
  /\ next' = next + Len(slots)
  /\ slots' = <<>>
  /\ phase' = "writing"
  /\ UNCHANGED <<world, disk, changed, sources, at, body, entries, totals, report, chunk>>

(* Mutant: as many are counted as there are threads.                        *)
FilledByThreads ==
  /\ phase = "wave"
  /\ \A j \in DOMAIN slots : slots[j].state = "done"
  /\ ready' = slots
  /\ next' = next + Threads
  /\ slots' = <<>>
  /\ phase' = "writing"
  /\ UNCHANGED <<world, disk, changed, sources, at, body, entries, totals, report, chunk>>

Filled ==
  /\ phase = "wave"
  /\ \A j \in DOMAIN slots : slots[j].state = "done"
  /\ ready' = slots
  /\ next' = next + Len(slots)
  /\ slots' = <<>>
  /\ phase' = "writing"
  /\ UNCHANGED <<world, disk, changed, sources, at, body, entries, totals, report, chunk>>

(* take: the first that is ready is taken for the source whose turn it is.  *)
Take ==
  /\ Turn("file") /\ IsSmall(Now)
  /\ ready # <<>>
  /\ Finish([kind |-> "file", name |-> sources[Head(ready).source].name, body |-> Head(ready).data],
            "files", Len(Head(ready).data))
  /\ ready' = Tail(ready)
  /\ UNCHANGED <<phase, processed, next, slots, chunk>>

-----------------------------------------------------------------------------
(* The slots of either wave.  A small file is opened by the task that reads *)
(* it, a large one by each worker, which keeps it open for all its chunks.  *)

Work == phase \in {"wave", "chunks"}
PathOf(j) == sources[slots[j].source].path

Opened == phase = "chunks" /\ \E i \in DOMAIN slots : slots[i].state = "done"

Open(j) ==
  /\ Work
  /\ slots[j].state = "waiting"
  /\ \/ /\ Openable(PathOf(j)) \/ Opened
        /\ slots' = [slots EXCEPT ![j].state = "reading"]
     \/ /\ ~Openable(PathOf(j))
        /\ slots' = [slots EXCEPT ![j].state = "failed"]
  /\ UNCHANGED <<svars, next, ready, chunk>>

(* A worker that cannot open the large file fails the call, even when the   *)
(* others have left it nothing to do.                                       *)
WorkerCannotOpen ==
  /\ phase = "chunks" /\ slots # <<>>
  /\ ~Openable(Now.path)
  /\ \A j \in DOMAIN slots : slots[j].state # "reading"
  /\ Fail
  /\ UNCHANGED <<next, ready, slots, chunk>>

(* A small file is read to its end and reported as it is read.              *)
ReadSmall(j) ==
  LET p == PathOf(j)  n == Len(slots[j].data)
  IN /\ phase = "wave"
     /\ slots[j].state = "reading"
     /\ IF n < disk[p].len
          THEN /\ slots' = [slots EXCEPT ![j].data = Append(@, Unit(p, n))]
               /\ processed' = processed + 1
          ELSE /\ slots' = [slots EXCEPT ![j].state = "done"]
               /\ UNCHANGED processed
     /\ UNCHANGED <<world, disk, changed, phase, sources, at, body, entries, totals, summary, finished,
                    next, ready, chunk>>

(* Of a chunk exactly its bytes are read, or the entry cannot be made.      *)
ReadChunk(j) ==
  LET p == PathOf(j)  s == slots[j]
  IN /\ phase = "chunks"
     /\ s.state = "reading"
     /\ IF disk[p].len < s.upto
          THEN /\ slots' = [slots EXCEPT ![j].state = "failed"]
               /\ UNCHANGED processed
          ELSE /\ slots' = [slots EXCEPT ![j].data = Units(p, s.from, s.upto), ![j].state = "done"]
               /\ processed' = processed + (s.upto - s.from)
     /\ UNCHANGED <<world, disk, changed, phase, sources, at, body, entries, totals, summary, finished,
                    next, ready, chunk>>

WaveFails ==
  /\ Work
  /\ \E j \in DOMAIN slots : slots[j].state = "failed"
  /\ \A j \in DOMAIN slots : slots[j].state # "reading"
  /\ Fail
  /\ UNCHANGED <<next, ready, slots, chunk>>

-----------------------------------------------------------------------------
(* write_large_entry.                                                       *)

IsLarge(s) == s.kind = "file" /\ s.size > Threshold
Chunks == (Now.size + Chunk - 1) \div Chunk

StartLarge ==
  /\ phase = "writing"
  /\ at <= Len(sources) /\ IsLarge(Now) /\ options.chunked
  /\ phase' = "chunks"
  /\ chunk' = 0
  /\ UNCHANGED <<world, disk, changed, sources, at, body, entries, totals, report, next, ready, slots>>

ChunkOf(slot) ==
  LET index == chunk + slot - 1
  IN Slot(at, index * Chunk, LeastOf((index + 1) * Chunk, Now.size))

StartChunks ==
  /\ phase = "chunks"
  /\ slots = <<>> /\ chunk < Chunks
  /\ slots' = [j \in 1 .. LeastOf(Chunks - chunk, Threads) |-> ChunkOf(j)]
  /\ UNCHANGED <<svars, next, ready, chunk>>

ChunksDone ==
  /\ phase = "chunks"
  /\ slots # <<>>
  /\ \A j \in DOMAIN slots : slots[j].state = "done"
  /\ body' = body \o FlattenSeq([j \in DOMAIN slots |-> slots[j].data])
  /\ chunk' = chunk + Len(slots)
  /\ slots' = <<>>
  /\ UNCHANGED <<world, disk, changed, phase, sources, at, entries, totals, report, next, ready>>

EndLarge ==
  /\ phase = "chunks"
  /\ slots = <<>> /\ chunk = Chunks
  /\ phase' = "writing"
  /\ Finish(Entry("file", body), "files", Now.size)
  /\ UNCHANGED <<processed, next, ready, slots, chunk>>

-----------------------------------------------------------------------------
(* add_file: read to the end, and reported as what it was to be.            *)

StartStream ==
  /\ phase = "writing"
  /\ at <= Len(sources) /\ IsLarge(Now) /\ ~options.chunked
  /\ phase' = IF Openable(Now.path) THEN "stream" ELSE "failed"
  /\ UNCHANGED <<world, disk, changed, sources, at, body, entries, totals, report, next, ready, slots, chunk>>

Stream ==
  /\ phase = "stream"
  /\ Len(body) < disk[Now.path].len
  /\ body' = Append(body, Unit(Now.path, Len(body)))
  /\ UNCHANGED <<world, disk, changed, phase, sources, at, entries, totals, report, next, ready, slots, chunk>>

EndStream ==
  /\ phase = "stream"
  /\ Len(body) >= disk[Now.path].len
  /\ phase' = "writing"
  /\ Finish(Entry("file", body), "files", Now.size)
  /\ processed' = processed + Now.size
  /\ UNCHANGED <<next, ready, slots, chunk>>

-----------------------------------------------------------------------------
Others == CannotCollect \/ WriteDirectory \/ WriteSymlink \/ SymlinkGone \/ Close \/ WriteFails \/ Change

Next ==
  \/ ZBegin
  \/ Fill \/ Filled \/ Take
  \/ \E j \in DOMAIN slots : Open(j) \/ ReadSmall(j) \/ ReadChunk(j)
  \/ WaveFails \/ WorkerCannotOpen
  \/ StartLarge \/ StartChunks \/ ChunksDone \/ EndLarge
  \/ StartStream \/ Stream \/ EndStream
  \/ Others /\ UNCHANGED <<next, ready, slots, chunk>>

-----------------------------------------------------------------------------
TypeOK ==
  /\ phase \in {"begin", "writing", "wave", "chunks", "stream", "done", "failed"}
  /\ next \in 0 .. Len(Small)
  /\ \A j \in DOMAIN slots : slots[j].state \in {"waiting", "reading", "done", "failed"}

(* The files read ahead of their turn are few and, as listed, fit in memory.*)
HeldIsBounded ==
  LET held == {s.source : s \in {t \in ToSet(slots) \cup ToSet(ready) : IsSmall(sources[t.source])}}
  IN Cardinality(held) <= 1 \/ (Cardinality(held) <= Threads /\ SizeOf(held) <= Budget)

(* What the entry of a file holds of it: of a small or a streamed one what  *)
(* was there when it was read, of one in chunks what was listed.            *)
Holds(entry, s) ==
  /\ entry.body = Units(s.path, 0, Len(entry.body))
  /\ s.path \notin changed \/ (IsLarge(s) /\ options.chunked) => Len(entry.body) = s.size
=============================================================================
