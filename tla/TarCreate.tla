----------------------------- MODULE TarCreate -----------------------------
(***************************************************************************)
(* pipeline::tarball's create: the sources are written one after another as *)
(* one stream of headers and bodies, and the stream goes through the sink   *)
(* of its wrapper: written as it comes, cut into pieces that are compressed *)
(* a wave at a time, or held until it is worth compressing as a stream.     *)
(***************************************************************************)
EXTENDS Sources

CONSTANTS
  SparseMinimum,  \* SPARSE_MINIMUM
  Piece,          \* Parallel::PIECE
  Held            \* the threshold of the staged encodings

VARIABLES
  links,      \* find_hard_links: of a later name of a file, the first
  pending,    \* what the writer has emitted and the sink has not taken
  filling,    \* the piece being filled, or what is held
  queued,     \* the pieces of the next wave
  streaming,  \* a staged encoding has started
  out         \* what has reached the file

tvars == <<svars, links, pending, filling, queued, streaming, out>>
sink == <<filling, queued, streaming, out>>

Zero == <<"zero">>
HeaderOf(k) == <<"header", k>>
End == <<"end">>

Init ==
  /\ SInit
  /\ links = <<>> /\ pending = <<>> /\ filling = <<>> /\ queued = <<>> /\ streaming = FALSE /\ out = <<>>

-----------------------------------------------------------------------------
(* A file with several names is stored once, under the first in the order   *)
(* of the archive.                                                          *)
SameFile(j, k) == disk[Collected[j].path].id = disk[Collected[k].path].id
HasNames(k) == Collected[k].kind = "file" /\ disk[Collected[k].path].kind = "file" /\ disk[Collected[k].path].id # 0
Names(k) == {j \in DOMAIN Collected : HasNames(j) /\ HasNames(k) /\ SameFile(j, k)}

(* Mutant: the last name is the one with the contents.                      *)
LinksToLast ==
  [k \in {k \in DOMAIN Collected : HasNames(k) /\ k # Max(Names(k))} |-> Collected[Max(Names(k))].name]

FindHardLinks ==
  [k \in {k \in DOMAIN Collected : HasNames(k) /\ k # Min(Names(k))} |-> Collected[Min(Names(k))].name]

Refuse ==
  /\ phase = "begin" /\ options.refused
  /\ Fail

TBegin ==
  /\ ~options.refused
  /\ Begin(DOMAIN FindHardLinks)
  /\ links' = FindHardLinks
  /\ UNCHANGED <<pending, sink>>

Linked == at \in DOMAIN links
Ready == phase = "writing" /\ pending = <<>>
Emit(units) == pending' = units /\ UNCHANGED <<links, sink>>

WriteHardLink ==
  /\ Ready /\ Turn("file") /\ Linked
  /\ Finish([kind |-> "hard", name |-> Now.name, body |-> <<>>, to |-> links[at]], "hardlinks", 0)
  /\ Emit(<<HeaderOf(at)>>)
  /\ UNCHANGED <<phase, processed>>

WriteOther ==
  /\ Ready
  /\ WriteDirectory \/ WriteSymlink
  /\ Emit(<<HeaderOf(at)>>)

WriteSparse ==
  /\ Ready /\ Turn("file") /\ ~Linked
  /\ options.sparse /\ Now.size >= SparseMinimum
  /\ Openable(Now.path)
  /\ LET data == Units(Now.path, 0, disk[Now.path].len)
     IN /\ Finish(Entry("file", data), "files", Len(data))
        /\ Emit(<<HeaderOf(at)>> \o data)
        /\ processed' = processed + Len(data)
  /\ UNCHANGED phase

Unopenable ==
  /\ Ready /\ Turn("file") /\ ~Linked
  /\ ~Openable(Now.path)
  /\ Fail
  /\ UNCHANGED <<links, pending, sink>>

(* The header says how long the body is before a byte of it is read.        *)
StartFile ==
  /\ Ready /\ Turn("file") /\ ~Linked
  /\ ~(options.sparse /\ Now.size >= SparseMinimum)
  /\ Openable(Now.path)
  /\ phase' = "body"
  /\ Emit(<<HeaderOf(at)>>)
  /\ UNCHANGED <<world, disk, changed, sources, at, body, entries, totals, report>>

Copy ==
  /\ phase = "body" /\ pending = <<>>
  /\ Len(body) < Now.size /\ Len(body) < disk[Now.path].len
  /\ body' = Append(body, Unit(Now.path, Len(body)))
  /\ processed' = processed + 1
  /\ Emit(<<Unit(Now.path, Len(body))>>)
  /\ UNCHANGED <<world, disk, changed, phase, sources, at, entries, totals, summary, finished>>

(* What a file has lost since its header was written is made up for.        *)
Zeros(n) == [k \in 1 .. n |-> Zero]
Padding == Zeros(Now.size - Len(body))

EndFile ==
  /\ phase = "body" /\ pending = <<>>
  /\ Len(body) = Now.size \/ Len(body) >= disk[Now.path].len
  /\ phase' = "writing"
  /\ Finish(Entry("file", body \o Padding), "files", Now.size)
  /\ Emit(Padding)
  /\ UNCHANGED processed

-----------------------------------------------------------------------------
(* The sinks.                                                               *)

Plain ==
  /\ options.wrapper = "plain"
  /\ out' = out \o pending
  /\ pending' = <<>>
  /\ UNCHANGED <<filling, queued, streaming>>

(* Parallel::write, one turn of its loop.                                   *)
Room == Piece - Len(filling)
Taking == IF Len(pending) < Room THEN Len(pending) ELSE Room
FullerBy == filling \o SubSeq(pending, 1, Taking)

Split ==
  /\ options.wrapper = "split"
  /\ pending' = SubSeq(pending, Taking + 1, Len(pending))
  /\ IF Len(FullerBy) < Piece
       THEN filling' = FullerBy /\ UNCHANGED <<queued, out>>
       ELSE /\ filling' = <<>>
            /\ IF Len(queued) + 1 < Threads
                 THEN queued' = Append(queued, FullerBy) /\ UNCHANGED out
                 ELSE queued' = <<>> /\ out' = out \o FlattenSeq(Append(queued, FullerBy))
  /\ UNCHANGED streaming

(* Staged::push.                                                            *)
Staged ==
  /\ options.wrapper = "staged"
  /\ pending' = <<>>
  /\ IF streaming
       THEN out' = out \o pending /\ UNCHANGED <<filling, streaming>>
       ELSE IF Len(filling) + Len(pending) <= Held
              THEN filling' = filling \o pending /\ UNCHANGED <<streaming, out>>
              ELSE filling' = <<>> /\ streaming' = TRUE /\ out' = out \o filling \o pending
  /\ UNCHANGED queued

Push ==
  /\ phase \in {"writing", "body", "ending"}
  /\ pending # <<>>
  /\ Plain \/ Split \/ Staged
  /\ UNCHANGED <<svars, links>>

(* Mutant: the last piece, which no write completed, is forgotten.          *)
LastPieceLost == out \o FlattenSeq(queued)

Remainder == out \o FlattenSeq(queued) \o filling

WriteEnd ==
  /\ Ready
  /\ at > Len(sources)
  /\ phase' = "ending"
  /\ Emit(<<End>>)
  /\ UNCHANGED <<world, disk, changed, sources, at, body, entries, totals, report>>

FinishSink ==
  /\ phase = "ending" /\ pending = <<>>
  /\ phase' = "done"
  /\ out' = Remainder
  /\ filling' = <<>> /\ queued' = <<>>
  /\ UNCHANGED <<world, disk, changed, sources, at, body, entries, totals, report, links, pending, streaming>>

-----------------------------------------------------------------------------
Others == Refuse \/ CannotCollect \/ (Ready /\ SymlinkGone) \/ WriteFails \/ Change

Next ==
  \/ TBegin
  \/ WriteHardLink \/ WriteOther \/ WriteSparse \/ Unopenable
  \/ StartFile \/ Copy \/ EndFile
  \/ Push
  \/ WriteEnd \/ FinishSink
  \/ Others /\ UNCHANGED <<links, pending, sink>>

-----------------------------------------------------------------------------
TypeOK ==
  /\ phase \in {"begin", "writing", "body", "ending", "done", "failed"}
  /\ DOMAIN links \subseteq DOMAIN sources
  /\ streaming \in BOOLEAN

(* Less than a wave is kept back, and of what is held less than is worth    *)
(* compressing as a stream.                                                 *)
HeldIsBounded ==
  /\ Len(queued) < Threads
  /\ options.wrapper = "split" => Len(filling) < Piece
  /\ options.wrapper = "staged" => Len(filling) <= Held

(* A regular file has the length its header gives: what was there of it,    *)
(* and zeros.  A sparse one is what was there.                              *)
Holds(entry, s) ==
  \E n \in 0 .. Len(entry.body) :
    /\ entry.body = Units(s.path, 0, n) \o Zeros(Len(entry.body) - n)
    /\ ~(options.sparse /\ s.size >= SparseMinimum) \/ s.path \notin changed => Len(entry.body) = s.size
    /\ s.path \notin changed => n = Len(entry.body)

(* What has reached the file, what the sink keeps and what is on its way    *)
(* are the stream of the entries in their order.                            *)
InStream == [k \in DOMAIN entries |-> <<HeaderOf(k)>> \o (IF entries[k].kind = "file" THEN entries[k].body ELSE <<>>)]
Begun == IF phase = "body" THEN <<HeaderOf(at)>> \o body ELSE <<>>
StreamIsWhole ==
  LET flow == out \o FlattenSeq(queued) \o filling \o pending
      whole == FlattenSeq(InStream) \o Begun \o (IF phase \in {"ending", "done"} THEN <<End>> ELSE <<>>)
  IN /\ phase \notin {"begin", "failed"} => flow = whole
     /\ phase = "done" => out = whole

(* A hard link names an earlier entry that holds the same file.  Where two  *)
(* inputs gave one name, that entry need not be the only one of its name.   *)
HardLinksNameTheFile ==
  \A k \in DOMAIN entries : entries[k].kind = "hard" =>
    \E j \in 1 .. k - 1 : /\ entries[j].kind = "file"
                          /\ entries[j].name = entries[k].to
                          /\ disk[sources[j].path].id = disk[sources[k].path].id
=============================================================================
