---------------------------- MODULE SevenZCreate ----------------------------
(***************************************************************************)
(* pipeline::sevenz's create: files and links one after another into        *)
(* folders that are closed once they hold a block, while the list of files  *)
(* only says which of them have contents: they are found by counting.       *)
(***************************************************************************)
EXTENDS Sources

CONSTANTS
  Block       \* DEFAULT_BLOCK_SIZE

VARIABLES
  folders,    \* closed folders: [data, unpack, sizes]
  open        \* the folder being filled, <<>> or of one element

fvars == <<svars, folders, open>>

Init == SInit /\ folders = <<>> /\ open = <<>>

New == [data |-> <<>>, unpack |-> 0, sizes |-> <<>>]

(* close_folder: one in which no file came to lie is not written.           *)
Closed == IF open = <<>> \/ Head(open).sizes = <<>> THEN folders ELSE folders \o open

(* begin.                                                                   *)
IsFull == open # <<>> /\ Head(open).unpack >= Block
Begun == IF open = <<>> \/ IsFull THEN New ELSE Head(open)
With(folder, data) ==
  [data |-> folder.data \o data, unpack |-> folder.unpack + Len(data), sizes |-> Append(folder.sizes, Len(data))]

Refused == options.sparse \/ options.refused
Refuse ==
  /\ phase = "begin" /\ Refused
  /\ Fail

SBegin ==
  /\ ~Refused
  /\ Begin({})
  /\ UNCHANGED <<folders, open>>

Listed(kind, stream) == [kind |-> kind, name |-> Now.name, stream |-> stream]

SDirectory ==
  /\ Turn("dir")
  /\ Finish(Listed("dir", FALSE), "directories", 0)
  /\ UNCHANGED <<phase, processed, folders, open>>

(* add_file with the target of a link.                                      *)
SSymlink ==
  /\ Turn("link")
  /\ Openable(Now.path)
  /\ Finish(Listed("link", TRUE), "symlinks", 0)
  /\ folders' = IF IsFull THEN Closed ELSE folders
  /\ open' = <<With(Begun, Units(Now.path, 0, 1))>>
  /\ UNCHANGED <<phase, processed>>

(* add_stream.                                                              *)
EmptyFile ==
  /\ Turn("file") /\ Now.size = 0
  /\ Openable(Now.path)
  /\ Finish(Listed("file", FALSE), "files", 0)
  /\ UNCHANGED <<phase, processed, folders, open>>

Unopenable ==
  /\ Turn("file")
  /\ ~Openable(Now.path)
  /\ Fail
  /\ UNCHANGED <<folders, open>>

StartFile ==
  /\ Turn("file") /\ Now.size > 0
  /\ Openable(Now.path)
  /\ phase' = "body"
  /\ folders' = IF IsFull THEN Closed ELSE folders
  /\ open' = <<Begun>>
  /\ UNCHANGED <<world, disk, changed, sources, at, body, entries, totals, report>>

Read ==
  /\ phase = "body"
  /\ Len(body) < Now.size /\ Len(body) < disk[Now.path].len
  /\ body' = Append(body, Unit(Now.path, Len(body)))
  /\ open' = [open EXCEPT ![1].data = Append(@, Unit(Now.path, Len(body)))]
  /\ UNCHANGED <<world, disk, changed, phase, sources, at, entries, totals, report, folders>>

Counted ==
  IF body = <<>> THEN Head(open)
  ELSE [Head(open) EXCEPT !.unpack = @ + Len(body), !.sizes = Append(@, Len(body))]

EndFile ==
  /\ phase = "body"
  /\ Len(body) = Now.size \/ Len(body) >= disk[Now.path].len
  /\ phase' = "writing"
  /\ open' = <<Counted>>
  /\ Finish(Listed("file", body # <<>>), "files", Now.size)
  /\ processed' = processed + Now.size
  /\ UNCHANGED folders

SClose ==
  /\ Close
  /\ folders' = Closed
  /\ open' = <<>>

Others == Refuse \/ CannotCollect \/ SymlinkGone \/ WriteFails \/ Change

Next ==
  \/ SBegin
  \/ SDirectory \/ SSymlink \/ EmptyFile \/ Unopenable
  \/ StartFile \/ Read \/ EndFile
  \/ SClose
  \/ Others /\ UNCHANGED <<folders, open>>

-----------------------------------------------------------------------------
TypeOK ==
  /\ phase \in {"begin", "writing", "body", "done", "failed"}
  /\ Len(open) <= 1

(* A folder is closed at the first file that finds it full.                 *)
HeldIsBounded ==
  \A k \in DOMAIN folders :
    /\ folders[k].sizes # <<>>
    /\ FoldSeq(+, 0, Front(folders[k].sizes)) < Block

(* The contents of the files that have any, by counting.                    *)
Cut(folder) ==
  [k \in DOMAIN folder.sizes |->
     LET before == FoldSeq(+, 0, SubSeq(folder.sizes, 1, k - 1))
     IN SubSeq(folder.data, before + 1, before + folder.sizes[k])]
Streams == FlattenSeq([k \in DOMAIN folders |-> Cut(folders[k])]) \o (IF open = <<>> THEN <<>> ELSE Cut(Head(open)))
StreamsUpTo(k) == Cardinality({j \in 1 .. k : entries[j].stream})
ContentsOf(k) == IF entries[k].stream THEN Streams[StreamsUpTo(k)] ELSE <<>>

Holds(k, s) ==
  /\ Len(Streams) = StreamsUpTo(Len(entries))
  /\ ContentsOf(k) = Units(s.path, 0, Len(ContentsOf(k)))
  /\ Len(ContentsOf(k)) <= s.size
  /\ s.path \notin changed => Len(ContentsOf(k)) = s.size
=============================================================================
