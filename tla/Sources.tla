------------------------------ MODULE Sources ------------------------------
(***************************************************************************)
(* What the three ways of creating an archive share: pipeline::create's     *)
(* collect, which turns the inputs into a list of sources sorted by name,   *)
(* the entries that have no contents, and the files themselves, which       *)
(* others may change between the moment they are listed and the moment they *)
(* are read.                                                                *)
(*                                                                          *)
(* A path is the sequence of its components, numbers in the order of their  *)
(* names.  The contents of a file are its units, <<path, offset>>; only its *)
(* length varies.                                                           *)
(***************************************************************************)
EXTENDS Naturals, Sequences, SequencesExt, FiniteSetsExt

CONSTANTS
  Inputs,     \* the creations considered, in families of one format:
              \* [format, worlds, inputs, choices]
  Paths,      \* the paths of the file system
  Lengths,    \* the lengths a file can take
  MaxChanges, \* how often a file changes while the archive is made
  Threads     \* what thread_count returned

ASSUME PathsAssumption == IsFiniteSet(Paths) /\ Paths \subseteq Seq(Nat)
ASSUME LengthsAssumption == Lengths \subseteq Nat
ASSUME ThreadsAssumption == Threads \in Nat \ {0}

Node == [kind : {"none", "file", "dir", "link", "special"}, len : Nat, id : Nat, to : {"none", "file", "dir"}]

(* An input may lead to where nothing is, so it need not be a path.         *)
ASSUME InputsAssumption ==
  \A i \in Inputs : i.worlds \subseteq [Paths -> Node] /\ i.inputs \subseteq Seq(Seq(Nat))

VARIABLES
  options,    \* CreateOptions: symlinks, recursive, and those of the format
  inputs,     \* the paths given
  disk,       \* what stands at each path: [kind, len, id, to]
  changed,    \* the paths whose file is not what it was when it was listed
  phase,      \* "begin", "writing", what a format adds, "done" or "failed"
  sources,    \* collect's list
  at,         \* the source whose turn it is
  body,       \* what has been read of it
  entries,    \* what the archive holds
  summary,    \* CreateSummary
  totals,     \* what set_totals was given
  processed,  \* bytes reported
  finished    \* entries reported as finished

world == <<inputs, options>>
report == <<summary, processed, finished>>
svars == <<world, disk, changed, phase, sources, at, body, entries, totals, report>>

(* The elements of a finite set in the order that Precedes gives, as the    *)
(* sorts of the code leave them: n - 1 elements precede the n-th.           *)
InOrder(S, Precedes(_, _)) ==
  [n \in 1 .. Cardinality(S) |-> CHOOSE x \in S : Cardinality({y \in S : Precedes(y, x)}) = n - 1]

-----------------------------------------------------------------------------
(* The inputs.                                                              *)

(* What one input leads to: itself and, below directories, all there is.    *)
(* <<>> is an input that has no last component to name entries from.        *)
Reached(base) ==
  {p \in Paths : /\ base # <<>> /\ IsPrefix(base, p)
                 /\ p # base => options.recursive
                 /\ \A n \in Len(base) .. Len(p) - 1 : disk[SubSeq(p, 1, n)].kind = "dir"
                 /\ p # base => disk[p].kind # "none"}

(* A link that is not to be stored stands for the file it leads to.         *)
Followed(p) == disk[p].kind = "link" /\ ~options.symlinks
KindOf(p) == IF Followed(p) THEN "file" ELSE disk[p].kind

(* An entry is named from the last component of its input on.               *)
Source(i, p) ==
  [input |-> i, path |-> p, name |-> SubSeq(p, Len(inputs[i]), Len(p)),
   kind |-> KindOf(p), size |-> IF KindOf(p) = "file" THEN disk[p].len ELSE 0]

All == UNION {{<<i, p>> : p \in Reached(inputs[i])} : i \in DOMAIN inputs}
Specials == {s \in All : disk[s[2]].kind = "special"}
Dropped == {s \in All : Followed(s[2]) /\ disk[s[2]].to = "dir"}
Kept == All \ (Specials \cup Dropped)

(* An input that is not there or has no portable name, or a link to follow  *)
(* that leads nowhere.                                                      *)
Uncollectable ==
  \/ \E i \in DOMAIN inputs : inputs[i] = <<>> \/ (inputs[i] \in Paths /\ disk[inputs[i]].kind = "none")
  \/ \E s \in All : Followed(s[2]) /\ disk[s[2]].to = "none"

(* The sort is by name and stable: of two inputs that give one name the     *)
(* first comes first.                                                       *)
LessName(m, n) ==
  \/ IsStrictPrefix(m, n)
  \/ \E k \in DOMAIN m \cap DOMAIN n : m[k] < n[k] /\ \A j \in 1 .. k - 1 : m[j] = n[j]
Earlier(s, t) == LessName(s.name, t.name) \/ (s.name = t.name /\ s.input < t.input)

Found == {Source(s[1], s[2]) : s \in Kept}
Collected == InOrder(Found, Earlier)

-----------------------------------------------------------------------------
(* The files.                                                               *)

Unit(p, offset) == <<p, offset>>
Units(p, from, to) == [k \in 1 .. to - from |-> Unit(p, from + k - 1)]
Openable(p) == disk[p].kind # "none"

(* Another program makes a file shorter or longer, or removes it: one that  *)
(* is open can still be read.                                               *)
Change ==
  /\ phase \notin {"begin", "done", "failed"}
  /\ Cardinality(changed) < MaxChanges
  /\ \E p \in {s.path : s \in ToSet(sources)} \ changed :
       /\ disk[p].kind \in {"file", "link"}
       /\ \E f \in [kind : {disk[p].kind}, len : Lengths] \cup [kind : {"none"}, len : {disk[p].len}] :
            /\ f # [kind |-> disk[p].kind, len |-> disk[p].len]
            /\ disk' = [disk EXCEPT ![p].kind = f.kind, ![p].len = f.len]
       /\ changed' = changed \cup {p}
  /\ UNCHANGED <<world, phase, sources, at, body, entries, totals, report>>

-----------------------------------------------------------------------------
(* The writing.                                                             *)

Empty == [directories |-> 0, symlinks |-> 0, files |-> 0, hardlinks |-> 0, bytes |-> 0, specials |-> 0]

SInit ==
  /\ phase = "begin"
  /\ changed = {} /\ sources = <<>> /\ at = 1 /\ body = <<>> /\ entries = <<>>
  /\ summary = Empty /\ totals = [bytes |-> 0, entries |-> 0]
  /\ processed = 0 /\ finished = 0
  /\ \E i \in Inputs : /\ disk \in i.worlds
                       /\ inputs \in i.inputs
                       /\ options \in i.choices

(* Mutant: with the files that are stored as links.                         *)
TotalOfAll(links) == MapThenSumSet(LAMBDA k : Collected[k].size, DOMAIN Collected)

Total(links) == MapThenSumSet(LAMBDA k : Collected[k].size, DOMAIN Collected \ links)

(* Everything is listed before the archive is touched.                      *)
List(links) ==
  /\ phase = "begin"
  /\ ~Uncollectable
  /\ sources' = Collected
  /\ totals' = [bytes |-> Total(links), entries |-> Len(Collected)]
  /\ summary' = [summary EXCEPT !.specials = Cardinality(Specials)]
  /\ UNCHANGED <<world, disk, changed, at, body, entries, processed, finished>>

Begin(links) == List(links) /\ phase' = "writing"

Fail ==
  /\ phase' = "failed"
  /\ UNCHANGED <<world, disk, changed, sources, at, body, entries, totals, report>>

CannotCollect == phase = "begin" /\ Uncollectable /\ Fail

Turn(kind) == phase = "writing" /\ at <= Len(sources) /\ sources[at].kind = kind
Now == sources[at]

(* The end of a source's turn: its entry is in the archive.                 *)
Finish(entry, count, bytes) ==
  /\ entries' = Append(entries, entry)
  /\ summary' = [summary EXCEPT ![count] = @ + 1, !.bytes = @ + bytes]
  /\ finished' = finished + 1
  /\ at' = at + 1
  /\ body' = <<>>
  /\ UNCHANGED <<world, disk, changed, sources, totals>>

(* Writing the archive can fail at any moment.                              *)
WriteFails == phase \notin {"begin", "done", "failed"} /\ Fail

Entry(kind, data) == [kind |-> kind, name |-> Now.name, body |-> data]

WriteDirectory ==
  /\ Turn("dir")
  /\ Finish(Entry("dir", <<>>), "directories", 0)
  /\ UNCHANGED <<phase, processed>>

WriteSymlink ==
  /\ Turn("link")
  /\ Openable(Now.path)
  /\ Finish(Entry("link", Units(Now.path, 0, 1)), "symlinks", 0)
  /\ UNCHANGED <<phase, processed>>

SymlinkGone ==
  /\ Turn("link")
  /\ ~Openable(Now.path)
  /\ Fail

Close ==
  /\ phase = "writing"
  /\ at > Len(sources)
  /\ phase' = "done"
  /\ UNCHANGED <<world, disk, changed, sources, at, body, entries, totals, report>>
=============================================================================
