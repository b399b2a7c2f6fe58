------------------------------- MODULE Layout -------------------------------
(***************************************************************************)
(* pipeline::layout, shared by the three extractions: which entries of an   *)
(* archive are taken, the path each gets below the destination, what        *)
(* happens when two of them want the same one, and the two operations on    *)
(* the destination that decide over what is already there.                  *)
(*                                                                          *)
(* A name is the sequence of its components and whether the name policy     *)
(* accepts it.  The destination is a tree: what stands at each path, and    *)
(* the entry its contents (of a directory: its metadata) come from, 0 for   *)
(* anything that is not of this extraction.                                 *)
(***************************************************************************)
EXTENDS Naturals, Sequences, SequencesExt, FiniteSets

CONSTANTS
  Paths,      \* the paths below the destination, closed under prefixes
  Inputs,     \* the extractions considered, in families of one format:
              \* [format, archives, destinations, choices]
  MaxEntries, \* the most entries an archive of theirs holds
  Threads     \* what thread_count returned

Overwrite == {"always", "never", "error"}
Node == [kind : {"none", "file", "partial", "dir", "link"}, by : Nat]
Missing == [kind |-> "none", by |-> 0]
Fresh == [kind |-> "dir", by |-> 0]

Ancestry(p) == {SubSeq(p, 1, n) : n \in 1 .. Len(p)}
Above(p) == Ancestry(p) \ {p}

(* Of a path any run of its components is one too: its parents, and what    *)
(* stripping leaves of it.                                                  *)
ASSUME PathsAssumption ==
  \A p \in Paths : /\ p # <<>> /\ p \in Seq(ToSet(p))
                   /\ \A m \in 1 .. Len(p) : \A n \in m .. Len(p) : SubSeq(p, m, n) \in Paths

(* A destination holds nothing of this extraction yet, and only directories *)
(* hold something.  An entry without a name is the root of its archive, and *)
(* what else an entry can be the format says.                               *)
ASSUME InputsAssumption ==
  \A i \in Inputs :
    /\ \A t \in i.destinations :
         /\ t \in [Paths -> [kind : {"none", "file", "dir", "link"}, by : {0}]]
         /\ \A p \in Paths : t[p] # Missing => \A q \in Above(p) : t[q].kind = "dir"
    /\ \A a \in i.archives :
         /\ a \in Seq(ToSet(a)) /\ Len(a) <= MaxEntries
         /\ \A e \in ToSet(a) : /\ e.name \in Paths \cup {<<>>} /\ e.safe \in BOOLEAN
                                /\ \/ e.kind \in {"dir", "file", "link"}
                                   \/ i.format = "tar" /\ e.kind \in {"hard", "special", "root"}
                                   \/ i.format = "7z" /\ e.kind \in {"anti", "opaque"}
                                /\ e.kind = "root" => e.name = <<>>
                                /\ e.kind = "hard" => e.to \in Paths \cup {<<>>}
    /\ \A o \in i.choices : /\ o.overwrite \in Overwrite /\ o.unsafe \in {"refuse", "skip"}
                            /\ o.strip \in Nat /\ o.strip_root \in BOOLEAN
ASSUME BoundsAssumption == MaxEntries \in Nat /\ Threads \in Nat \ {0}

-----------------------------------------------------------------------------
(* The destination.                                                         *)

(* create_directory: nothing is done where a link is on the way, since what *)
(* stands above a link are directories; a plain file on the way gives way.  *)
LinkOnTheWay(tree, path) == \E p \in Ancestry(path) : tree[p].kind = "link"

WithDirectories(tree, path) ==
  [p \in Paths |-> IF p \in Ancestry(path) /\ tree[p].kind # "dir" THEN Fresh ELSE tree[p]]

(* Parents are created for an entry below the top.                          *)
ParentBlocked(tree, path) == Len(path) > 1 /\ LinkOnTheWay(tree, Front(path))
WithParents(tree, path) == IF Len(path) > 1 THEN WithDirectories(tree, Front(path)) ELSE tree

(* should_write: with Always the file is removed, and a directory, which    *)
(* remove_file refuses, is left without a word.                             *)
Taken(tree, path) == tree[path].kind # "none"

(* Mutant: whatever stands there is removed, a directory with all it holds. *)
ClearedWhole(tree, path) == [p \in Paths |-> IF path \in Ancestry(p) THEN Missing ELSE tree[p]]

Cleared(tree, path) == IF tree[path].kind = "dir" THEN tree ELSE [tree EXCEPT ![path] = Missing]

(* A file or a link can be made: its directory is there and no directory    *)
(* stands in its place.                                                     *)
Creatable(tree, path) ==
  /\ tree[path].kind # "dir"
  /\ \A p \in Above(path) : tree[p].kind = "dir"

-----------------------------------------------------------------------------
(* The plan.                                                                *)

Selected(entry, options) ==
  options.selection = {} \/ \E want \in options.selection : IsPrefix(want, entry.name)

Chosen(archive, options) == SelectSeq(archive, LAMBDA e : Selected(e, options))

HasCommonRoot(entries) ==
  /\ \A e \in ToSet(entries) : e.name # <<>>
  /\ \A e, f \in ToSet(entries) : Head(e.name) = Head(f.name)
  /\ \E e \in ToSet(entries) : Len(e.name) > 1

StripDepth(archive, options) ==
  options.strip + (IF options.strip_root /\ HasCommonRoot(Chosen(archive, options)) THEN 1 ELSE 0)

StripLeading(name, depth) == SubSeq(name, depth + 1, Len(name))

Planned(path, kind, index) == [path |-> path, kind |-> kind, index |-> index]
NoPlan == [plan |-> <<>>, refused |-> 0, stripped |-> 0, collided |-> 0, specials |-> 0,
           anti |-> <<>>, failed |-> FALSE]

(* The slot that claimed the path of a planned entry: a directory neither   *)
(* claims nor collides.                                                     *)
Claims(plan, item) ==
  {s \in DOMAIN plan : /\ plan[s].path = item.path
                       /\ plan[s].kind # "dir" /\ item.kind # "dir"}

(* Mutant: the later of two entries is always dropped.                      *)
ClaimFirst(acc, item, overwrite) ==
  LET earlier == Claims(acc.plan, item) IN
  IF earlier = {} THEN [acc EXCEPT !.plan = Append(@, item)]
  ELSE [acc EXCEPT !.collided = @ + 1, !.failed = overwrite = "error"]

Claim(acc, item, overwrite) ==
  LET earlier == Claims(acc.plan, item) IN
  IF earlier = {} THEN [acc EXCEPT !.plan = Append(@, item)]
  ELSE LET hit == [acc EXCEPT !.collided = @ + 1] IN
       CASE overwrite = "always" -> [hit EXCEPT !.plan[CHOOSE s \in earlier : TRUE] = item]
         [] overwrite = "never"  -> hit
         [] overwrite = "error"  -> [hit EXCEPT !.failed = TRUE]

(* Mutant: an entry that stripping leaves without a name is not counted.    *)
PlanEntryUncounted(acc, archive, index, options) ==
  LET entry == archive[index]
      path == StripLeading(entry.name, StripDepth(archive, options))
      item == Planned(path, entry.kind, index)
  IN  IF acc.failed \/ ~Selected(entry, options) \/ entry.kind = "root" THEN acc
      ELSE CASE ~entry.safe /\ options.unsafe = "refuse" -> [acc EXCEPT !.failed = TRUE]
             [] ~entry.safe /\ options.unsafe = "skip"   -> [acc EXCEPT !.refused = @ + 1]
             [] entry.safe /\ path = <<>>  -> acc
             [] entry.safe /\ path # <<>>  ->
                  CASE entry.kind = "opaque" -> [acc EXCEPT !.specials = @ + 1]
                    [] entry.kind = "anti"   -> [acc EXCEPT !.anti = Append(@, item)]
                    [] OTHER                 -> Claim(acc, item, options.overwrite)

(* One entry of the loop of build_plan: nothing, place, claim.  What the 7z *)
(* loop sets aside between the two is never claimed, and the tar loop has   *)
(* no use for an entry that is the root itself.                             *)
PlanEntry(acc, archive, index, options) ==
  LET entry == archive[index]
      path == StripLeading(entry.name, StripDepth(archive, options))
      item == Planned(path, entry.kind, index)
  IN  IF acc.failed \/ ~Selected(entry, options) \/ entry.kind = "root" THEN acc
      ELSE CASE ~entry.safe /\ options.unsafe = "refuse" -> [acc EXCEPT !.failed = TRUE]
             [] ~entry.safe /\ options.unsafe = "skip"   -> [acc EXCEPT !.refused = @ + 1]
             [] entry.safe /\ path = <<>>  -> [acc EXCEPT !.stripped = @ + 1]
             [] entry.safe /\ path # <<>>  ->
                  CASE entry.kind = "opaque" -> [acc EXCEPT !.specials = @ + 1]
                    [] entry.kind = "anti"   -> [acc EXCEPT !.anti = Append(@, item)]
                    [] OTHER                 -> Claim(acc, item, options.overwrite)

(* build_plan, with the check of the destination itself that ends it.       *)
BuildPlan(archive, options) ==
  LET whole == FoldLeftDomain(LAMBDA acc, i : PlanEntry(acc, archive, i, options), NoPlan, archive)
  IN  [whole EXCEPT !.failed = @ \/ options.linked]

(* The elements of a finite set as a sequence, in the order that Precedes   *)
(* gives, which is what the sorts of the code leave: the n-th element is    *)
(* the one that n - 1 elements precede.                                     *)
InOrder(S, Precedes(_, _)) ==
  [n \in 1 .. Cardinality(S) |-> CHOOSE x \in S : Cardinality({y \in S : Precedes(y, x)}) = n - 1]

(* Mutant: the directories are taken in plan order.                         *)
PlanOrder(items) == InOrder(DOMAIN items, <)

(* The items of a sequence by position, longest path first and in plan   *)
(* order where the length is the same: sort_by_key is stable.               *)
DeepestFirst(items) ==
  InOrder(DOMAIN items, LAMBDA s, t : \/ Len(items[s].path) > Len(items[t].path)
                                      \/ Len(items[s].path) = Len(items[t].path) /\ s < t)

-----------------------------------------------------------------------------
(* What the plan amounts to, stated without a loop.                         *)

InPlace(archive, options) ==
  {i \in DOMAIN archive :
     /\ Selected(archive[i], options) /\ archive[i].safe
     /\ Len(archive[i].name) > StripDepth(archive, options)
     /\ archive[i].kind \notin {"opaque", "anti"}}

PathOf(archive, options, i) == StripLeading(archive[i].name, StripDepth(archive, options))

Rivals(archive, options, i) ==
  {j \in InPlace(archive, options) :
     /\ PathOf(archive, options, j) = PathOf(archive, options, i)
     /\ archive[i].kind # "dir" /\ archive[j].kind # "dir"}

(* Of the entries for one path the last is kept with Always and otherwise   *)
(* the first; a directory has no rivals.                                    *)
Winners(archive, options) ==
  {i \in InPlace(archive, options) :
     \A j \in Rivals(archive, options, i) :
       IF options.overwrite = "always" THEN j <= i ELSE i <= j}

(* A plan holds exactly the winners, each in the place of its first rival.  *)
IsPlan(plan, archive, options) ==
  LET first(i) == CHOOSE j \in Rivals(archive, options, i) \cup {i} :
                    \A k \in Rivals(archive, options, i) \cup {i} : j <= k
  IN  /\ {plan[s].index : s \in DOMAIN plan} = Winners(archive, options)
      /\ \A s \in DOMAIN plan : plan[s].path = PathOf(archive, options, plan[s].index)
      /\ \A s, t \in DOMAIN plan : s < t => first(plan[s].index) < first(plan[t].index)

(* The paths a plan needs as directories.                                   *)
Needed(plan) ==
  UNION {IF plan[s].kind = "dir" THEN Ancestry(plan[s].path) ELSE Above(plan[s].path) : s \in DOMAIN plan}

=============================================================================
