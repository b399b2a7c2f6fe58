-------------------------- MODULE Extraction_proof --------------------------
(***************************************************************************)
(* Proofs about Layout and Extraction, for every set of paths, every        *)
(* archive and any number of workers: what build_plan and the order of the  *)
(* directories come to, the plan is the one the options describe, a zip or  *)
(* a tar changes only what its plan names, nothing changes below a          *)
(* directory that has its metadata, the hard links of a tar are the files   *)
(* they point at, and what the anti items of a 7z name is gone.             *)
(***************************************************************************)
EXTENDS Extraction, Collections_proof

(* InOrder takes them so.                                                   *)
LEMMA InOrderAscending ==
  ASSUME NEW S \in SUBSET Nat, IsFiniteSet(S)
  PROVE  Sorted(InOrder(S, <), S, Ascending(S))
<1>1. InOrder(S, <) = [n \in 1 .. Cardinality(S) |-> CHOOSE x \in S : Cardinality({y \in S : y < x}) = n - 1]
  BY DEF InOrder
<1> QED
  BY <1>1, AscendingSorts

-----------------------------------------------------------------------------
(* Paths.  Of a path its parents are shorter paths, and those of what       *)
(* stands right above it are all of them.                                   *)
LEMMA PathFacts ==
  ASSUME NEW p \in Paths
  PROVE  /\ Len(p) \in Nat /\ Len(p) >= 1 /\ p \in Seq(ToSet(p))
         /\ Ancestry(p) \subseteq Paths /\ p \in Ancestry(p)
         /\ \A q \in Above(p) : Len(q) < Len(p) /\ q \in Paths
         /\ Len(p) > 1 => Front(p) \in Paths /\ Ancestry(Front(p)) = Above(p)
         /\ Len(p) <= 1 => Above(p) = {}
<1>1. /\ p # <<>> /\ p \in Seq(ToSet(p))
      /\ \A m \in 1 .. Len(p) : \A n \in m .. Len(p) : SubSeq(p, m, n) \in Paths
  BY PathsAssumption
<1>2. Len(p) \in Nat /\ Len(p) >= 1
  BY <1>1
<1>3. 1 \in 1 .. Len(p) /\ Len(p) \in 1 .. Len(p)
  BY <1>2
<1>4. Ancestry(p) \subseteq Paths
  BY <1>1, <1>3 DEF Ancestry
<1>5. SubSeq(p, 1, Len(p)) = p
  BY <1>1, SubSeqFull
<1>6. p \in Ancestry(p)
  BY <1>3, <1>5 DEF Ancestry
<1>7. \A n \in 1 .. Len(p) : Len(SubSeq(p, 1, n)) = n
  BY <1>1, <1>2
<1>8. \A q \in Above(p) : \E n \in 1 .. (Len(p) - 1) : q = SubSeq(p, 1, n)
  <2> TAKE q \in Above(p)
  <2>1. PICK n \in 1 .. Len(p) : q = SubSeq(p, 1, n)
    BY DEF Above, Ancestry
  <2>2. q # p
    BY SMTT(40) DEF Above
  <2>3. n # Len(p)
    BY <1>5, <2>1, <2>2
  <2> QED
    BY <1>2, <2>1, <2>3
<1>9. \A q \in Above(p) : Len(q) < Len(p) /\ q \in Paths
  <2> TAKE q \in Above(p)
  <2>1. PICK n \in 1 .. (Len(p) - 1) : q = SubSeq(p, 1, n)
    BY <1>8
  <2>2. n \in 1 .. Len(p) /\ n < Len(p)
    BY <1>2
  <2>3. q \in Paths
    BY <1>4 DEF Above
  <2> QED
    BY <1>7, <2>1, <2>2, <2>3
<1>10. ASSUME Len(p) > 1 PROVE Front(p) \in Paths /\ Ancestry(Front(p)) = Above(p)
  <2> DEFINE f == SubSeq(p, 1, Len(p) - 1)
  <2>1. f = Front(p)
    BY DEF Front
  <2>2. Len(p) - 1 \in 1 .. Len(p)
    BY <1>2, <1>10
  <2>3. f \in Paths /\ Len(f) = Len(p) - 1
    BY <1>1, <1>3, <1>7, <2>2
  <2>4. \A n \in 1 .. (Len(p) - 1) : SubSeq(f, 1, n) = SubSeq(p, 1, n)
    <3> TAKE n \in 1 .. (Len(p) - 1)
    <3>1. n \in 1 .. Len(p) /\ n <= Len(p) - 1
      BY <1>2
    <3>2. f \in Seq(ToSet(p)) /\ SubSeq(f, 1, n) \in Seq(ToSet(p)) /\ SubSeq(p, 1, n) \in Seq(ToSet(p))
      BY <1>1, <1>2, <3>1
    <3>3. Len(SubSeq(f, 1, n)) = n /\ Len(SubSeq(p, 1, n)) = n
      BY <1>7, <2>3, <3>1, <3>2
    <3>4. \A i \in 1 .. n : SubSeq(f, 1, n)[i] = p[i] /\ SubSeq(p, 1, n)[i] = p[i]
      BY <1>1, <1>2, <2>3, <3>1
    <3> HIDE DEF f
    <3> QED
      BY <3>2, <3>3, <3>4, SeqEqual
  <2>5. \A q \in Ancestry(f) : q \in Above(p)
    <3> TAKE q \in Ancestry(f)
    <3>0. PICK n \in 1 .. Len(f) : q = SubSeq(f, 1, n)
      BY DEF Ancestry
    <3>1. n \in 1 .. (Len(p) - 1) /\ q = SubSeq(p, 1, n)
      BY <2>3, <2>4, <3>0
    <3>2. n \in 1 .. Len(p) /\ n # Len(p)
      BY <1>2, <3>1
    <3>3. Len(q) = n
      BY <1>7, <3>1, <3>2
    <3>4. q # p
      BY <3>2, <3>3
    <3>5. q \in Ancestry(p)
      BY <3>1, <3>2 DEF Ancestry
    <3> QED
      BY <3>4, <3>5 DEF Above
  <2>6. Above(p) \subseteq Ancestry(f)
    BY <1>8, <2>3, <2>4 DEF Ancestry
  <2> QED
    BY <2>1, <2>3, <2>5, <2>6
<1>11. ASSUME Len(p) <= 1 PROVE Above(p) = {}
  BY <1>2, <1>8, <1>11
<1> QED
  BY <1>1, <1>2, <1>4, <1>6, <1>9, <1>10, <1>11


(* Positions, the longest path first.                                       *)
Deeper(items) ==
  [n \in DOMAIN items |->
     {m \in DOMAIN items : \/ Len(items[m].path) > Len(items[n].path)
                           \/ Len(items[m].path) = Len(items[n].path) /\ m < n}]

(* DeepestFirst takes them so.                                              *)
THEOREM DeepestFirstSorts ==
  ASSUME NEW X, NEW items \in Seq(X), \A n \in DOMAIN items : items[n].path \in Paths
  PROVE  Sorted(DeepestFirst(items), DOMAIN items, Deeper(items))
<1> DEFINE S == DOMAIN items
           R == Deeper(items)
           s == DeepestFirst(items)
           L(n) == Len(items[n].path)
           B(m, n) == L(m) > L(n) \/ (L(m) = L(n) /\ m < n)
<1>1. S \in SUBSET Nat /\ IsFiniteSet(S)
  <2>1. S = 1 .. Len(items) /\ Len(items) \in Nat
    OBVIOUS
  <2> QED
    BY <2>1, FS_Interval
<1>2. \A n \in S : L(n) \in Nat
  <2> TAKE n \in S
  <2> DEFINE q == items[n].path
  <2>1. q \in Paths
    OBVIOUS
  <2> HIDE DEF q
  <2>2. Len(q) \in Nat
    BY <2>1, PathFacts
  <2> QED
    BY <2>2 DEF q
<1>3. R = [n \in S |-> {m \in S : B(m, n)}]
  BY DEF Deeper
<1>4. Orders(R, S)
  <2> HIDE DEF R, S, L
  <2>1. \A m \in S : ~ B(m, m)
    BY <1>1, <1>2
  <2>2. \A m, n \in S : m # n => B(m, n) \/ B(n, m)
    BY <1>1, <1>2
  <2>3. \A m, n, o \in S : B(m, n) /\ B(n, o) => B(m, o)
    <3> TAKE m, n, o \in S
    <3>1. m \in Nat /\ n \in Nat /\ o \in Nat /\ L(m) \in Nat /\ L(n) \in Nat /\ L(o) \in Nat
      BY <1>1, <1>2
    <3> QED
      BY <3>1
  <2> HIDE DEF B
  <2> QED
    BY <1>3, <2>1, <2>2, <2>3 DEF Orders
<1>5. \A x \in S : Rank(R, x) = Cardinality({y \in S : B(y, x)})
  <2> HIDE DEF B, R, S
  <2> QED
    BY <1>3 DEF Rank
<1>6. \A n \in 1 .. Cardinality(S) : \E x \in S : Cardinality({y \in S : B(y, x)}) = n - 1
  <2> TAKE n \in 1 .. Cardinality(S)
  <2> HIDE DEF R, B, S
  <2>1. PICK x \in S : Rank(R, x) = n - 1
    BY <1>1, <1>4, RankExists
  <2> QED
    BY <1>5, <2>1
<1>7. s = [n \in 1 .. Cardinality(S) |-> CHOOSE x \in S : Cardinality({y \in S : B(y, x)}) = n - 1]
  BY DEF DeepestFirst, InOrder
<1>8. \A n \in 1 .. Cardinality(S) : s[n] \in S /\ Cardinality({y \in S : B(y, s[n])}) = n - 1
  <2> HIDE DEF s, B, S
  <2> QED
    BY <1>6, <1>7
<1>9. s \in [1 .. Cardinality(S) -> S]
  <2> HIDE DEF s, B, S
  <2> QED
    BY <1>7, <1>8
<1>10. \A n \in 1 .. Cardinality(S) : Rank(R, s[n]) = n - 1
  <2> HIDE DEF s, B, S, R
  <2> QED
    BY <1>5, <1>8
<1> HIDE DEF s, R, S, B
<1> QED
  BY <1>1, <1>4, <1>9, <1>10, RankedIsSorted DEF s, R, S

-----------------------------------------------------------------------------
(* The destination.  What an operation changes, and that it puts no         *)
(* metadata on a directory.                                                 *)
IsTree(t) == t \in [Paths -> Node]
Differs(t, u) == {p \in Paths : t[p] # u[p]}
Unsealed(t) == \A p \in Paths : t[p].kind = "dir" => t[p].by = 0

(* The directories of a path are made, and nothing else.                    *)
LEMMA WithDirectoriesFacts ==
  ASSUME NEW t, IsTree(t), NEW path
  PROVE  /\ IsTree(WithDirectories(t, path))
         /\ Differs(t, WithDirectories(t, path)) \subseteq Ancestry(path)
         /\ Unsealed(t) => Unsealed(WithDirectories(t, path))
         /\ \A p \in Paths : p \notin Ancestry(path) => WithDirectories(t, path)[p] = t[p]
BY DEF IsTree, Differs, Unsealed, WithDirectories, Fresh, Node

(* The parents of a path are made, and nothing else.                        *)
LEMMA WithParentsFacts ==
  ASSUME NEW t, IsTree(t), NEW path \in Paths
  PROVE  /\ IsTree(WithParents(t, path))
         /\ Differs(t, WithParents(t, path)) \subseteq Above(path)
         /\ Unsealed(t) => Unsealed(WithParents(t, path))
         /\ WithParents(t, path)[path] = t[path]
<1>1. CASE Len(path) > 1
  <2>1. WithParents(t, path) = WithDirectories(t, Front(path))
    BY <1>1 DEF WithParents
  <2>2. Ancestry(Front(path)) = Above(path) /\ path \notin Above(path)
    BY <1>1, PathFacts DEF Above
  <2> QED
    BY <2>1, <2>2, WithDirectoriesFacts
<1>2. CASE ~ (Len(path) > 1)
  <2>1. WithParents(t, path) = t
    BY <1>2 DEF WithParents
  <2> QED
    BY <2>1 DEF Differs
<1> QED
  BY <1>1, <1>2

(* At most the path itself is cleared, and never a directory.               *)
LEMMA ClearedFacts ==
  ASSUME NEW t, IsTree(t), NEW path
  PROVE  /\ IsTree(Cleared(t, path))
         /\ Differs(t, Cleared(t, path)) \subseteq {path}
         /\ Unsealed(t) => Unsealed(Cleared(t, path))
BY DEF IsTree, Differs, Unsealed, Cleared, Missing, Node

(* A node that is set is the only one that changes.                         *)
LEMMA SetFacts ==
  ASSUME NEW t, IsTree(t), NEW path, NEW node \in Node
  PROVE  /\ IsTree([t EXCEPT ![path] = node])
         /\ Differs(t, [t EXCEPT ![path] = node]) \subseteq {path}
         /\ Unsealed(t) /\ node.kind # "dir" => Unsealed([t EXCEPT ![path] = node])
BY DEF IsTree, Differs, Unsealed, Node

(* The paths a plan needs are what stands above its items, and the          *)
(* directories among them.                                                  *)
LEMMA NeededFacts ==
  ASSUME NEW q, NEW s \in DOMAIN q
  PROVE  /\ Above(q[s].path) \subseteq Needed(q)
         /\ q[s].kind = "dir" => Ancestry(q[s].path) \subseteq Needed(q)
<1> DEFINE N(n) == IF q[n].kind = "dir" THEN Ancestry(q[n].path) ELSE Above(q[n].path)
<1>1. Needed(q) = UNION {N(n) : n \in DOMAIN q}
  BY DEF Needed
<1>2. Above(q[s].path) \subseteq N(s) /\ (q[s].kind = "dir" => Ancestry(q[s].path) \subseteq N(s))
  BY SMTT(40) DEF Above
<1> HIDE DEF N
<1> QED
  BY <1>1, <1>2

-----------------------------------------------------------------------------
(* Directories that have their metadata, and those among some items whose   *)
(* turn was among the first k.                                              *)
SealedIn(t) == {p \in Paths : t[p].kind = "dir" /\ t[p].by # 0}
DoneFirst(items, k) == {items[DeepestFirst(items)[n]].path : n \in 1 .. k}

HavePaths(items) == \A n \in DOMAIN items : items[n].path \in Paths /\ items[n].index \in Nat
NextOf(items, k) == items[DeepestFirst(items)[k + 1]]
Seals(item, t, u) == u = IF t[item.path].kind = "none" THEN t ELSE [t EXCEPT ![item.path].by = item.index]

(* The next one has none above it that has its metadata.                    *)
LEMMA SealFacts ==
  ASSUME NEW X, NEW items \in Seq(X), HavePaths(items),
         NEW k \in Nat, k < Len(items), NEW t, IsTree(t), SealedIn(t) \subseteq DoneFirst(items, k),
         NEW item, item = NextOf(items, k), NEW u, Seals(item, t, u)
  PROVE  /\ \E n \in DOMAIN items : item = items[n]
         /\ IsTree(u) /\ Differs(t, u) \subseteq {item.path}
         /\ \A p \in Differs(t, u) : Above(p) \cap SealedIn(t) = {}
         /\ SealedIn(u) \subseteq DoneFirst(items, k + 1)
<1> USE DEF HavePaths, NextOf, Seals
<1> DEFINE S == DOMAIN items
           q == DeepestFirst(items)
           path == item.path
<1>1. S = 1 .. Len(items) /\ Len(items) \in Nat /\ Cardinality(S) = Len(items)
  <2>1. S = 1 .. Len(items) /\ Len(items) \in Nat
    OBVIOUS
  <2> HIDE DEF S
  <2> QED
    BY <2>1, CountUpto
<1>2. Sorted(q, S, Deeper(items))
  BY DeepestFirstSorts
<1>3. k + 1 \in 1 .. Len(items) /\ \A n \in 1 .. k : n \in 1 .. Len(items) /\ n < k + 1
  BY SMTT(40), <1>1
<1>4. /\ DOMAIN q = 1 .. Len(items) /\ \A n \in 1 .. Len(items) : q[n] \in S
      /\ \A m, n \in 1 .. Len(items) : m < n => q[m] \in Deeper(items)[q[n]]
  <2> HIDE DEF q, S
  <2> QED
    BY <1>1, <1>2 DEF Sorted
<1>5. \A n \in 1 .. k : ~ (Len(items[q[n]].path) < Len(path)) /\ Len(items[q[n]].path) \in Nat /\ items[q[n]].path \in Paths
  <2> TAKE n \in 1 .. k
  <2> DEFINE a == q[n]
             b == q[k + 1]
  <2>1. a \in S /\ b \in S /\ a \in Deeper(items)[b] /\ item = items[b]
    BY <1>3, <1>4
  <2> HIDE DEF q
  <2> HIDE DEF a, b
  <2>2. items[a].path \in Paths /\ items[b].path \in Paths
    BY <2>1
  <2>3. Len(items[a].path) \in Nat /\ Len(items[b].path) \in Nat
    BY <2>2, PathFacts
  <2>4. Len(items[a].path) > Len(items[b].path) \/ Len(items[a].path) = Len(items[b].path)
    BY <2>1 DEF Deeper
  <2> QED
    BY <2>1, <2>2, <2>3, <2>4 DEF a
<1>6. item = items[q[k + 1]] /\ q[k + 1] \in S
  BY <1>3, <1>4
<1> HIDE DEF q, S
<1>7. path \in Paths /\ item.index \in Nat
  BY SMTT(40), <1>6 DEF S
<1>8. IsTree(u) /\ Differs(t, u) \subseteq {path}
  BY ZenonT(40), <1>7 DEF IsTree, Differs, Node
<1>9. Above(path) \cap SealedIn(t) = {}
  <2> SUFFICES ASSUME NEW p \in Above(path), p \in SealedIn(t) PROVE FALSE
    OBVIOUS
  <2>1. PICK n \in 1 .. k : p = items[q[n]].path
    BY DEF DoneFirst, q
  <2>2. Len(p) < Len(path)
    BY SMTT(40), <1>7, PathFacts
  <2> QED
    BY <1>5, <2>1, <2>2
<1>10. SealedIn(u) \subseteq DoneFirst(items, k + 1)
  <2> SUFFICES ASSUME NEW p \in SealedIn(u) PROVE p \in DoneFirst(items, k + 1)
    OBVIOUS
  <2>1. CASE p = path
    <3>1. k + 1 \in 1 .. k + 1
      BY SMTT(40)
    <3> QED
      BY <1>6, <2>1, <3>1 DEF DoneFirst, q
  <2>2. CASE p # path
    <3>1. p \in SealedIn(t)
      BY ZenonT(40), <1>8, <2>2 DEF SealedIn, Differs
    <3>2. PICK n \in 1 .. k : p = items[q[n]].path
      BY SMTT(40), <3>1 DEF DoneFirst, q
    <3>3. n \in 1 .. k + 1
      OBVIOUS
    <3> QED
      BY SMTT(40), <3>2, <3>3 DEF DoneFirst, q
  <2> QED
    BY SMTT(40), <2>1, <2>2
<1> QED
  BY <1>6, <1>8, <1>9, <1>10 DEF S

-----------------------------------------------------------------------------
(* The plan.  The fold over the entries goes through one accumulator for    *)
(* each prefix of the archive.                                              *)
Ids(a) == [i \in DOMAIN a |-> i]
IsFold(h, a, o) ==
  h = [s \in SUBSET DOMAIN Ids(a) |->
         IF s = {} THEN NoPlan ELSE PlanEntry(h[s \ {Max(s)}], a, Ids(a)[Max(s)], o)]

(* The recursion that the fold is defined by has a solution.                *)
LEMMA FoldExists ==
  ASSUME NEW X, NEW a \in Seq(X), NEW o
  PROVE  \E h : IsFold(h, a, o)
<1> DEFINE S == DOMAIN Ids(a)
           Upto(n) == {s \in SUBSET S : Cardinality(s) <= n}
           Step(h, s) == IF s = {} THEN NoPlan ELSE PlanEntry(h[s \ {Max(s)}], a, Ids(a)[Max(s)], o)
           Solves(h, n) == h = [s \in Upto(n) |-> Step(h, s)]
           Bad == {n \in Nat : \A h : ~ Solves(h, n)}
<1>0. S \in SUBSET Nat /\ IsFiniteSet(S)
  <2>1. S = 1 .. Len(a) /\ Len(a) \in Nat
    BY DEF Ids
  <2> QED
    BY <2>1, FS_Interval
<1>1. \A s \in SUBSET S : /\ IsFiniteSet(s) /\ Cardinality(s) \in Nat
                          /\ Cardinality(s) <= Cardinality(S)
  BY <1>0, FS_Subset, FS_CardinalityType
<1>2. \A s \in SUBSET S : s # {} => /\ s \ {Max(s)} \in SUBSET S
                                    /\ Cardinality(s \ {Max(s)}) = Cardinality(s) - 1
  <2> TAKE s \in SUBSET S
  <2> HAVE s # {}
  <2>1. Max(s) \in s
    BY <1>0, <1>1, MaxFacts
  <2> QED
    BY <1>1, <2>1, FS_RemoveElement
<1> HIDE DEF S
<1>3. ASSUME Bad # {} PROVE FALSE
  <2>1. PICK n \in Bad : \A m \in Bad : n <= m
    BY <1>3, LeastNat
  <2>2. n \in Nat /\ \A h : ~ Solves(h, n)
    OBVIOUS
  <2>3. CASE n = 0
    <3> DEFINE h == [s \in Upto(0) |-> NoPlan]
    <3>1. \A s \in Upto(0) : s = {}
      BY <1>1, FS_EmptySet
    <3>2. h = [s \in Upto(0) |-> Step(h, s)]
      BY <3>1
    <3> QED
      BY <2>2, <2>3, <3>2
  <2>4. CASE n # 0
    <3>1. n - 1 \in Nat /\ n - 1 \notin Bad
      <4> HIDE DEF Bad
      <4> QED
        BY <2>1, <2>2, <2>4
    <3>2. PICK g : Solves(g, n - 1)
      BY <3>1
    <3> DEFINE h == [s \in Upto(n) |-> Step(g, s)]
    <3>3. \A s \in Upto(n - 1) : h[s] = g[s]
      <4> TAKE s \in Upto(n - 1)
      <4>1. s \in Upto(n)
        BY <1>1, <2>2
      <4>2. g[s] = Step(g, s)
        BY <3>2
      <4> QED
        BY <4>1, <4>2
    <3>4. \A s \in Upto(n) : Step(h, s) = Step(g, s)
      <4> TAKE s \in Upto(n)
      <4>1. s # {} => s \ {Max(s)} \in Upto(n - 1)
        BY SMTT(40), <1>1, <1>2, <2>2
      <4> HIDE DEF h
      <4> QED
        BY <3>3, <4>1
    <3>5. h = [s \in Upto(n) |-> Step(h, s)]
      BY <3>4
    <3> QED
      BY <2>2, <3>5
  <2> QED
    BY <2>3, <2>4
<1>4. Cardinality(S) \in Nat /\ Cardinality(S) \notin Bad
  BY <1>0, <1>1, <1>3
<1>5. PICK h : Solves(h, Cardinality(S))
  BY <1>4
<1>6. Upto(Cardinality(S)) = SUBSET S
  BY <1>1
<1> QED
  BY <1>5, <1>6 DEF IsFold, S

(* The plan of an archive is that of one more entry than its prefix.        *)
PlanOfPrefixes(f, a, o) ==
  /\ f[0] = NoPlan
  /\ \A k \in 1 .. Len(a) : f[k] = PlanEntry(f[k - 1], a, k, o)
  /\ BuildPlan(a, o) = [f[Len(a)] EXCEPT !.failed = @ \/ o.linked]

(* build_plan comes to its plan by way of those.                            *)
LEMMA BuildPlanSteps ==
  ASSUME NEW X, NEW a \in Seq(X), NEW o
  PROVE  \E f : PlanOfPrefixes(f, a, o)
<1> DEFINE h == CHOOSE h : IsFold(h, a, o)
           n == Len(a)
<1>1. IsFold(h, a, o)
  BY FoldExists
<1>2. n \in Nat /\ DOMAIN a = 1 .. n /\ DOMAIN Ids(a) = 1 .. n
  BY DEF Ids
<1>3. BuildPlan(a, o) = [h[DOMAIN Ids(a)] EXCEPT !.failed = @ \/ o.linked]
  BY DEF BuildPlan, FoldLeftDomain, FoldLeft, MapThenFoldSet, IsFold, Ids
<1> DEFINE f == [k \in 0 .. n |-> h[1 .. k]]
<1> HIDE DEF h, n
<1>4. h[{}] = NoPlan
  BY <1>1 DEF IsFold
<1>5. \A k \in 1 .. n : h[1 .. k] = PlanEntry(h[1 .. (k - 1)], a, k, o)
  <2> TAKE k \in 1 .. n
  <2>0. k \in Nat /\ 1 .. k \in SUBSET Nat /\ k \in 1 .. k /\ 1 .. k # {} /\ 1 .. k \subseteq 1 .. n
    BY <1>2
  <2>1. 1 .. k \in SUBSET Nat /\ IsFiniteSet(1 .. k) /\ k \in 1 .. k /\ 1 .. k # {} /\ 1 .. k \subseteq 1 .. n
    BY <2>0, FS_Interval
  <2>2. Max(1 .. k) \in 1 .. k /\ \A x \in 1 .. k : x <= Max(1 .. k)
    BY <2>1, MaxFacts
  <2>3. Max(1 .. k) = k
    BY <1>2, <2>1, <2>2
  <2>4. (1 .. k) \ {k} = 1 .. (k - 1)
    BY <1>2
  <2>5. Ids(a)[k] = k
    BY <1>2 DEF Ids
  <2> QED
    BY <1>1, <1>2, <2>1, <2>3, <2>4, <2>5 DEF IsFold
<1>6. 1 .. 0 = {}
  OBVIOUS
<1>7. f[0] = NoPlan
  BY <1>2, <1>4, <1>6
<1>8. \A k \in 1 .. n : f[k] = PlanEntry(f[k - 1], a, k, o)
  BY <1>2, <1>5
<1>9. f[n] = h[DOMAIN Ids(a)]
  BY <1>2
<1> HIDE DEF f
<1>10. PlanOfPrefixes(f, a, o)
  BY <1>3, <1>7, <1>8, <1>9 DEF PlanOfPrefixes, n
<1> QED
  BY <1>10

(* What the assumption on the inputs says of each.                          *)
IsDestination(t) ==
  /\ t \in [Paths -> [kind : {"none", "file", "dir", "link"}, by : {0}]]
  /\ \A p \in Paths : t[p] # Missing => \A q \in Above(p) : t[q].kind = "dir"
IsArchive(a) ==
  /\ a \in Seq(ToSet(a)) /\ Len(a) <= MaxEntries
  /\ \A i \in DOMAIN a : /\ a[i].name \in Paths \cup {<<>>} /\ a[i].safe \in BOOLEAN
                         /\ a[i].kind = "root" => a[i].name = <<>>
                         /\ a[i].kind = "hard" => a[i].to \in Paths \cup {<<>>}
IsOptions(o) ==
  /\ o.overwrite \in Overwrite /\ o.unsafe \in {"refuse", "skip"}
  /\ o.strip \in Nat /\ o.strip_root \in BOOLEAN

(* The assumption, in those words.                                          *)
LEMMA GivenInputs ==
  ASSUME NEW i \in Inputs
  PROVE  /\ \A t \in i.destinations : IsDestination(t)
         /\ \A a \in i.archives : IsArchive(a)
         /\ \A o \in i.choices : IsOptions(o)
<1>1. \A t \in i.destinations : IsDestination(t)
  BY InputsAssumption DEF IsDestination
<1>2. \A o \in i.choices : IsOptions(o)
  BY InputsAssumption DEF IsOptions
<1>3. \A a \in i.archives : IsArchive(a)
  <2> TAKE a \in i.archives
  <2>1. /\ a \in Seq(ToSet(a)) /\ Len(a) <= MaxEntries
        /\ \A e \in ToSet(a) : /\ e.name \in Paths \cup {<<>>} /\ e.safe \in BOOLEAN
                               /\ e.kind = "root" => e.name = <<>>
                               /\ e.kind = "hard" => e.to \in Paths \cup {<<>>}
    BY InputsAssumption
  <2>2. \A n \in DOMAIN a : a[n] \in ToSet(a)
    BY DEF ToSet
  <2>3. \A n \in DOMAIN a : /\ a[n].name \in Paths \cup {<<>>} /\ a[n].safe \in BOOLEAN
                            /\ a[n].kind = "root" => a[n].name = <<>>
                            /\ a[n].kind = "hard" => a[n].to \in Paths \cup {<<>>}
    BY <2>1, <2>2
  <2> QED
    BY <2>1, <2>3 DEF IsArchive
<1> QED
  BY <1>1, <1>2, <1>3

(* Stripping leaves a path, or nothing of a name that is not longer.        *)
LEMMA StripFacts ==
  ASSUME NEW n \in Paths \cup {<<>>}, NEW d \in Nat
  PROVE  /\ StripLeading(n, d) \in Paths \cup {<<>>}
         /\ StripLeading(n, d) # <<>> <=> Len(n) > d
         /\ <<>> \notin Paths
<1>1. StripLeading(n, d) = SubSeq(n, d + 1, Len(n))
  BY DEF StripLeading
<1>2. <<>> \notin Paths
  BY PathsAssumption
<1>3. CASE n = <<>>
  <2>1. Len(n) = 0
    BY <1>3
  <2>2. SubSeq(n, d + 1, Len(n)) = <<>>
    <3>1. d + 1 \in Int /\ 0 \in Int /\ 0 < d + 1
      OBVIOUS
    <3> QED
      BY <2>1, <3>1, SubSeqEmpty
  <2> QED
    BY <1>1, <1>2, <2>1, <2>2
<1>4. CASE n \in Paths
  <2>1. Len(n) \in Nat /\ n \in Seq(ToSet(n)) /\ \A m \in 1 .. Len(n) : SubSeq(n, m, Len(n)) \in Paths
    BY <1>4, PathsAssumption, PathFacts
  <2>2. CASE Len(n) > d
    <3>1. d + 1 \in 1 .. Len(n)
      BY <2>1, <2>2
    <3>2. SubSeq(n, d + 1, Len(n)) \in Paths
      BY <2>1, <3>1
    <3> QED
      BY <1>1, <1>2, <2>2, <3>2
  <2>3. CASE ~ (Len(n) > d)
    <3>1. d + 1 \in Int /\ Len(n) \in Int /\ Len(n) < d + 1
      BY <2>1, <2>3
    <3>2. SubSeq(n, d + 1, Len(n)) = <<>>
      BY <3>1, SubSeqEmpty
    <3> QED
      BY <1>1, <1>2, <2>3, <3>2
  <2> QED
    BY <2>2, <2>3
<1> QED
  BY <1>3, <1>4

(* So the path of an entry is one, where its name is long enough.           *)
LEMMA PathOfFacts ==
  ASSUME NEW a, IsArchive(a), NEW o, IsOptions(o), NEW i \in DOMAIN a
  PROVE  /\ PathOf(a, o, i) \in Paths \cup {<<>>} /\ StripDepth(a, o) \in Nat
         /\ PathOf(a, o, i) # <<>> <=> Len(a[i].name) > StripDepth(a, o)
         /\ <<>> \notin Paths
<1>1. StripDepth(a, o) \in Nat
  BY DEF IsOptions, StripDepth
<1>2. a[i].name \in Paths \cup {<<>>}
  BY DEF IsArchive
<1>3. PathOf(a, o, i) = StripLeading(a[i].name, StripDepth(a, o))
  BY DEF PathOf
<1> QED
  BY <1>1, <1>2, <1>3, StripFacts

(* What the loop collects.                                                  *)
ItemOf(a, o, i) == Planned(PathOf(a, o, i), a[i].kind, i)
PlanItems(a, o) == {ItemOf(a, o, i) : i \in InPlace(a, o)}
AntiItems(a, o) == {ItemOf(a, o, i) : i \in {j \in DOMAIN a : PathOf(a, o, j) \in Paths}}
Plans(a, o) ==
  [plan : Seq(PlanItems(a, o)), refused : Nat, stripped : Nat, collided : Nat, specials : Nat,
   anti : Seq(AntiItems(a, o)), failed : BOOLEAN]

(* A field of what the loop collects that changes leaves the others.        *)
LEMMA PlansUpdate ==
  ASSUME NEW a, NEW o, NEW acc \in Plans(a, o)
  PROVE  /\ \A r : r = [acc EXCEPT !.failed = TRUE] => r \in Plans(a, o) /\ r.plan = acc.plan /\ r.failed
         /\ \A r : r = [acc EXCEPT !.refused = @ + 1] => r \in Plans(a, o) /\ r.plan = acc.plan
         /\ \A r : r = [acc EXCEPT !.stripped = @ + 1] => r \in Plans(a, o) /\ r.plan = acc.plan
         /\ \A r : r = [acc EXCEPT !.specials = @ + 1] => r \in Plans(a, o) /\ r.plan = acc.plan
         /\ \A r : r = [acc EXCEPT !.collided = @ + 1] => r \in Plans(a, o) /\ r.plan = acc.plan
         /\ \A x \in AntiItems(a, o) :
              \A r : r = [acc EXCEPT !.anti = Append(@, x)] => r \in Plans(a, o) /\ r.plan = acc.plan
         /\ \A q \in Seq(PlanItems(a, o)) :
              \A r : r = [acc EXCEPT !.plan = q] => r \in Plans(a, o) /\ r.plan = q /\ r.failed = acc.failed
<1> DEFINE I == Seq(PlanItems(a, o))
           J == Seq(AntiItems(a, o))
           R == [plan : I, refused : Nat, stripped : Nat, collided : Nat, specials : Nat, anti : J, failed : BOOLEAN]
<1>1. Plans(a, o) = R
  BY DEF Plans
<1>2. \A x \in AntiItems(a, o) : Append(acc.anti, x) \in J
  BY <1>1
<1> HIDE DEF I, J
<1>3. acc \in R
  BY <1>1
<1>4. acc.refused \in Nat /\ acc.stripped \in Nat /\ acc.collided \in Nat /\ acc.specials \in Nat
  BY <1>3
<1>5. acc.refused + 1 \in Nat /\ acc.stripped + 1 \in Nat /\ acc.collided + 1 \in Nat /\ acc.specials + 1 \in Nat
  BY <1>4
<1>6. /\ \A r : r = [acc EXCEPT !.failed = TRUE] => r \in R /\ r.plan = acc.plan /\ r.failed
      /\ \A r : r = [acc EXCEPT !.refused = @ + 1] => r \in R /\ r.plan = acc.plan
      /\ \A r : r = [acc EXCEPT !.stripped = @ + 1] => r \in R /\ r.plan = acc.plan
      /\ \A r : r = [acc EXCEPT !.specials = @ + 1] => r \in R /\ r.plan = acc.plan
      /\ \A r : r = [acc EXCEPT !.collided = @ + 1] => r \in R /\ r.plan = acc.plan
  BY ZenonT(40), <1>3, <1>5
<1>7. \A x \in AntiItems(a, o) :
        \A r : r = [acc EXCEPT !.anti = Append(@, x)] => r \in R /\ r.plan = acc.plan
  BY <1>2, <1>3
<1>8. \A q \in I : \A r : r = [acc EXCEPT !.plan = q] => r \in R /\ r.plan = q /\ r.failed = acc.failed
  BY <1>3
<1> HIDE DEF R
<1> QED
  BY <1>1, <1>6, <1>7, <1>8 DEF I

(* An entry in its place claims it, and any other leaves the plan as it is. *)
LEMMA PlanEntryFacts ==
  ASSUME NEW a, IsArchive(a), NEW o, IsOptions(o), NEW k \in DOMAIN a, NEW acc \in Plans(a, o)
  PROVE  /\ PlanEntry(acc, a, k, o) \in Plans(a, o)
         /\ acc.failed => PlanEntry(acc, a, k, o) = acc
         /\ ~ acc.failed /\ k \in InPlace(a, o) => PlanEntry(acc, a, k, o) = Claim(acc, ItemOf(a, o, k), o.overwrite)
         /\ k \notin InPlace(a, o) => PlanEntry(acc, a, k, o).plan = acc.plan
<1> DEFINE e == a[k]
           p == PathOf(a, o, k)
           it == ItemOf(a, o, k)
           Q == PlanEntry(acc, a, k, o)
           P == Plans(a, o)
           passed == acc.failed \/ ~ Selected(e, o) \/ e.kind = "root"
           placed == e.safe /\ p # <<>>
<1>1. /\ p \in Paths \cup {<<>>} /\ (p # <<>> <=> Len(e.name) > StripDepth(a, o)) /\ <<>> \notin Paths
      /\ e.safe \in BOOLEAN /\ o.unsafe \in {"refuse", "skip"} /\ o.overwrite \in Overwrite
      /\ e.kind = "root" => e.name = <<>>
  BY PathOfFacts DEF IsArchive, IsOptions
<1>2. k \in InPlace(a, o) <=> /\ Selected(e, o) /\ e.safe /\ p # <<>> /\ e.kind \notin {"opaque", "anti"}
  BY <1>1 DEF InPlace
<1>3. e.kind = "root" => p = <<>>
  <2>1. e.kind = "root" => Len(e.name) = 0
    BY <1>1
  <2>2. StripDepth(a, o) \in Nat
    BY PathOfFacts
  <2> QED
    BY <1>1, <2>1, <2>2
<1>4. Q = IF passed THEN acc
          ELSE CASE ~ e.safe /\ o.unsafe = "refuse" -> [acc EXCEPT !.failed = TRUE]
                 [] ~ e.safe /\ o.unsafe = "skip" -> [acc EXCEPT !.refused = @ + 1]
                 [] e.safe /\ p = <<>> -> [acc EXCEPT !.stripped = @ + 1]
                 [] e.safe /\ p # <<>> ->
                      CASE e.kind = "opaque" -> [acc EXCEPT !.specials = @ + 1]
                        [] e.kind = "anti" -> [acc EXCEPT !.anti = Append(@, it)]
                        [] OTHER -> Claim(acc, it, o.overwrite)
  BY DEF PlanEntry, PathOf, ItemOf
<1>5. it \in AntiItems(a, o) \/ p = <<>>
  BY <1>1 DEF AntiItems
<1>6. k \in InPlace(a, o) => it \in PlanItems(a, o)
  BY DEF PlanItems
<1>7. ASSUME it \in PlanItems(a, o) PROVE Claim(acc, it, o.overwrite) \in P
  <2> DEFINE c == Claims(acc.plan, it)
             hit == [acc EXCEPT !.collided = @ + 1]
  <2>0. acc.plan \in Seq(PlanItems(a, o)) /\ hit \in P /\ hit.plan = acc.plan
    <3>1. acc.plan \in Seq(PlanItems(a, o))
      BY DEF Plans
    <3>2. hit = [acc EXCEPT !.collided = @ + 1]
      OBVIOUS
    <3> HIDE DEF hit
    <3> QED
      BY <3>1, <3>2, PlansUpdate
  <2>1. CASE c = {}
    <3>1. Claim(acc, it, o.overwrite) = [acc EXCEPT !.plan = Append(acc.plan, it)]
      BY <2>1 DEF Claim
    <3>2. Append(acc.plan, it) \in Seq(PlanItems(a, o))
      BY <1>7, <2>0
    <3> QED
      BY SMTT(40), <3>1, <3>2, PlansUpdate
  <2>2. CASE c # {} /\ o.overwrite = "always"
    <3> DEFINE s == CHOOSE s \in c : TRUE
    <3>1. Claim(acc, it, o.overwrite) = [hit EXCEPT !.plan[s] = it]
      BY <2>2 DEF Claim
    <3>2. s \in DOMAIN acc.plan
      BY <2>2 DEF Claims
    <3>3. [acc.plan EXCEPT ![s] = it] \in Seq(PlanItems(a, o))
      <4> HIDE DEF s, it
      <4> QED
        BY <1>7, <2>0, <3>2
    <3> HIDE DEF s, hit
    <3>4. [hit EXCEPT !.plan[s] = it] = [hit EXCEPT !.plan = [acc.plan EXCEPT ![s] = it]]
      BY <2>0
    <3> DEFINE q == [acc.plan EXCEPT ![s] = it]
               r == [hit EXCEPT !.plan = q]
    <3>5. q \in Seq(PlanItems(a, o)) /\ r = [hit EXCEPT !.plan = q] /\ hit \in Plans(a, o)
      BY <2>0, <3>3
    <3>6. r \in Plans(a, o)
      <4> HIDE DEF q, r
      <4> QED
        BY <3>5, PlansUpdate
    <3> QED
      BY <3>1, <3>4, <3>6
  <2>3. CASE c # {} /\ o.overwrite = "never"
    <3>1. Claim(acc, it, o.overwrite) = hit
      BY <2>3 DEF Claim
    <3> QED
      BY <2>0, <3>1
  <2>4. CASE c # {} /\ o.overwrite = "error"
    <3>1. Claim(acc, it, o.overwrite) = [hit EXCEPT !.failed = TRUE]
      BY <2>4 DEF Claim
    <3> HIDE DEF hit
    <3> QED
      BY <2>0, <3>1, PlansUpdate
  <2> QED
    BY <1>1, <2>1, <2>2, <2>3, <2>4 DEF Overwrite
<1> HIDE DEF e, p, it, Q, P
<1>8. CASE passed
  <2>1. Q = acc
    BY <1>4, <1>8
  <2>2. k \in InPlace(a, o) => acc.failed
    BY <1>2, <1>3, <1>8
  <2> QED
    BY <2>1, <2>2 DEF Q, P
<1>9. CASE ~ passed /\ ~ e.safe
  <2>1. Q = [acc EXCEPT !.failed = TRUE] \/ Q = [acc EXCEPT !.refused = @ + 1]
    BY <1>1, <1>4, <1>9
  <2>2. k \notin InPlace(a, o) /\ ~ acc.failed
    BY <1>2, <1>9
  <2>3. Q \in Plans(a, o) /\ Q.plan = acc.plan
    BY <2>1, PlansUpdate
  <2> QED
    BY <2>2, <2>3 DEF Q
<1>10. CASE ~ passed /\ e.safe /\ p = <<>>
  <2>1. Q = [acc EXCEPT !.stripped = @ + 1]
    BY <1>4, <1>10
  <2>2. k \notin InPlace(a, o) /\ ~ acc.failed
    BY <1>2, <1>10
  <2>3. Q \in Plans(a, o) /\ Q.plan = acc.plan
    BY <2>1, PlansUpdate
  <2> QED
    BY <2>2, <2>3 DEF Q
<1>11. CASE ~ passed /\ e.safe /\ p # <<>> /\ e.kind \in {"opaque", "anti"}
  <2>1. Q = [acc EXCEPT !.specials = @ + 1] \/ Q = [acc EXCEPT !.anti = Append(@, it)]
    BY <1>4, <1>11
  <2>2. k \notin InPlace(a, o) /\ ~ acc.failed /\ it \in AntiItems(a, o)
    BY <1>2, <1>5, <1>11
  <2>3. Q \in Plans(a, o) /\ Q.plan = acc.plan
    BY <2>1, <2>2, PlansUpdate
  <2> QED
    BY <2>2, <2>3 DEF Q
<1>12. CASE ~ passed /\ e.safe /\ p # <<>> /\ e.kind \notin {"opaque", "anti"}
  <2>1. Q = Claim(acc, it, o.overwrite)
    BY <1>4, <1>12
  <2>2. k \in InPlace(a, o) /\ ~ acc.failed
    BY <1>2, <1>12
  <2> QED
    BY <1>6, <1>7, <2>1, <2>2 DEF Q, it, P
<1> QED
  BY <1>1, <1>8, <1>9, <1>10, <1>11, <1>12

(* The plan of each prefix has its type.                                    *)
LEMMA PrefixPlans ==
  ASSUME NEW a, IsArchive(a), NEW o, IsOptions(o), NEW f, PlanOfPrefixes(f, a, o)
  PROVE  \A k \in 0 .. Len(a) : f[k] \in Plans(a, o)
<1> DEFINE Bad == {k \in 0 .. Len(a) : f[k] \notin Plans(a, o)}
<1> SUFFICES ASSUME Bad # {} PROVE FALSE
  OBVIOUS
<1>1. DOMAIN a = 1 .. Len(a) /\ Len(a) \in Nat
  BY DEF IsArchive
<1>2. PICK k \in Bad : \A m \in Bad : k <= m
  <2>1. Bad \in SUBSET Nat
    OBVIOUS
  <2> HIDE DEF Bad
  <2> QED
    BY <2>1, LeastNat
<1>3. k \in 0 .. Len(a) /\ f[k] \notin Plans(a, o)
  OBVIOUS
<1>4. NoPlan \in Plans(a, o)
  BY DEF NoPlan, Plans
<1>5. k # 0
  BY <1>3, <1>4 DEF PlanOfPrefixes
<1>6. k \in 1 .. Len(a) /\ k - 1 \in 0 .. Len(a) /\ k - 1 \notin Bad
  <2> HIDE DEF Bad
  <2> QED
    BY <1>1, <1>2, <1>3, <1>5
<1>7. f[k - 1] \in Plans(a, o) /\ k \in DOMAIN a
  BY <1>1, <1>6
<1>8. f[k] = PlanEntry(f[k - 1], a, k, o)
  BY <1>6 DEF PlanOfPrefixes
<1> QED
  BY <1>3, <1>7, <1>8, PlanEntryFacts

(* So has the plan: every item of it is a selected entry with its path.     *)
LEMMA BuildPlanType ==
  ASSUME NEW a, IsArchive(a), NEW o, IsOptions(o)
  PROVE  BuildPlan(a, o) \in Plans(a, o)
<1>1. a \in Seq(ToSet(a)) /\ Len(a) \in Nat
  BY DEF IsArchive
<1>2. PICK f : PlanOfPrefixes(f, a, o)
  BY <1>1, BuildPlanSteps
<1>3. f[Len(a)] \in Plans(a, o)
  BY <1>1, <1>2, PrefixPlans
<1>4. BuildPlan(a, o) = [f[Len(a)] EXCEPT !.failed = @ \/ o.linked]
  BY <1>2 DEF PlanOfPrefixes
<1> QED
  BY <1>3, <1>4 DEF Plans

(* What the items of a plan are.                                            *)
LEMMA PlansFacts ==
  ASSUME NEW a, IsArchive(a), NEW o, IsOptions(o), NEW acc \in Plans(a, o)
  PROVE  /\ acc.plan \in Seq(PlanItems(a, o)) /\ Len(acc.plan) \in Nat /\ DOMAIN acc.plan = 1 .. Len(acc.plan)
         /\ \A s \in DOMAIN acc.plan :
              /\ acc.plan[s].path \in Paths /\ acc.plan[s].index \in InPlace(a, o)
              /\ acc.plan[s] = ItemOf(a, o, acc.plan[s].index)
              /\ acc.plan[s].path = PathOf(a, o, acc.plan[s].index) /\ acc.plan[s].kind = a[acc.plan[s].index].kind
         /\ acc.anti \in Seq(AntiItems(a, o)) /\ Len(acc.anti) \in Nat /\ DOMAIN acc.anti = 1 .. Len(acc.anti)
         /\ \A n \in DOMAIN acc.anti : acc.anti[n].path \in Paths
         /\ acc.refused \in Nat /\ acc.stripped \in Nat /\ acc.collided \in Nat /\ acc.specials \in Nat
<1>1. acc.plan \in Seq(PlanItems(a, o)) /\ acc.anti \in Seq(AntiItems(a, o))
  BY DEF Plans
<1>2. \A x \in PlanItems(a, o) : /\ x.path \in Paths /\ x.index \in InPlace(a, o) /\ x = ItemOf(a, o, x.index)
                                /\ x.path = PathOf(a, o, x.index) /\ x.kind = a[x.index].kind
  <2> TAKE x \in PlanItems(a, o)
  <2>1. PICK i \in InPlace(a, o) : x = ItemOf(a, o, i)
    BY DEF PlanItems
  <2>2. i \in DOMAIN a /\ Len(a[i].name) > StripDepth(a, o)
    BY DEF InPlace
  <2>3. PathOf(a, o, i) \in Paths
    BY <2>2, PathOfFacts
  <2>4. x.path = PathOf(a, o, i) /\ x.kind = a[i].kind /\ x.index = i
    BY <2>1 DEF ItemOf, Planned
  <2> QED
    BY <2>1, <2>3, <2>4
<1>3. \A x \in AntiItems(a, o) : x.path \in Paths
  BY DEF AntiItems, ItemOf, Planned
<1>4. \A s \in DOMAIN acc.plan : acc.plan[s] \in PlanItems(a, o)
  BY <1>1
<1>5. \A n \in DOMAIN acc.anti : acc.anti[n] \in AntiItems(a, o)
  BY <1>1
<1>6. acc.refused \in Nat /\ acc.stripped \in Nat /\ acc.collided \in Nat /\ acc.specials \in Nat
  BY DEF Plans
<1>7. Len(acc.plan) \in Nat /\ DOMAIN acc.plan = 1 .. Len(acc.plan) /\ Len(acc.anti) \in Nat /\ DOMAIN acc.anti = 1 .. Len(acc.anti)
  BY <1>1
<1> QED
  BY <1>1, <1>2, <1>3, <1>4, <1>5, <1>6, <1>7

-----------------------------------------------------------------------------
(* Of the entries for one path the plan holds one, in the order of their    *)
(* first.  FirstOf is what IsPlan calls `first`.                            *)
FirstOf(a, o, i) ==
  CHOOSE j \in Rivals(a, o, i) \cup {i} : \A k \in Rivals(a, o, i) \cup {i} : j <= k

(* Rivals are so of each other, and share their first.                      *)
LEMMA RivalsFacts ==
  ASSUME NEW a, IsArchive(a), NEW o, NEW i \in InPlace(a, o)
  PROVE  /\ i \in Nat /\ i \in 1 .. Len(a) /\ Len(a) \in Nat
         /\ i \in Rivals(a, o, i) <=> a[i].kind # "dir"
         /\ \A j \in Rivals(a, o, i) :
              /\ j \in InPlace(a, o) /\ j \in 1 .. Len(a) /\ a[i].kind # "dir" /\ a[j].kind # "dir"
              /\ Rivals(a, o, j) = Rivals(a, o, i)
              /\ FirstOf(a, o, j) = FirstOf(a, o, i)
         /\ FirstOf(a, o, i) \in Rivals(a, o, i) \cup {i}
         /\ \A k \in Rivals(a, o, i) \cup {i} : FirstOf(a, o, i) <= k
<1> DEFINE Rv(x) == Rivals(a, o, x)
<1>1. DOMAIN a = 1 .. Len(a) /\ Len(a) \in Nat /\ InPlace(a, o) \subseteq DOMAIN a
  BY DEF IsArchive, InPlace
<1>2. i \in Rv(i) <=> a[i].kind # "dir"
  BY DEF Rivals
<1>3. \A j \in Rv(i) : /\ j \in InPlace(a, o) /\ a[i].kind # "dir" /\ a[j].kind # "dir"
                       /\ Rv(j) = Rv(i) /\ j \in Rv(j)
  BY DEF Rivals
<1>4. \A j \in Rv(i) : FirstOf(a, o, j) = FirstOf(a, o, i)
  <2> TAKE j \in Rv(i)
  <2>1. i \in Rv(i) /\ j \in Rv(j) /\ Rv(j) = Rv(i)
    BY <1>2, <1>3
  <2>2. Rv(i) \cup {i} = Rv(j) \cup {j}
    <3> HIDE DEF Rv
    <3> QED
      BY <2>1
  <2> QED
    BY <2>2 DEF FirstOf
<1>5. Rv(i) \cup {i} \in SUBSET Nat /\ Rv(i) \cup {i} # {}
  BY <1>1, <1>3
<1>6. \E j \in Rv(i) \cup {i} : \A k \in Rv(i) \cup {i} : j <= k
  BY <1>5, LeastNat
<1>7. FirstOf(a, o, i) \in Rv(i) \cup {i} /\ \A k \in Rv(i) \cup {i} : FirstOf(a, o, i) <= k
  BY <1>6 DEF FirstOf
<1> QED
  BY <1>1, <1>2, <1>3, <1>4, <1>7

Beats(o, i, j) == IF o.overwrite = "always" THEN j <= i ELSE i <= j
WinnersUpto(a, o, k) ==
  {i \in InPlace(a, o) : i <= k /\ \A j \in Rivals(a, o, i) : j <= k => Beats(o, i, j)}
KeptUpto(plan, a, o, k) ==
  /\ \A s \in DOMAIN plan : plan[s].index \in WinnersUpto(a, o, k)
  /\ \A w \in WinnersUpto(a, o, k) : \E s \in DOMAIN plan : plan[s].index = w
  /\ \A s, t \in DOMAIN plan : s < t => FirstOf(a, o, plan[s].index) < FirstOf(a, o, plan[t].index)

(* An entry that is not in its place changes nothing.                       *)
LEMMA KeptWithoutPlace ==
  ASSUME NEW a, IsArchive(a), NEW o, NEW k \in DOMAIN a, k \notin InPlace(a, o)
  PROVE  WinnersUpto(a, o, k) = WinnersUpto(a, o, k - 1)
<1>1. k \in Nat
  BY DEF IsArchive
<1>2. \A i \in InPlace(a, o) : i \in Nat /\ i # k /\ (i <= k <=> i <= k - 1)
  BY <1>1, RivalsFacts
<1>3. \A i \in InPlace(a, o) : \A j \in Rivals(a, o, i) : j <= k <=> j <= k - 1
  BY <1>2, RivalsFacts
<1> QED
  BY <1>2, <1>3 DEF WinnersUpto

(* Some rival among the entries before has won, if there is one.            *)
LEMMA RivalHasWinner ==
  ASSUME NEW a, IsArchive(a), NEW o, NEW i \in InPlace(a, o), NEW k \in Nat,
         NEW j \in Rivals(a, o, i), j <= k
  PROVE  \E w \in Rivals(a, o, i) : w \in WinnersUpto(a, o, k)
<1> DEFINE C == {x \in Rivals(a, o, i) : x <= k}
<1>1. C \in SUBSET Nat /\ C # {} /\ C \subseteq 1 .. k
  BY RivalsFacts
<1>2. IsFiniteSet(C)
  <2> HIDE DEF C
  <2>1. IsFiniteSet(1 .. k) /\ C \in SUBSET (1 .. k)
    BY <1>1, FS_Interval
  <2> QED
    BY <2>1, FS_Subset
<1>3. \E w \in C : \A x \in C : Beats(o, w, x)
  <2>1. CASE o.overwrite = "always"
    <3>1. Max(C) \in C /\ \A x \in C : x <= Max(C)
      <4> HIDE DEF C
      <4> QED
        BY <1>1, <1>2, MaxFacts
    <3> QED
      BY <2>1, <3>1 DEF Beats
  <2>2. CASE o.overwrite # "always"
    <3>1. PICK w \in C : \A x \in C : w <= x
      <4> HIDE DEF C
      <4> QED
        BY <1>1, LeastNat
    <3> QED
      BY <2>2, <3>1 DEF Beats
  <2> QED
    BY <2>1, <2>2
<1>4. PICK w \in C : \A x \in C : Beats(o, w, x)
  BY <1>3
<1>5. w \in InPlace(a, o) /\ Rivals(a, o, w) = Rivals(a, o, i)
  BY RivalsFacts
<1>6. w \in WinnersUpto(a, o, k)
  BY <1>4, <1>5 DEF WinnersUpto
<1> QED
  BY <1>6

(* A winner beats its rivals so far: there is no other among them.          *)
LEMMA WinnerIsAlone ==
  ASSUME NEW a, IsArchive(a), NEW o, NEW k \in Nat, NEW v \in WinnersUpto(a, o, k),
         NEW w \in WinnersUpto(a, o, k), w \in Rivals(a, o, v)
  PROVE  v = w
<1>1. v \in InPlace(a, o) /\ w \in InPlace(a, o) /\ v <= k /\ w <= k
  BY DEF WinnersUpto
<1>2. a[v].kind # "dir" /\ Rivals(a, o, w) = Rivals(a, o, v) /\ v \in Rivals(a, o, v) /\ v \in Nat /\ w \in Nat
  BY <1>1, RivalsFacts
<1>3. Beats(o, v, w) /\ Beats(o, w, v)
  BY <1>1, <1>2 DEF WinnersUpto
<1> QED
  BY <1>2, <1>3 DEF Beats

(* The slots an entry collides with hold its rivals.                        *)
LEMMA ClaimsAreRivals ==
  ASSUME NEW a, IsArchive(a), NEW o, IsOptions(o), NEW acc \in Plans(a, o), NEW k \in InPlace(a, o)
  PROVE  \A s \in DOMAIN acc.plan :
           s \in Claims(acc.plan, ItemOf(a, o, k)) <=> acc.plan[s].index \in Rivals(a, o, k)
<1> TAKE s \in DOMAIN acc.plan
<1> DEFINE i == acc.plan[s].index
<1>1. i \in InPlace(a, o) /\ acc.plan[s].path = PathOf(a, o, i) /\ acc.plan[s].kind = a[i].kind
  BY PlansFacts
<1>2. ItemOf(a, o, k).path = PathOf(a, o, k) /\ ItemOf(a, o, k).kind = a[k].kind
  BY DEF ItemOf, Planned
<1> HIDE DEF i
<1>3. s \in Claims(acc.plan, ItemOf(a, o, k)) <=>
        PathOf(a, o, i) = PathOf(a, o, k) /\ a[i].kind # "dir" /\ a[k].kind # "dir"
  BY <1>1, <1>2 DEF Claims
<1>4. i \in Rivals(a, o, k) <=> PathOf(a, o, i) = PathOf(a, o, k) /\ a[i].kind # "dir" /\ a[k].kind # "dir"
  BY <1>1 DEF Rivals
<1> QED
  BY <1>3, <1>4 DEF i

(* With no rival before it an entry is the next winner, and its own first.  *)
LEMMA NewWinner ==
  ASSUME NEW a, IsArchive(a), NEW o, NEW k \in InPlace(a, o),
         \A j \in Rivals(a, o, k) : ~ (j <= k - 1)
  PROVE  /\ WinnersUpto(a, o, k) = WinnersUpto(a, o, k - 1) \cup {k}
         /\ FirstOf(a, o, k) = k
<1>1. k \in Nat /\ \A i \in InPlace(a, o) : i \in Nat
  BY RivalsFacts
<1>2. \A j \in Rivals(a, o, k) : j \in Nat /\ k <= j
  BY <1>1, RivalsFacts
<1>3. k \in WinnersUpto(a, o, k)
  <2>1. \A j \in Rivals(a, o, k) : j <= k => Beats(o, k, j)
    BY <1>1, <1>2 DEF Beats
  <2> QED
    BY <1>1, <2>1 DEF WinnersUpto
<1>4. \A i \in InPlace(a, o) : i # k /\ i <= k =>
        i <= k - 1 /\ \A j \in Rivals(a, o, i) : (j <= k <=> j <= k - 1)
  <2> TAKE i \in InPlace(a, o)
  <2> HAVE i # k /\ i <= k
  <2>1. i <= k - 1
    BY <1>1
  <2>2. k \notin Rivals(a, o, i)
    <3> SUFFICES ASSUME k \in Rivals(a, o, i) PROVE FALSE
      OBVIOUS
    <3>1. a[i].kind # "dir" /\ Rivals(a, o, k) = Rivals(a, o, i)
      BY RivalsFacts
    <3>2. i \in Rivals(a, o, k)
      BY <3>1, RivalsFacts
    <3> QED
      BY <2>1, <3>2
  <2>3. \A j \in Rivals(a, o, i) : j \in Nat /\ j # k
    BY <2>2, RivalsFacts
  <2> QED
    BY <1>1, <2>1, <2>3
<1>5. \A i \in WinnersUpto(a, o, k) : i # k => i \in WinnersUpto(a, o, k - 1)
  BY <1>4 DEF WinnersUpto
<1>6. \A i \in WinnersUpto(a, o, k - 1) : i \in WinnersUpto(a, o, k)
  <2> TAKE i \in WinnersUpto(a, o, k - 1)
  <2>1. i \in InPlace(a, o) /\ i <= k - 1
    BY DEF WinnersUpto
  <2>2. i # k /\ i <= k
    BY <1>1, <2>1
  <2> QED
    BY <1>4, <2>1, <2>2 DEF WinnersUpto
<1>7. FirstOf(a, o, k) = k
  <2>1. FirstOf(a, o, k) \in Rivals(a, o, k) \cup {k} /\ FirstOf(a, o, k) <= k
    BY RivalsFacts
  <2> QED
    BY <1>1, <1>2, <2>1
<1> QED
  BY <1>3, <1>5, <1>6, <1>7

(* A later rival of a winner takes its place with Always and leaves it      *)
(* otherwise.                                                               *)
LEMMA LateRival ==
  ASSUME NEW a, IsArchive(a), NEW o, NEW k \in InPlace(a, o),
         NEW v \in WinnersUpto(a, o, k - 1), v \in Rivals(a, o, k)
  PROVE  /\ FirstOf(a, o, k) = FirstOf(a, o, v)
         /\ o.overwrite = "always" => WinnersUpto(a, o, k) = (WinnersUpto(a, o, k - 1) \ {v}) \cup {k}
         /\ o.overwrite # "always" => WinnersUpto(a, o, k) = WinnersUpto(a, o, k - 1)
<1>1. k \in Nat /\ \A i \in InPlace(a, o) : i \in Nat
  BY RivalsFacts
<1>2. v \in InPlace(a, o) /\ v <= k - 1 /\ v \in Nat /\ k - 1 \in Nat
  <2>1. v \in InPlace(a, o) /\ v <= k - 1
    BY DEF WinnersUpto
  <2> QED
    BY <1>1, <2>1
<1>3. /\ Rivals(a, o, v) = Rivals(a, o, k) /\ FirstOf(a, o, k) = FirstOf(a, o, v)
      /\ k \in Rivals(a, o, k)
  BY RivalsFacts
<1>4. \A i \in InPlace(a, o) : k \in Rivals(a, o, i) <=> i \in Rivals(a, o, k)
  <2> TAKE i \in InPlace(a, o)
  <2>1. k \in Rivals(a, o, i) => i \in Rivals(a, o, k)
    BY RivalsFacts
  <2>2. i \in Rivals(a, o, k) => k \in Rivals(a, o, i)
    BY <1>3, RivalsFacts
  <2> QED
    BY <2>1, <2>2
<1>5. \A i \in InPlace(a, o) : \A j \in Rivals(a, o, i) : j <= k => j <= k - 1 \/ j = k
  <2>1. \A i \in InPlace(a, o) : \A j \in Rivals(a, o, i) : j \in Nat
    BY RivalsFacts
  <2> QED
    BY <1>1, <2>1
<1>6. \A i \in WinnersUpto(a, o, k - 1) : i \in InPlace(a, o) /\ i \in Nat /\ i <= k - 1 /\ i <= k /\ i # k
  <2> TAKE i \in WinnersUpto(a, o, k - 1)
  <2>1. i \in InPlace(a, o) /\ i <= k - 1
    BY DEF WinnersUpto
  <2> QED
    BY <1>1, <2>1
<1>7. \A i \in WinnersUpto(a, o, k) : i # k => i \in WinnersUpto(a, o, k - 1)
  <2> TAKE i \in WinnersUpto(a, o, k)
  <2> HAVE i # k
  <2>1. i \in InPlace(a, o) /\ i <= k /\ i \in Nat /\ \A j \in Rivals(a, o, i) : j <= k => Beats(o, i, j)
    BY <1>1 DEF WinnersUpto
  <2>2. i <= k - 1
    BY <1>1, <2>1
  <2>3. \A j \in Rivals(a, o, i) : j <= k - 1 => j <= k
    <3>1. \A j \in Rivals(a, o, i) : j \in Nat
      BY <2>1, RivalsFacts
    <3> QED
      BY <1>1, <3>1
  <2> QED
    BY <2>1, <2>2, <2>3 DEF WinnersUpto
<1>8. \A i \in WinnersUpto(a, o, k - 1) : i \notin Rivals(a, o, k) => i \in WinnersUpto(a, o, k)
  <2> TAKE i \in WinnersUpto(a, o, k - 1)
  <2> HAVE i \notin Rivals(a, o, k)
  <2>1. i \in InPlace(a, o) /\ i <= k /\ k \notin Rivals(a, o, i)
    BY <1>4, <1>6
  <2>2. \A j \in Rivals(a, o, i) : j <= k => j <= k - 1
    BY <1>5, <2>1
  <2> QED
    BY <2>1, <2>2 DEF WinnersUpto
<1>9. \A i \in WinnersUpto(a, o, k - 1) : i \in Rivals(a, o, k) => i = v
  <2> TAKE i \in WinnersUpto(a, o, k - 1)
  <2> HAVE i \in Rivals(a, o, k)
  <2>1. i \in Rivals(a, o, v)
    BY <1>3
  <2> QED
    BY <1>2, <2>1, WinnerIsAlone
<1>10. CASE o.overwrite = "always"
  <2>1. k \in WinnersUpto(a, o, k)
    BY <1>1, <1>10 DEF WinnersUpto, Beats
  <2>2. v \notin WinnersUpto(a, o, k)
    <3>1. ~ Beats(o, v, k) /\ k \in Rivals(a, o, v) /\ k <= k
      BY <1>1, <1>2, <1>3, <1>10 DEF Beats
    <3> QED
      BY <3>1 DEF WinnersUpto
  <2> QED
    BY <1>3, <1>7, <1>8, <1>9, <1>10, <2>1, <2>2
<1>11. CASE o.overwrite # "always"
  <2>1. k \notin WinnersUpto(a, o, k)
    <3>1. ~ Beats(o, k, v) /\ v <= k
      BY <1>1, <1>2, <1>11 DEF Beats
    <3> QED
      BY <3>1 DEF WinnersUpto
  <2>2. v \in WinnersUpto(a, o, k)
    <3>1. Beats(o, v, k)
      BY <1>1, <1>2, <1>11 DEF Beats
    <3>2. \A j \in Rivals(a, o, v) : j <= k => Beats(o, v, j)
      BY <1>2, <1>5, <3>1 DEF WinnersUpto
    <3> QED
      BY <1>6, <3>2 DEF WinnersUpto
  <2> QED
    BY <1>3, <1>7, <1>8, <1>9, <1>11, <2>1, <2>2
<1> QED
  BY <1>10, <1>11

(* Claiming a place keeps the plan as it should be, unless it fails.        *)
LEMMA ClaimKeeps ==
  ASSUME NEW a, IsArchive(a), NEW o, IsOptions(o), NEW acc \in Plans(a, o), NEW k \in InPlace(a, o),
         KeptUpto(acc.plan, a, o, k - 1),
         NEW next, next = Claim(acc, ItemOf(a, o, k), o.overwrite), ~ next.failed
  PROVE  KeptUpto(next.plan, a, o, k)
<1> DEFINE it == ItemOf(a, o, k)
           c == Claims(acc.plan, it)
           W(n) == WinnersUpto(a, o, n)
           F(i) == FirstOf(a, o, i)
<1>1. /\ acc.plan \in Seq(PlanItems(a, o)) /\ it \in PlanItems(a, o) /\ it.index = k
      /\ Len(acc.plan) \in Nat /\ DOMAIN acc.plan = 1 .. Len(acc.plan)
  BY PlansFacts DEF PlanItems, ItemOf, Planned
<1>2. \A s \in DOMAIN acc.plan : s \in c <=> acc.plan[s].index \in Rivals(a, o, k)
  BY ClaimsAreRivals
<1>3. c \subseteq DOMAIN acc.plan
  BY DEF Claims
<1>4. k \in Nat /\ k - 1 \in Nat /\ \A i \in InPlace(a, o) : i \in Nat
  BY RivalsFacts
<1>5. /\ \A s \in DOMAIN acc.plan : acc.plan[s].index \in W(k - 1)
      /\ \A w \in W(k - 1) : \E s \in DOMAIN acc.plan : acc.plan[s].index = w
      /\ \A s, t \in DOMAIN acc.plan : s < t => F(acc.plan[s].index) < F(acc.plan[t].index)
  BY DEF KeptUpto
<1>6. next = IF c = {} THEN [acc EXCEPT !.plan = Append(@, it)]
             ELSE LET hit == [acc EXCEPT !.collided = @ + 1] IN
                  CASE o.overwrite = "always" -> [hit EXCEPT !.plan[CHOOSE s \in c : TRUE] = it]
                    [] o.overwrite = "never"  -> hit
                    [] o.overwrite = "error"  -> [hit EXCEPT !.failed = TRUE]
  BY DEF Claim
<1>7. CASE c = {}
  <2>1. \A j \in Rivals(a, o, k) : ~ (j <= k - 1)
    <3> SUFFICES ASSUME NEW j \in Rivals(a, o, k), j <= k - 1 PROVE FALSE
      OBVIOUS
    <3>1. PICK w \in Rivals(a, o, k) : w \in W(k - 1)
      BY <1>4, RivalHasWinner
    <3>2. PICK s \in DOMAIN acc.plan : acc.plan[s].index = w
      BY <1>5, <3>1
    <3> QED
      BY <1>2, <1>7, <3>1, <3>2
  <2>2. W(k) = W(k - 1) \cup {k} /\ F(k) = k
    BY <2>1, NewWinner
  <2>3. next.plan = Append(acc.plan, it)
    BY <1>6, <1>7 DEF Plans
  <2> DEFINE n == Len(acc.plan)
             q == next.plan
  <2>4. /\ DOMAIN q = 1 .. (n + 1) /\ q[n + 1] = it
        /\ \A s \in 1 .. n : q[s] = acc.plan[s]
    <3> HIDE DEF it
    <3> QED
      BY <1>1, <2>3
  <2>5. \A s \in DOMAIN acc.plan : F(acc.plan[s].index) < k
    <3> TAKE s \in DOMAIN acc.plan
    <3> DEFINE i == acc.plan[s].index
    <3>1. i \in W(k - 1)
      BY <1>5
    <3>2. i \in InPlace(a, o) /\ i <= k - 1
      BY <3>1 DEF WinnersUpto
    <3>3. F(i) <= i /\ F(i) \in Nat /\ i \in Nat
      <4>1. F(i) \in Rivals(a, o, i) \cup {i} /\ F(i) <= i
        BY <3>2, RivalsFacts
      <4>2. \A j \in Rivals(a, o, i) : j \in Nat
        BY <3>2, RivalsFacts
      <4> QED
        BY <1>4, <3>2, <4>1, <4>2
    <3> QED
      BY <1>4, <3>2, <3>3
  <2> HIDE DEF n, q, it
  <2>6. DOMAIN acc.plan = 1 .. n /\ n \in Nat /\ n + 1 \in DOMAIN q /\ q[n + 1].index = k
    BY <1>1, <2>4 DEF n
  <2>7. \A s \in DOMAIN q : q[s].index \in W(k)
    BY <1>5, <2>2, <2>4, <2>6
  <2>8. \A w \in W(k) : \E s \in DOMAIN q : q[s].index = w
    BY <1>5, <2>2, <2>4, <2>6
  <2>9. \A s, t \in DOMAIN q : s < t => F(q[s].index) < F(q[t].index)
    <3> TAKE s, t \in DOMAIN q
    <3> HAVE s < t
    <3>1. s \in 1 .. n /\ (t \in 1 .. n \/ t = n + 1)
      BY <2>4, <2>6
    <3>2. CASE t \in 1 .. n
      BY <1>5, <2>4, <2>6, <3>1, <3>2
    <3>3. CASE t = n + 1
      BY <2>2, <2>4, <2>5, <2>6, <3>1, <3>3
    <3> QED
      BY <3>1, <3>2, <3>3
  <2> QED
    BY <2>7, <2>8, <2>9 DEF KeptUpto, q
<1>8. CASE c # {} /\ o.overwrite = "always"
  <2> DEFINE r == CHOOSE s \in c : TRUE
             v == acc.plan[r].index
             q == next.plan
  <2>1. r \in DOMAIN acc.plan /\ v \in Rivals(a, o, k) /\ v \in W(k - 1)
    <3>1. r \in c
      BY <1>8
    <3> HIDE DEF c, r
    <3> QED
      BY <1>2, <1>3, <1>5, <3>1
  <2>2. F(k) = F(v) /\ W(k) = (W(k - 1) \ {v}) \cup {k}
    <3> HIDE DEF v
    <3> QED
      BY <1>8, <2>1, LateRival
  <2>3. q = [acc.plan EXCEPT ![r] = it]
    <3> DEFINE hit == [acc EXCEPT !.collided = @ + 1]
    <3>1. next = [hit EXCEPT !.plan[r] = it]
      BY <1>6, <1>8
    <3>2. hit.plan = acc.plan /\ "plan" \in DOMAIN hit
      BY DEF Plans
    <3> HIDE DEF hit, r, it
    <3> QED
      BY <3>1, <3>2
  <2> HIDE DEF r, v, q, it, c
  <2>4. DOMAIN q = DOMAIN acc.plan /\ q[r] = it /\ \A s \in DOMAIN q : s # r => q[s] = acc.plan[s]
    BY <2>1, <2>3
  <2>5. \A s \in DOMAIN q : F(q[s].index) = F(acc.plan[s].index)
    BY <1>1, <2>2, <2>4 DEF v
  <2>6. \A s \in DOMAIN q : s # r => acc.plan[s].index # v
    <3> TAKE s \in DOMAIN q
    <3> HAVE s # r
    <3>1. s \in Nat /\ r \in Nat /\ s \in DOMAIN acc.plan
      BY <1>1, <2>1, <2>4
    <3>2. s < r \/ r < s
      BY <3>1
    <3>3. F(acc.plan[s].index) < F(v) \/ F(v) < F(acc.plan[s].index)
      BY <1>5, <2>1, <3>1, <3>2 DEF v
    <3>4. F(v) \in Nat
      <4>1. v \in InPlace(a, o)
        BY <2>1 DEF WinnersUpto
      <4>2. F(v) \in Rivals(a, o, v) \cup {v}
        BY <4>1, RivalsFacts
      <4>3. \A j \in Rivals(a, o, v) : j \in Nat
        BY <4>1, RivalsFacts
      <4> QED
        BY <1>4, <4>1, <4>2, <4>3
    <3> QED
      BY <3>3, <3>4
  <2>7. \A s \in DOMAIN q : q[s].index \in W(k)
    <3> TAKE s \in DOMAIN q
    <3>1. CASE s = r
      BY <1>1, <2>2, <2>4, <3>1
    <3>2. CASE s # r
      BY <1>5, <2>2, <2>4, <2>6, <3>2
    <3> QED
      BY <3>1, <3>2
  <2>8. \A w \in W(k) : \E s \in DOMAIN q : q[s].index = w
    <3> TAKE w \in W(k)
    <3>1. CASE w = k
      BY <1>1, <2>1, <2>4, <3>1
    <3>2. CASE w # k
      <4>1. w \in W(k - 1) /\ w # v
        BY <2>2, <3>2
      <4>2. PICK s \in DOMAIN acc.plan : acc.plan[s].index = w
        BY <1>5, <4>1
      <4>3. s # r
        BY <4>1, <4>2 DEF v
      <4> QED
        BY <2>4, <4>2, <4>3
    <3> QED
      BY <3>1, <3>2
  <2>9. \A s, t \in DOMAIN q : s < t => F(q[s].index) < F(q[t].index)
    BY <1>5, <2>4, <2>5
  <2> QED
    BY <2>7, <2>8, <2>9 DEF KeptUpto, q
<1>9. CASE c # {} /\ o.overwrite = "never"
  <2>1. PICK r \in c : TRUE
    BY <1>9
  <2> DEFINE v == acc.plan[r].index
  <2>2. v \in Rivals(a, o, k) /\ v \in W(k - 1)
    BY <1>2, <1>3, <1>5, <2>1
  <2>3. o.overwrite # "always"
    BY <1>9
  <2>4. W(k) = W(k - 1)
    BY <2>2, <2>3, LateRival
  <2>5. next.plan = acc.plan
    BY <1>6, <1>9 DEF Plans
  <2> QED
    BY <1>5, <2>4, <2>5 DEF KeptUpto
<1>10. CASE c # {} /\ o.overwrite = "error"
  <2>1. next.failed
    BY <1>6, <1>10 DEF Plans
  <2> QED
    BY <2>1
<1>11. o.overwrite \in {"always", "never", "error"}
  BY DEF IsOptions, Overwrite
<1> QED
  BY <1>7, <1>8, <1>9, <1>10, <1>11

(* So the plan of each prefix is as it should be, or building it has        *)
(* failed.                                                                  *)
LEMMA PrefixKept ==
  ASSUME NEW a, IsArchive(a), NEW o, IsOptions(o), NEW f, PlanOfPrefixes(f, a, o)
  PROVE  \A k \in 0 .. Len(a) : f[k].failed \/ KeptUpto(f[k].plan, a, o, k)
<1> DEFINE Good(k) == f[k].failed \/ KeptUpto(f[k].plan, a, o, k)
           Bad == {k \in 0 .. Len(a) : ~ Good(k)}
<1> SUFFICES ASSUME Bad # {} PROVE FALSE
  OBVIOUS
<1>1. DOMAIN a = 1 .. Len(a) /\ Len(a) \in Nat
  BY DEF IsArchive
<1>2. PICK k \in Bad : \A m \in Bad : k <= m
  <2>1. Bad \in SUBSET Nat
    OBVIOUS
  <2> HIDE DEF Bad
  <2> QED
    BY <2>1, LeastNat
<1>3. k \in 0 .. Len(a) /\ ~ Good(k)
  OBVIOUS
<1>4. k # 0
  <2>1. f[0].plan = <<>>
    BY DEF PlanOfPrefixes, NoPlan
  <2>2. WinnersUpto(a, o, 0) = {}
    <3>1. \A i \in InPlace(a, o) : i \in 1 .. Len(a)
      BY RivalsFacts
    <3> QED
      BY <1>1, <3>1 DEF WinnersUpto
  <2>3. KeptUpto(f[0].plan, a, o, 0)
    BY <2>1, <2>2 DEF KeptUpto
  <2> QED
    BY <1>3, <2>3
<1>5. k \in 1 .. Len(a) /\ k - 1 \in 0 .. Len(a) /\ k - 1 \notin Bad
  <2> HIDE DEF Bad
  <2> QED
    BY <1>1, <1>2, <1>3, <1>4
<1>6. Good(k - 1)
  BY <1>5
<1>7. f[k - 1] \in Plans(a, o) /\ k \in DOMAIN a
  BY <1>1, <1>5, PrefixPlans
<1>8. f[k] = PlanEntry(f[k - 1], a, k, o)
  BY <1>5 DEF PlanOfPrefixes
<1>9. ~ f[k].failed /\ ~ KeptUpto(f[k].plan, a, o, k)
  BY <1>3
<1>10. ~ f[k - 1].failed
  BY <1>7, <1>8, <1>9, PlanEntryFacts
<1>11. KeptUpto(f[k - 1].plan, a, o, k - 1)
  BY <1>6, <1>10
<1>12. CASE k \in InPlace(a, o)
  <2>1. f[k] = Claim(f[k - 1], ItemOf(a, o, k), o.overwrite)
    BY <1>7, <1>8, <1>10, <1>12, PlanEntryFacts
  <2> QED
    BY <1>7, <1>9, <1>11, <1>12, <2>1, ClaimKeeps
<1>13. CASE k \notin InPlace(a, o)
  <2>1. f[k].plan = f[k - 1].plan
    BY <1>7, <1>8, <1>13, PlanEntryFacts
  <2>2. WinnersUpto(a, o, k) = WinnersUpto(a, o, k - 1)
    BY <1>7, <1>13, KeptWithoutPlace
  <2> QED
    BY <1>9, <1>11, <2>1, <2>2 DEF KeptUpto
<1> QED
  BY <1>12, <1>13

(* The plan that build_plan makes, where it does not fail, is the one the   *)
(* options describe: one entry of those for each path, the last with Always *)
(* and the first otherwise, in the place of the first.                      *)
THEOREM BuildPlanKeeps ==
  ASSUME NEW a, IsArchive(a), NEW o, IsOptions(o), ~ BuildPlan(a, o).failed
  PROVE  IsPlan(BuildPlan(a, o).plan, a, o)
<1> DEFINE n == Len(a)
           q == BuildPlan(a, o).plan
<1>1. a \in Seq(ToSet(a)) /\ n \in Nat
  BY DEF IsArchive
<1>2. PICK f : PlanOfPrefixes(f, a, o)
  BY <1>1, BuildPlanSteps
<1>3. f[n] \in Plans(a, o) /\ (f[n].failed \/ KeptUpto(f[n].plan, a, o, n))
  BY <1>1, <1>2, PrefixPlans, PrefixKept
<1>4. BuildPlan(a, o) = [f[n] EXCEPT !.failed = @ \/ o.linked]
  BY <1>2 DEF PlanOfPrefixes
<1>5. q = f[n].plan /\ ~ f[n].failed
  <2> HIDE DEF n
  <2> QED
    BY <1>3, <1>4 DEF Plans
<1>6. KeptUpto(q, a, o, n)
  BY <1>3, <1>5
<1>7. WinnersUpto(a, o, n) = Winners(a, o)
  <2>1. \A i \in InPlace(a, o) : i <= n /\ \A j \in Rivals(a, o, i) : j <= n
    <3>1. \A i \in InPlace(a, o) : i \in 1 .. n /\ \A j \in Rivals(a, o, i) : j \in 1 .. n
      BY RivalsFacts
    <3> QED
      BY <1>1, <3>1
  <2> QED
    BY <2>1 DEF WinnersUpto, Winners, Beats
<1>8. \A s \in DOMAIN q : q[s].path = PathOf(a, o, q[s].index)
  BY <1>3, <1>5, PlansFacts
<1> HIDE DEF q
<1>9. {q[s].index : s \in DOMAIN q} = Winners(a, o)
  BY <1>6, <1>7 DEF KeptUpto
<1>10. \A s, t \in DOMAIN q : s < t => FirstOf(a, o, q[s].index) < FirstOf(a, o, q[t].index)
  BY <1>6 DEF KeptUpto
<1> QED
  BY <1>8, <1>9, <1>10 DEF IsPlan, FirstOf, q

-----------------------------------------------------------------------------
(* What ZipExtract takes from Layout is Layout's own: the destination,    *)
LEMMA OfZipTree ==
  /\ OfZip!Missing = Missing /\ OfZip!Node = Node /\ OfZip!NoPlan = NoPlan
  /\ \A p : OfZip!Above(p) = Above(p)
  /\ \A t, p : OfZip!WithDirectories(t, p) = WithDirectories(t, p)
  /\ \A t, p : OfZip!WithParents(t, p) = WithParents(t, p)
  /\ \A t, p : OfZip!Cleared(t, p) = Cleared(t, p)
  /\ \A t, p : OfZip!Taken(t, p) <=> Taken(t, p)
<1> USE DEF OfZip!Missing, Missing, OfZip!Node, Node, OfZip!NoPlan, NoPlan, OfZip!Fresh, Fresh, OfZip!Ancestry, Ancestry, OfZip!Above, Above
<1>1. \A t, p : OfZip!WithDirectories(t, p) = WithDirectories(t, p)
  BY DEF OfZip!WithDirectories, WithDirectories
<1>2. \A t, p : OfZip!WithParents(t, p) = WithParents(t, p)
  BY DEF OfZip!WithDirectories, WithDirectories, OfZip!WithParents, WithParents, OfZip!Front, Front
<1> QED
  BY <1>1, <1>2 DEF OfZip!Cleared, Cleared, OfZip!Taken, Taken

(* the plan,                                                                *)
LEMMA OfZipPlan ==
  /\ \A a, o : OfZip!BuildPlan(a, o) = BuildPlan(a, o)
  /\ \A a, o : OfZip!StripDepth(a, o) = StripDepth(a, o)
  /\ \A n, d : OfZip!StripLeading(n, d) = StripLeading(n, d)
<1> USE DEF OfZip!StripDepth, StripDepth, OfZip!StripLeading, StripLeading, OfZip!HasCommonRoot, HasCommonRoot, OfZip!Chosen, Chosen, OfZip!Selected, Selected, OfZip!IsPrefix, IsPrefix, OfZip!ToSet, ToSet
<1>1. \A a, o : OfZip!BuildPlan(a, o) = BuildPlan(a, o)
  BY DEF OfZip!BuildPlan, BuildPlan, OfZip!FoldLeftDomain, FoldLeftDomain, OfZip!FoldLeft, FoldLeft, OfZip!MapThenFoldSet, MapThenFoldSet,
         OfZip!PlanEntry, PlanEntry, OfZip!Planned, Planned, OfZip!Claim, Claim, OfZip!Claims, Claims, OfZip!NoPlan, NoPlan, OfZip!Max, Max
<1> QED
  BY SMTT(40), <1>1

(* and the order in which directories are done.                             *)
LEMMA OfZipOrder == \A s : OfZip!DeepestFirst(s) = DeepestFirst(s)
BY DEF OfZip!Cardinality, Cardinality, OfZip!InOrder, InOrder, OfZip!DeepestFirst, DeepestFirst

(* What TarExtract takes from Layout is Layout's own: the destination,    *)
LEMMA OfTarTree ==
  /\ OfTar!Missing = Missing /\ OfTar!Node = Node /\ OfTar!NoPlan = NoPlan
  /\ \A p : OfTar!Above(p) = Above(p)
  /\ \A t, p : OfTar!WithDirectories(t, p) = WithDirectories(t, p)
  /\ \A t, p : OfTar!WithParents(t, p) = WithParents(t, p)
  /\ \A t, p : OfTar!Cleared(t, p) = Cleared(t, p)
  /\ \A t, p : OfTar!Taken(t, p) <=> Taken(t, p)
<1> USE DEF OfTar!Missing, Missing, OfTar!Node, Node, OfTar!NoPlan, NoPlan, OfTar!Fresh, Fresh, OfTar!Ancestry, Ancestry, OfTar!Above, Above
<1>1. \A t, p : OfTar!WithDirectories(t, p) = WithDirectories(t, p)
  BY DEF OfTar!WithDirectories, WithDirectories
<1>2. \A t, p : OfTar!WithParents(t, p) = WithParents(t, p)
  BY DEF OfTar!WithDirectories, WithDirectories, OfTar!WithParents, WithParents, OfTar!Front, Front
<1> QED
  BY <1>1, <1>2 DEF OfTar!Cleared, Cleared, OfTar!Taken, Taken

(* the plan,                                                                *)
LEMMA OfTarPlan ==
  /\ \A a, o : OfTar!BuildPlan(a, o) = BuildPlan(a, o)
  /\ \A a, o : OfTar!StripDepth(a, o) = StripDepth(a, o)
  /\ \A n, d : OfTar!StripLeading(n, d) = StripLeading(n, d)
<1> USE DEF OfTar!StripDepth, StripDepth, OfTar!StripLeading, StripLeading, OfTar!HasCommonRoot, HasCommonRoot, OfTar!Chosen, Chosen, OfTar!Selected, Selected, OfTar!IsPrefix, IsPrefix, OfTar!ToSet, ToSet
<1>1. \A a, o : OfTar!BuildPlan(a, o) = BuildPlan(a, o)
  BY DEF OfTar!BuildPlan, BuildPlan, OfTar!FoldLeftDomain, FoldLeftDomain, OfTar!FoldLeft, FoldLeft, OfTar!MapThenFoldSet, MapThenFoldSet,
         OfTar!PlanEntry, PlanEntry, OfTar!Planned, Planned, OfTar!Claim, Claim, OfTar!Claims, Claims, OfTar!NoPlan, NoPlan, OfTar!Max, Max
<1> QED
  BY <1>1

(* and the order in which directories are done.                             *)
LEMMA OfTarOrder == \A s : OfTar!DeepestFirst(s) = DeepestFirst(s)
BY DEF OfTar!Cardinality, Cardinality, OfTar!InOrder, InOrder, OfTar!DeepestFirst, DeepestFirst

(* What SevenZExtract takes from Layout is Layout's own: the destination, *)
LEMMA OfSevenZTree ==
  /\ OfSevenZ!Missing = Missing /\ OfSevenZ!Node = Node /\ OfSevenZ!NoPlan = NoPlan
  /\ \A p : OfSevenZ!Above(p) = Above(p)
  /\ \A t, p : OfSevenZ!WithDirectories(t, p) = WithDirectories(t, p)
  /\ \A t, p : OfSevenZ!WithParents(t, p) = WithParents(t, p)
  /\ \A t, p : OfSevenZ!Cleared(t, p) = Cleared(t, p)
  /\ \A t, p : OfSevenZ!Taken(t, p) <=> Taken(t, p)
<1> USE DEF OfSevenZ!Missing, Missing, OfSevenZ!Node, Node, OfSevenZ!NoPlan, NoPlan, OfSevenZ!Fresh, Fresh, OfSevenZ!Ancestry, Ancestry, OfSevenZ!Above, Above
<1>1. \A t, p : OfSevenZ!WithDirectories(t, p) = WithDirectories(t, p)
  BY DEF OfSevenZ!WithDirectories, WithDirectories
<1>2. \A t, p : OfSevenZ!WithParents(t, p) = WithParents(t, p)
  BY DEF OfSevenZ!WithDirectories, WithDirectories, OfSevenZ!WithParents, WithParents, OfSevenZ!Front, Front
<1> QED
  BY <1>1, <1>2 DEF OfSevenZ!Cleared, Cleared, OfSevenZ!Taken, Taken

(* the plan,                                                                *)
LEMMA OfSevenZPlan ==
  /\ \A a, o : OfSevenZ!BuildPlan(a, o) = BuildPlan(a, o)
  /\ \A a, o : OfSevenZ!StripDepth(a, o) = StripDepth(a, o)
  /\ \A n, d : OfSevenZ!StripLeading(n, d) = StripLeading(n, d)
<1> USE DEF OfSevenZ!StripDepth, StripDepth, OfSevenZ!StripLeading, StripLeading, OfSevenZ!HasCommonRoot, HasCommonRoot, OfSevenZ!Chosen, Chosen, OfSevenZ!Selected, Selected, OfSevenZ!IsPrefix, IsPrefix, OfSevenZ!ToSet, ToSet
<1>1. \A a, o : OfSevenZ!BuildPlan(a, o) = BuildPlan(a, o)
  BY DEF OfSevenZ!BuildPlan, BuildPlan, OfSevenZ!FoldLeftDomain, FoldLeftDomain, OfSevenZ!FoldLeft, FoldLeft, OfSevenZ!MapThenFoldSet, MapThenFoldSet,
         OfSevenZ!PlanEntry, PlanEntry, OfSevenZ!Planned, Planned, OfSevenZ!Claim, Claim, OfSevenZ!Claims, Claims, OfSevenZ!NoPlan, NoPlan, OfSevenZ!Max, Max
<1> QED
  BY <1>1

(* and the order in which directories are done.                             *)
LEMMA OfSevenZOrder == \A s : OfSevenZ!DeepestFirst(s) = DeepestFirst(s)
BY DEF OfSevenZ!Cardinality, Cardinality, OfSevenZ!InOrder, InOrder, OfSevenZ!DeepestFirst, DeepestFirst

(* What a step does to the plan: build_plan makes it once, and nothing      *)
(* changes it afterwards or the archive, the options and the destination it *)
(* was made for.                                                            *)
PlanMoves ==
  /\ UNCHANGED <<archive, options, before, format>>
  /\ \/ /\ phase = "plan" /\ planned' = BuildPlan(archive, options) /\ tree' = tree
        /\ phase' # "plan" /\ (planned'.failed => phase' = "err")
     \/ /\ phase # "plan" /\ planned' = planned
        /\ phase' # "plan" /\ (phase = "err" => phase' = "err")

(* Every step of a zip's extraction does that,                              *)
LEMMA ZipMoves == format = "zip" /\ Next => PlanMoves
<1> SUFFICES ASSUME format = "zip", OfZip!Next, UNCHANGED format PROVE PlanMoves
  BY DEF Next
<1> USE DEF PlanMoves, OfZip!input, OfZip!pool, OfZip!Fails, OfZip!InPool
<1>1. CASE OfZip!Plan
  BY <1>1, OfZipPlan DEF OfZip!Plan
<1>2. CASE OfZip!MakeDirectory \/ OfZip!MakeParents \/ OfZip!StartFiles
  BY <1>2 DEF OfZip!MakeDirectory, OfZip!MakeParents, OfZip!StartFiles
<1>3. ASSUME NEW i \in DOMAIN work, OfZip!CheckFile(i) \/ OfZip!CreateFile(i) \/ OfZip!FailFile(i) \/ OfZip!CompleteFile(i)
      PROVE  PlanMoves
  BY <1>3 DEF OfZip!CheckFile, OfZip!CreateFile, OfZip!FailFile, OfZip!CompleteFile
<1>4. CASE OfZip!OpenFails \/ OfZip!KeepFailure \/ OfZip!FilesReturn
  BY <1>4 DEF OfZip!OpenFails, OfZip!KeepFailure, OfZip!FilesReturn
<1>5. CASE OfZip!MakeLink \/ OfZip!LinkFails \/ OfZip!LinksEnd
  BY <1>5 DEF OfZip!MakeLink, OfZip!LinkFails, OfZip!LinksEnd, OfZip!NextLink
<1>6. CASE OfZip!Seal \/ OfZip!Finish \/ OfZip!Ended
  BY <1>6 DEF OfZip!Seal, OfZip!Finish, OfZip!Ended, OfZip!vars
<1> QED
  BY <1>1, <1>2, <1>3, <1>4, <1>5, <1>6 DEF OfZip!Next

(* every step of a tar's,                                                   *)
LEMMA TarMoves == format = "tar" /\ Next => PlanMoves
<1> SUFFICES ASSUME format = "tar", OfTar!Next, UNCHANGED format PROVE PlanMoves
  BY DEF Next
<1> USE DEF PlanMoves, OfTar!input, OfTar!Onward, OfTar!Stopped
<1>1. CASE OfTar!Plan
  BY <1>1, OfTarPlan DEF OfTar!Plan
<1>2. CASE OfTar!HardLinkEntry \/ OfTar!SpecialEntry \/ OfTar!DirectoryEntry \/ OfTar!LinkEntry \/ OfTar!FileEntry
  BY <1>2 DEF OfTar!HardLinkEntry, OfTar!SpecialEntry, OfTar!DirectoryEntry, OfTar!LinkEntry, OfTar!FileEntry, OfTar!InLoop
<1>3. CASE OfTar!StartBodies
  BY <1>3 DEF OfTar!StartBodies
<1>4. ASSUME NEW i \in DOMAIN work, OfTar!CreateBody(i) \/ OfTar!FailBody(i) \/ OfTar!CompleteBody(i)
      PROVE  PlanMoves
  BY <1>4 DEF OfTar!CreateBody, OfTar!FailBody, OfTar!CompleteBody, OfTar!InPool
<1>5. CASE OfTar!OpenFails \/ OfTar!KeepFailure \/ OfTar!BodiesReturn
  BY <1>5 DEF OfTar!OpenFails, OfTar!KeepFailure, OfTar!BodiesReturn
<1>6. CASE OfTar!MakeHardLink \/ OfTar!SkipHardLink \/ OfTar!HardLinkFails \/ OfTar!LinksEnd
  BY <1>6 DEF OfTar!MakeHardLink, OfTar!SkipHardLink, OfTar!HardLinkFails, OfTar!LinksEnd, OfTar!InLinks
<1>7. CASE OfTar!Seal \/ OfTar!Finish \/ OfTar!Ended
  BY <1>7 DEF OfTar!Seal, OfTar!Finish, OfTar!Ended, OfTar!vars
<1> QED
  BY <1>1, <1>2, <1>3, <1>4, <1>5, <1>6, <1>7 DEF OfTar!Next

(* and every step of a 7z's.                                                *)
LEMMA SevenZMoves == format = "7z" /\ Next => PlanMoves
<1> SUFFICES ASSUME format = "7z", OfSevenZ!Next, UNCHANGED format PROVE PlanMoves
  BY DEF Next
<1> USE DEF PlanMoves, OfSevenZ!input, OfSevenZ!Onward, OfSevenZ!Stopped, OfSevenZ!InLoop, OfSevenZ!LoopEnds
<1>1. CASE OfSevenZ!Plan
  BY <1>1, OfSevenZPlan DEF OfSevenZ!Plan
<1>2. CASE OfSevenZ!MakeDirectory \/ OfSevenZ!MakeParents \/ OfSevenZ!DirectoriesEnd
  BY <1>2 DEF OfSevenZ!MakeDirectory, OfSevenZ!MakeParents, OfSevenZ!DirectoriesEnd
<1>3. CASE OfSevenZ!WriteEmpty \/ OfSevenZ!StartFolders
  BY <1>3 DEF OfSevenZ!WriteEmpty, OfSevenZ!StartFolders
<1>4. ASSUME NEW g \in DOMAIN work,
             OfSevenZ!OpenFolder(g) \/ OfSevenZ!ReadLink(g) \/ OfSevenZ!CheckFile(g) \/ OfSevenZ!CreateFile(g)
               \/ OfSevenZ!FailFile(g) \/ OfSevenZ!CompleteFile(g) \/ OfSevenZ!CompleteFolder(g)
      PROVE  PlanMoves
  BY <1>4 DEF OfSevenZ!OpenFolder, OfSevenZ!ReadLink, OfSevenZ!CheckFile, OfSevenZ!CreateFile,
              OfSevenZ!FailFile, OfSevenZ!CompleteFile, OfSevenZ!CompleteFolder, OfSevenZ!InPool
<1>5. CASE OfSevenZ!KeepFailure \/ OfSevenZ!FoldersReturn
  BY <1>5 DEF OfSevenZ!KeepFailure, OfSevenZ!FoldersReturn
<1>6. CASE OfSevenZ!MakeLink \/ OfSevenZ!LinksEnd
  BY <1>6 DEF OfSevenZ!MakeLink, OfSevenZ!LinksEnd
<1>7. CASE OfSevenZ!Delete \/ OfSevenZ!DeleteThroughLink \/ OfSevenZ!DeletionsEnd
  BY <1>7 DEF OfSevenZ!Delete, OfSevenZ!DeleteThroughLink, OfSevenZ!DeletionsEnd
<1>8. CASE OfSevenZ!Seal \/ OfSevenZ!Finish \/ OfSevenZ!Ended
  BY <1>8 DEF OfSevenZ!Seal, OfSevenZ!Finish, OfSevenZ!Ended, OfSevenZ!vars
<1> QED
  BY <1>1, <1>2, <1>3, <1>4, <1>5, <1>6, <1>7, <1>8 DEF OfSevenZ!Next

(* So the plan is what build_plan makes of the archive and the options, and *)
(* has not failed when the extraction goes on.                              *)
Kinds(f) ==
  {"dir", "file", "link"} \cup (IF f = "tar" THEN {"hard", "special", "root"} ELSE {})
                          \cup (IF f = "7z" THEN {"anti", "opaque"} ELSE {})
PlanInv ==
  /\ format \in {"zip", "tar", "7z"}
  /\ IsArchive(archive) /\ IsOptions(options) /\ IsDestination(before)
  /\ \A i \in DOMAIN archive : archive[i].kind \in Kinds(format)
  /\ phase = "plan" => planned = NoPlan /\ tree = before
  /\ phase # "plan" => planned = BuildPlan(archive, options)
  /\ phase \notin {"plan", "err"} => ~ planned.failed

(* It holds at the start, of the inputs that are given,                     *)
LEMMA PlanInvInit == Init => PlanInv
<1> SUFFICES ASSUME Init PROVE PlanInv
  OBVIOUS
<1>1. /\ format \in {"zip", "tar", "7z"} /\ phase = "plan" /\ planned = NoPlan /\ tree = before
      /\ \E i \in Inputs : archive \in i.archives /\ options \in i.choices /\ before \in i.destinations /\ i.format = format
  BY OfZipTree, OfTarTree, OfSevenZTree DEF Init, OfZip!Init, OfTar!Init, OfSevenZ!Init, Of
<1>2. PICK i \in Inputs : archive \in i.archives /\ options \in i.choices /\ before \in i.destinations /\ i.format = format
  BY <1>1
<1>3. \A e \in ToSet(archive) : e.kind \in Kinds(format)
  <2>1. \A e \in ToSet(archive) : \/ e.kind \in {"dir", "file", "link"}
                                  \/ i.format = "tar" /\ e.kind \in {"hard", "special", "root"}
                                  \/ i.format = "7z" /\ e.kind \in {"anti", "opaque"}
    BY <1>2, InputsAssumption
  <2> QED
    BY <1>2, <2>1 DEF Kinds
<1>4. \A n \in DOMAIN archive : archive[n] \in ToSet(archive)
  BY DEF ToSet
<1> QED
  BY <1>1, <1>2, <1>3, <1>4, GivenInputs DEF PlanInv

(* no step breaks it,                                                       *)
LEMMA PlanInvNext == PlanInv /\ [Next]_vars => PlanInv'
<1> SUFFICES ASSUME PlanInv, [Next]_vars PROVE PlanInv'
  OBVIOUS
<1>1. CASE UNCHANGED vars
  BY <1>1 DEF PlanInv, vars, shared
<1>2. CASE Next
  <2>1. PlanMoves
    BY <1>2, ZipMoves, TarMoves, SevenZMoves DEF PlanInv
  <2> QED
    BY <2>1 DEF PlanInv, PlanMoves
<1> QED
  BY <1>1, <1>2

(* and so it holds throughout.                                              *)
LEMMA PlanInvAlways == Spec => []PlanInv
BY PlanInvInit, PlanInvNext, PTL DEF Spec

(* Of the selected entries for one path exactly one is planned, the first   *)
(* or the last as the options say, in the order of the archive: what        *)
(* build_plan computes is what IsPlan asks for, whatever the archive.       *)
THEOREM PlansAreKept == Spec => []PlanIsKept
<1>1. PlanInv => PlanIsKept
  <2> SUFFICES ASSUME PlanInv, phase \in {"directories", "entries"} PROVE IsPlan(planned.plan, archive, options)
    BY DEF PlanIsKept
  <2>1. IsArchive(archive) /\ IsOptions(options) /\ planned = BuildPlan(archive, options) /\ ~ planned.failed
    BY DEF PlanInv
  <2> QED
    BY <2>1, BuildPlanKeeps
<1> QED
  BY <1>1, PlanInvAlways, PTL

-----------------------------------------------------------------------------
(* What the plan holds at any time.                                         *)
LEMMA PlannedFacts ==
  ASSUME PlanInv
  PROVE  /\ planned \in Plans(archive, options)
         /\ planned.plan \in Seq(PlanItems(archive, options))
         /\ Len(planned.plan) \in Nat /\ DOMAIN planned.plan = 1 .. Len(planned.plan)
         /\ \A s \in DOMAIN planned.plan :
              /\ planned.plan[s].path \in Paths /\ planned.plan[s].index \in DOMAIN archive
              /\ planned.plan[s].index \in Nat
              /\ planned.plan[s].kind = archive[planned.plan[s].index].kind
         /\ \A n \in DOMAIN planned.anti : planned.anti[n].path \in Paths
         /\ DOMAIN planned.anti = 1 .. Len(planned.anti) /\ Len(planned.anti) \in Nat
<1>1. IsArchive(archive) /\ IsOptions(options)
  BY DEF PlanInv
<1>2. planned \in Plans(archive, options)
  <2>1. NoPlan \in Plans(archive, options)
    BY DEF NoPlan, Plans
  <2> QED
    BY <1>1, <2>1, BuildPlanType DEF PlanInv
<1>3. InPlace(archive, options) \subseteq DOMAIN archive /\ DOMAIN archive \subseteq Nat
  BY <1>1 DEF InPlace, IsArchive
<1> QED
  BY <1>1, <1>2, <1>3, PlansFacts

(* The paths an extraction may change: those its plan needs as directories, *)
(* and of the planned ones those that were free or may be replaced.         *)
Changeable ==
  {p \in Paths :
     \/ p \in Needed(planned.plan)
     \/ /\ \E s \in DOMAIN planned.plan : planned.plan[s].path = p
        /\ before[p] = Missing \/ options.overwrite = "always"}

(* A step from one destination to another that changes only those, and puts *)
(* no metadata on a directory.                                              *)
Moves(t, u) ==
  /\ IsTree(u)
  /\ Differs(t, u) \subseteq Changeable
  /\ SealedIn(t) = {} => SealedIn(u) = {}

(* Such steps add up, and leaving everything alone is one.                  *)
LEMMA MovesFacts ==
  /\ \A t : IsTree(t) => Moves(t, t)
  /\ \A t, u, v : Moves(t, u) /\ Moves(u, v) => Moves(t, v)
  /\ \A t : Unsealed(t) <=> SealedIn(t) = {}
BY DEF Moves, Differs, Unsealed, SealedIn

(* What the operations on the destination do is such a step: parents and    *)
(* directories of the plan,                                                 *)
LEMMA MakingMoves ==
  ASSUME PlanInv, NEW t, IsTree(t), NEW s \in DOMAIN planned.plan
  PROVE  /\ Moves(t, WithParents(t, planned.plan[s].path))
         /\ planned.plan[s].kind = "dir" => Moves(t, WithDirectories(t, planned.plan[s].path))
<1> DEFINE p == planned.plan[s].path
<1>1. p \in Paths
  BY PlannedFacts
<1>2. Above(p) \subseteq Needed(planned.plan) /\ (planned.plan[s].kind = "dir" => Ancestry(p) \subseteq Needed(planned.plan))
  BY NeededFacts
<1> HIDE DEF p
<1>3. Ancestry(p) \subseteq Paths /\ Above(p) \subseteq Paths
  BY <1>1, PathFacts DEF Above
<1>4. Moves(t, WithParents(t, p))
  BY <1>1, <1>2, <1>3, WithParentsFacts, MovesFacts DEF Moves, Changeable
<1>5. ASSUME planned.plan[s].kind = "dir" PROVE Moves(t, WithDirectories(t, p))
  BY <1>1, <1>2, <1>3, <1>5, WithDirectoriesFacts, MovesFacts DEF Moves, Changeable
<1> QED
  BY <1>4, <1>5 DEF p

(* a place that is cleared, a node that is set.                             *)
LEMMA SettingMoves ==
  ASSUME NEW t, IsTree(t), NEW p \in Changeable
  PROVE  /\ Moves(t, Cleared(t, p))
         /\ \A node \in Node : node.kind # "dir" => Moves(t, [t EXCEPT ![p] = node])
<1>1. Moves(t, Cleared(t, p))
  BY ClearedFacts, MovesFacts DEF Moves
<1>2. ASSUME NEW node \in Node, node.kind # "dir" PROVE Moves(t, [t EXCEPT ![p] = node])
  <2> DEFINE u == [t EXCEPT ![p] = node]
  <2>1. IsTree(u) /\ Differs(t, u) \subseteq {p} /\ (Unsealed(t) => Unsealed(u))
    BY <1>2, SetFacts
  <2> HIDE DEF u
  <2>2. Moves(t, u)
    BY <2>1, MovesFacts DEF Moves
  <2> QED
    BY <2>2 DEF u
<1> QED
  BY <1>1, <1>2

(* A planned place that is free, or may be replaced, is one of them: what   *)
(* is free now was free before, or was made by this extraction.             *)
LEMMA FreePlace ==
  ASSUME PlanInv, NEW t, Differs(before, t) \subseteq Changeable, NEW s \in DOMAIN planned.plan,
         ~ Taken(t, planned.plan[s].path) \/ options.overwrite = "always"
  PROVE  planned.plan[s].path \in Changeable
<1> DEFINE p == planned.plan[s].path
<1>1. p \in Paths /\ \E n \in DOMAIN planned.plan : planned.plan[n].path = p
  BY PlannedFacts
<1>2. ASSUME p \notin Changeable PROVE FALSE
  <2>1. options.overwrite # "always" /\ before[p] # Missing /\ t[p].kind = "none"
    BY <1>1, <1>2 DEF Changeable, Taken
  <2>2. t[p] = before[p]
    BY <1>1, <1>2 DEF Differs
  <2>3. before[p] \in [kind : {"none", "file", "dir", "link"}, by : {0}]
    BY <1>1 DEF PlanInv, IsDestination
  <2> QED
    BY <2>1, <2>2, <2>3 DEF Missing
<1> QED
  BY <1>2

-----------------------------------------------------------------------------
(* The slots of one kind, in the order of the plan.                         *)
SlotsOf(kind) == InOrder({s \in DOMAIN planned.plan : planned.plan[s].kind = kind}, <)
ItemsOf(kind) == [n \in DOMAIN SlotsOf(kind) |-> planned.plan[SlotsOf(kind)[n]]]

(* They are as many as the plan has of the kind, and each is planned.       *)
LEMMA SlotsFacts ==
  ASSUME PlanInv, NEW kind
  PROVE  /\ Len(SlotsOf(kind)) \in Nat /\ Len(SlotsOf(kind)) <= Len(planned.plan)
         /\ Len(ItemsOf(kind)) = Len(SlotsOf(kind)) /\ DOMAIN ItemsOf(kind) = 1 .. Len(SlotsOf(kind))
         /\ ItemsOf(kind) \in Seq(PlanItems(archive, options))
         /\ \A n \in 1 .. Len(SlotsOf(kind)) :
              /\ ItemsOf(kind)[n].kind = kind
              /\ \E s \in DOMAIN planned.plan : ItemsOf(kind)[n] = planned.plan[s]
<1> DEFINE D == DOMAIN planned.plan
           S == {s \in D : planned.plan[s].kind = kind}
           q == SlotsOf(kind)
           items == ItemsOf(kind)
<1>1. D = 1 .. Len(planned.plan) /\ Len(planned.plan) \in Nat /\ planned.plan \in Seq(PlanItems(archive, options))
  BY PlannedFacts
<1>2. IsFiniteSet(D) /\ Cardinality(D) = Len(planned.plan)
  BY <1>1, CountUpto
<1>3. IsFiniteSet(S) /\ Cardinality(S) <= Len(planned.plan) /\ Cardinality(S) \in Nat
  <2> HIDE DEF D
  <2>1. S \subseteq D
    OBVIOUS
  <2> QED
    BY <1>2, <2>1, FS_Subset, FS_CardinalityType
<1>4. S \in SUBSET Nat
  BY <1>1
<1>5. Sorted(q, S, Ascending(S))
  BY <1>3, <1>4, InOrderAscending DEF SlotsOf
<1>6. items = [n \in DOMAIN q |-> planned.plan[q[n]]]
  BY DEF ItemsOf
<1> HIDE DEF q, items, S
<1>7. Len(q) = Cardinality(S) /\ DOMAIN q = 1 .. Cardinality(S) /\ \A n \in DOMAIN q : q[n] \in S
  BY <1>5 DEF Sorted
<1>8. \A s \in D : planned.plan[s] \in PlanItems(archive, options)
  BY <1>1
<1>9. items = [n \in 1 .. Cardinality(S) |-> planned.plan[q[n]]] /\ \A n \in 1 .. Cardinality(S) : q[n] \in D /\ planned.plan[q[n]].kind = kind
  BY <1>6, <1>7 DEF S
<1> HIDE DEF D
<1>10. items \in Seq(PlanItems(archive, options)) /\ Len(items) = Cardinality(S)
  BY <1>3, <1>8, <1>9
<1> QED
  BY <1>3, <1>7, <1>9, <1>10 DEF q, items, D

(* They are those of a zip.                                                 *)
LEMMA OfZipSlots ==
  /\ \A kind : OfZip!Slots(kind) = SlotsOf(kind)
  /\ \A kind : OfZip!Items(kind) = ItemsOf(kind)
<1>1. \A kind : OfZip!Slots(kind) = SlotsOf(kind)
  BY DEF OfZip!Cardinality, Cardinality, OfZip!plan, OfZip!Slots, OfZip!InOrder, InOrder, SlotsOf
<1> QED
  BY <1>1 DEF OfZip!Items, ItemsOf, OfZip!plan

(* They stay while the plan does.                                           *)
LEMMA SlotsStay ==
  ASSUME planned' = planned
  PROVE  /\ \A kind : SlotsOf(kind)' = SlotsOf(kind)
         /\ \A kind : ItemsOf(kind)' = ItemsOf(kind)
         /\ options' = options /\ before' = before => Changeable' = Changeable
<1>1. \A kind : SlotsOf(kind)' = SlotsOf(kind)
  BY DEF SlotsOf, InOrder
<1>2. \A kind : ItemsOf(kind)' = ItemsOf(kind)
  BY <1>1 DEF ItemsOf
<1>3. ASSUME options' = options, before' = before PROVE Changeable' = Changeable
  BY <1>3 DEF Changeable
<1> QED
  BY <1>1, <1>2, <1>3

(* An item of them is a planned one, so the place of one that is free, or   *)
(* may be replaced, may change, and that of a directory in any case.        *)
LEMMA ItemPlace ==
  ASSUME PlanInv, NEW kind, NEW n \in 1 .. Len(SlotsOf(kind))
  PROVE  /\ ItemsOf(kind)[n].path \in Paths /\ ItemsOf(kind)[n].index \in Nat /\ ItemsOf(kind)[n].index \in DOMAIN archive
         /\ kind = "dir" => ItemsOf(kind)[n].path \in Changeable
         /\ \A t : /\ Differs(before, t) \subseteq Changeable
                   /\ ~ Taken(t, ItemsOf(kind)[n].path) \/ options.overwrite = "always"
                   => ItemsOf(kind)[n].path \in Changeable
<1>1. PICK s \in DOMAIN planned.plan : ItemsOf(kind)[n] = planned.plan[s]
  BY SlotsFacts
<1>2. planned.plan[s].kind = kind
  BY <1>1, SlotsFacts
<1>3. planned.plan[s].path \in Paths /\ planned.plan[s].index \in Nat /\ planned.plan[s].index \in DOMAIN archive
  BY PlannedFacts
<1>4. ASSUME kind = "dir" PROVE planned.plan[s].path \in Changeable
  <2>1. planned.plan[s].path \in Needed(planned.plan)
    BY <1>2, <1>3, <1>4, NeededFacts, PathFacts
  <2> QED
    BY <1>3, <2>1 DEF Changeable
<1> QED
  BY <1>1, <1>3, <1>4, FreePlace

-----------------------------------------------------------------------------
(* The directories whose metadata waits, in the order they were planned.    *)
Waiting ==
  CASE format = "zip" -> OfZip!Items("dir")
    [] format = "tar" -> OfTar!Directories
    [] format = "7z"  -> OfSevenZ!Directories

(* What holds of the destination: only what may change has changed, and     *)
(* metadata is on those directories only whose turn has come.               *)
TreeInv ==
  /\ IsTree(tree)
  /\ format # "7z" => Differs(before, tree) \subseteq Changeable
  /\ phase \notin {"seal", "done", "err"} => SealedIn(tree) = {}
  /\ phase = "seal" => SealedIn(tree) \subseteq DoneFirst(Waiting, at)

(* What a step does to it.                                                  *)
TreeStep ==
  /\ IsTree(tree')
  /\ format # "7z" => Differs(tree, tree') \subseteq Changeable
  /\ \A p \in Differs(tree, tree') : Above(p) \cap SealedIn(tree) = {}
  /\ phase \in {"done", "err"} => phase' = phase
  /\ phase = "seal" => phase' \in {"seal", "done"}
  /\ phase \notin {"seal", "done", "err"} => SealedIn(tree') = {}
  /\ phase = "seal" /\ phase' = "seal" => SealedIn(tree') \subseteq DoneFirst(Waiting', at')

(* It holds at the start,                                                   *)
LEMMA TreeInvInit == Init => TreeInv
<1> SUFFICES ASSUME Init PROVE TreeInv
  OBVIOUS
<1>1. phase = "plan" /\ tree = before /\ IsDestination(before)
  <2>1. phase = "plan" /\ tree = before
    BY DEF Init, OfZip!Init, OfTar!Init, OfSevenZ!Init
  <2> QED
    BY <2>1, PlanInvInit DEF PlanInv
<1>2. IsTree(before) /\ SealedIn(before) = {}
  BY <1>1 DEF IsDestination, IsTree, Node, SealedIn
<1> QED
  BY <1>1, <1>2 DEF TreeInv, Differs

(* and is kept by a step that does only this.                               *)
LEMMA TreeInvNext ==
  ASSUME PlanInv, TreeInv, PlanMoves, TreeStep
  PROVE  TreeInv'
<1>1. IsTree(tree')
  BY DEF TreeStep
<1>2. ASSUME format # "7z" PROVE Differs(before, tree') \subseteq Changeable'
  <2>1. CASE phase = "plan"
    BY <2>1 DEF PlanMoves, PlanInv, Differs
  <2>2. CASE phase # "plan"
    <3>1. Changeable' = Changeable
      BY <2>2 DEF PlanMoves, Changeable
    <3>2. Differs(before, tree) \subseteq Changeable /\ Differs(tree, tree') \subseteq Changeable
      BY <1>2 DEF TreeInv, TreeStep
    <3> QED
      BY <3>1, <3>2 DEF Differs
  <2> QED
    BY <2>1, <2>2
<1>3. phase' \notin {"seal", "done", "err"} => SealedIn(tree') = {}
  BY DEF TreeStep
<1>4. phase' = "seal" => SealedIn(tree') \subseteq DoneFirst(Waiting', at')
  BY DEF TreeStep
<1>5. before' = before /\ format' = format
  BY DEF PlanMoves
<1> QED
  BY <1>1, <1>2, <1>3, <1>4, <1>5 DEF TreeInv

(* A step before the metadata, and one that leaves the destination alone.   *)
LEMMA MoveIsStep ==
  ASSUME TreeInv, Moves(tree, tree'), phase \notin {"seal", "done", "err"}
  PROVE  TreeStep
BY DEF TreeInv, TreeStep, Moves

(* A step that leaves the destination alone.                                *)
LEMMA NoMoveIsStep ==
  ASSUME TreeInv, tree' = tree, phase \notin {"seal", "done", "err"}
  PROVE  TreeStep
BY MovesFacts, MoveIsStep DEF TreeInv

-----------------------------------------------------------------------------
(* A zip.  Of the files that a worker has begun each was free, or may be    *)
(* replaced, when it was looked at.                                         *)
ZipInv ==
  /\ at \in Nat
  /\ phase = "files" =>
       /\ DOMAIN work = 0 .. Len(SlotsOf("file")) - 1
       /\ \A i \in DOMAIN work : work[i] \in {"open", "partial"} => ItemsOf("file")[i + 1].path \in Changeable

(* Every step of a zip keeps to it.                                         *)
LEMMA ZipStep ==
  ASSUME PlanInv, TreeInv, ZipInv, format = "zip", OfZip!Next, UNCHANGED format
  PROVE  TreeStep /\ ZipInv'
<1>0. /\ IsTree(tree) /\ Differs(before, tree) \subseteq Changeable /\ at \in Nat
      /\ \A t : Moves(t, t) <=> IsTree(t)
  BY MovesFacts DEF TreeInv, ZipInv, Moves
<1>1. CASE OfZip!Plan
  <2>1. phase = "plan" /\ tree' = tree /\ at' = at /\ phase' # "files"
    BY <1>1 DEF OfZip!Plan
  <2> QED
    BY <1>0, <2>1, NoMoveIsStep DEF ZipInv
<1>2. CASE OfZip!MakeDirectory
  <2>1. at + 1 \in DOMAIN planned.plan /\ planned.plan[at + 1].kind = "dir" /\ phase = "directories"
    BY <1>0, <1>2, PlannedFacts DEF OfZip!MakeDirectory, OfZip!plan
  <2>2. tree' = tree \/ tree' = WithDirectories(tree, planned.plan[at + 1].path)
    BY <1>2, OfZipTree DEF OfZip!MakeDirectory, OfZip!plan
  <2>3. Moves(tree, tree')
    BY <1>0, <2>1, <2>2, MakingMoves
  <2>4. at' \in Nat /\ phase' \in {"directories", "err"}
    BY <1>0, <1>2 DEF OfZip!MakeDirectory, OfZip!Fails
  <2> QED
    BY <2>1, <2>3, <2>4, MoveIsStep DEF ZipInv
<1>3. CASE OfZip!MakeParents
  <2>1. at + 1 \in DOMAIN planned.plan /\ phase = "directories"
    BY <1>0, <1>3, PlannedFacts DEF OfZip!MakeParents, OfZip!plan
  <2>2. tree' = tree \/ tree' = WithParents(tree, planned.plan[at + 1].path)
    BY <1>3, OfZipTree DEF OfZip!MakeParents, OfZip!plan
  <2>3. Moves(tree, tree')
    BY <1>0, <2>1, <2>2, MakingMoves
  <2>4. at' \in Nat /\ phase' \in {"directories", "err"}
    BY <1>0, <1>3 DEF OfZip!MakeParents, OfZip!Fails
  <2> QED
    BY <2>1, <2>3, <2>4, MoveIsStep DEF ZipInv
<1>4. CASE OfZip!StartFiles
  <2>1. phase = "directories" /\ phase' = "files" /\ at' = 0 /\ tree' = tree /\ planned' = planned
    BY <1>4 DEF OfZip!StartFiles
  <2>2. work' = [i \in 0 .. Len(SlotsOf("file")) - 1 |-> "todo"]
    BY <1>4, OfZipSlots DEF OfZip!StartFiles
  <2>3. SlotsOf("file")' = SlotsOf("file")
    BY <2>1, SlotsStay
  <2> QED
    BY <2>1, <2>2, <2>3, NoMoveIsStep DEF ZipInv
<1>5. ASSUME NEW i \in DOMAIN work,
             OfZip!CheckFile(i) \/ OfZip!CreateFile(i) \/ OfZip!FailFile(i) \/ OfZip!CompleteFile(i)
      PROVE  TreeStep /\ ZipInv'
  <2> DEFINE p == ItemsOf("file")[i + 1].path
             e == ItemsOf("file")[i + 1].index
  <2>1. phase = "files" /\ UNCHANGED <<archive, options, before, phase, planned, at>>
    BY <1>5 DEF OfZip!CheckFile, OfZip!CreateFile, OfZip!FailFile, OfZip!CompleteFile, OfZip!InPool, OfZip!input
  <2>2. i + 1 \in 1 .. Len(SlotsOf("file")) /\ DOMAIN work = 0 .. Len(SlotsOf("file")) - 1
    <3>1. Len(SlotsOf("file")) \in Nat
      BY SlotsFacts
    <3> QED
      BY <2>1, <3>1 DEF ZipInv
  <2>3. OfZip!Target(i) = p /\ OfZip!Entry(i) = e
    BY OfZipSlots DEF OfZip!Target, OfZip!Entry
  <2>4. p \in Paths /\ e \in Nat /\ (~ Taken(tree, p) \/ options.overwrite = "always" => p \in Changeable)
    BY <1>0, <2>2, ItemPlace
  <2>5. work[i] \in {"open", "partial"} => p \in Changeable
    BY <2>1 DEF ZipInv
  <2>6. Changeable' = Changeable /\ SlotsOf("file")' = SlotsOf("file") /\ ItemsOf("file")' = ItemsOf("file")
    BY <2>1, SlotsStay
  <2> HIDE DEF p, e
  <2>7. /\ Moves(tree, tree')
        /\ \E s : work' = [work EXCEPT ![i] = s] /\ (s \in {"open", "partial"} => p \in Changeable)
    <3>1. CASE OfZip!CheckFile(i)
      <4>1. \/ /\ ~ Taken(tree, p) \/ options.overwrite = "always"
               /\ tree' = Cleared(tree, p) /\ work' = [work EXCEPT ![i] = "open"]
            \/ tree' = tree /\ \E s \in {"skipped", "dead"} : work' = [work EXCEPT ![i] = s]
        BY <2>3, <3>1, OfZipTree DEF OfZip!CheckFile, OfZip!Becomes
      <4> QED
        BY <1>0, <2>4, <4>1, SettingMoves
    <3>2. CASE OfZip!CreateFile(i)
      <4>1. /\ work[i] = "open"
            /\ \/ tree' = tree /\ \E s \in {"partial", "dead"} : work' = [work EXCEPT ![i] = s]
               \/ /\ tree' = [tree EXCEPT ![p] = [kind |-> "partial", by |-> e]]
                  /\ work' = [work EXCEPT ![i] = "partial"]
        BY <2>3, <3>2 DEF OfZip!CreateFile, OfZip!Becomes, OfZip!InPool
      <4>2. [kind |-> "partial", by |-> e] \in Node
        BY <2>4 DEF Node
      <4> QED
        BY <1>0, <2>5, <4>1, <4>2, SettingMoves
    <3>3. CASE OfZip!FailFile(i)
      <4>1. tree' = tree /\ work' = [work EXCEPT ![i] = "dead"]
        BY <3>3 DEF OfZip!FailFile, OfZip!Becomes
      <4>2. Moves(tree, tree')
        BY <1>0, <4>1
      <4>3. "dead" \notin {"open", "partial"}
        OBVIOUS
      <4> QED
        BY <4>1, <4>2, <4>3, Zenon
    <3>4. CASE OfZip!CompleteFile(i)
      <4>1. /\ work[i] = "partial" /\ work' = [work EXCEPT ![i] = "done"]
            /\ tree' = IF tree[p].kind = "partial" THEN [tree EXCEPT ![p].kind = "file"] ELSE tree
        BY <2>3, <3>4 DEF OfZip!CompleteFile, OfZip!Becomes, OfZip!InPool
      <4>2. tree[p] \in Node
        BY <1>0, <2>4 DEF IsTree
      <4>3. [tree[p] EXCEPT !.kind = "file"] = [kind |-> "file", by |-> tree[p].by]
        BY <4>2 DEF Node
      <4>5. tree' = tree \/ tree' = [tree EXCEPT ![p] = [kind |-> "file", by |-> tree[p].by]]
        BY <4>1, <4>3
      <4>4. [kind |-> "file", by |-> tree[p].by] \in Node
        BY <4>2 DEF Node
      <4> QED
        BY <1>0, <2>5, <4>1, <4>4, <4>5, SettingMoves
    <3> QED
      BY <1>5, <3>1, <3>2, <3>3, <3>4
  <2>8. TreeStep
    BY <2>1, <2>7, MoveIsStep
  <2>9. ZipInv'
    <3>1. PICK s : work' = [work EXCEPT ![i] = s] /\ (s \in {"open", "partial"} => p \in Changeable)
      BY <2>7
    <3>2. \A j \in DOMAIN work : work'[j] \in {"open", "partial"} => ItemsOf("file")[j + 1].path \in Changeable
      BY <2>1, <3>1 DEF ZipInv, p
    <3> HIDE DEF SlotsOf, ItemsOf, Changeable
    <3> QED
      BY <1>0, <2>1, <2>2, <2>6, <3>1, <3>2 DEF ZipInv
  <2> QED
    BY <2>8, <2>9
<1>6. CASE OfZip!OpenFails \/ OfZip!KeepFailure
  <2>1. phase = "files" /\ UNCHANGED <<archive, options, before, tree, phase, planned, at, work>>
    BY <1>6 DEF OfZip!OpenFails, OfZip!KeepFailure, OfZip!input
  <2>2. Changeable' = Changeable /\ SlotsOf("file")' = SlotsOf("file") /\ ItemsOf("file")' = ItemsOf("file")
    BY <2>1, SlotsStay
  <2> QED
    BY <2>1, <2>2, NoMoveIsStep DEF ZipInv
<1>7. CASE OfZip!FilesReturn
  <2>1. phase = "files" /\ tree' = tree /\ at' = at /\ phase' \in {"links", "seal", "err"}
    BY <1>7 DEF OfZip!FilesReturn
  <2> QED
    BY <1>0, <2>1, NoMoveIsStep DEF ZipInv
<1>8. CASE OfZip!MakeLink
  <2> DEFINE p == ItemsOf("link")[at + 1].path
             e == ItemsOf("link")[at + 1].index
  <2>1. phase = "links" /\ phase' = "links" /\ at' \in Nat /\ at + 1 \in 1 .. Len(SlotsOf("link"))
    <3>1. Len(SlotsOf("link")) \in Nat
      BY SlotsFacts
    <3> QED
      BY <1>0, <1>8, <3>1, OfZipSlots DEF OfZip!MakeLink, OfZip!NextLink
  <2>2. p \in Paths /\ e \in Nat /\ (~ Taken(tree, p) \/ options.overwrite = "always" => p \in Changeable)
    BY <1>0, <2>1, ItemPlace
  <2>3. OfZip!link.path = p /\ OfZip!link.index = e
    BY OfZipSlots DEF OfZip!link
  <2> HIDE DEF p, e
  <2>4. \/ tree' = tree
        \/ /\ ~ Taken(tree, p) \/ options.overwrite = "always"
           /\ tree' = [tree EXCEPT ![p] = [kind |-> "link", by |-> e]]
    BY <1>8, <2>3, OfZipTree DEF OfZip!MakeLink
  <2>5. [kind |-> "link", by |-> e] \in Node
    BY <2>2 DEF Node
  <2>6. Moves(tree, tree')
    BY <1>0, <2>2, <2>4, <2>5, SettingMoves
  <2> QED
    BY <2>1, <2>6, MoveIsStep DEF ZipInv
<1>9. CASE OfZip!LinkFails \/ OfZip!LinksEnd
  <2>1. phase = "links" /\ tree' = tree /\ at' \in Nat /\ phase' \in {"seal", "err"}
    BY <1>0, <1>9 DEF OfZip!LinkFails, OfZip!LinksEnd, OfZip!Fails
  <2> QED
    BY <2>1, NoMoveIsStep DEF ZipInv
<1>10. CASE OfZip!Seal
  <2> DEFINE items == ItemsOf("dir")
             item == items[DeepestFirst(items)[at + 1]]
  <2>1. /\ items \in Seq(PlanItems(archive, options)) /\ DOMAIN items = 1 .. Len(SlotsOf("dir"))
        /\ Len(items) = Len(SlotsOf("dir"))
        /\ \A n \in DOMAIN items : items[n].path \in Paths /\ items[n].index \in Nat /\ items[n].path \in Changeable
    BY SlotsFacts, ItemPlace
  <2>2. OfZip!Items("dir") = items /\ OfZip!SealOrder = DeepestFirst(items)
    BY OfZipSlots, OfZipOrder DEF OfZip!SealOrder
  <2>3. Waiting = items /\ Waiting' = items
    <3>1. planned' = planned
      BY <1>10 DEF OfZip!Seal
    <3>2. OfZip!Items("dir")' = OfZip!Items("dir")
      BY <3>1 DEF OfZip!Items, OfZip!Slots, OfZip!InOrder, OfZip!plan
    <3> QED
      BY <2>2, <3>2 DEF Waiting
  <2>4. Len(DeepestFirst(items)) = Len(items)
    <3> HIDE DEF items
    <3>1. Sorted(DeepestFirst(items), DOMAIN items, Deeper(items))
      BY <2>1, DeepestFirstSorts
    <3>2. Cardinality(DOMAIN items) = Len(items)
      BY SMTT(40), <2>1, CountUpto
    <3> QED
      BY <3>1, <3>2 DEF Sorted
  <2> HIDE DEF items
  <2>5. /\ phase = "seal" /\ phase' = "seal" /\ at' = at + 1 /\ at < Len(items)
        /\ tree' = IF tree[item.path].kind = "none" THEN tree ELSE [tree EXCEPT ![item.path].by = item.index]
    BY <1>10, <2>2, <2>4 DEF OfZip!Seal
  <2>6. SealedIn(tree) \subseteq DoneFirst(items, at)
    BY <2>3, <2>5 DEF TreeInv
  <2> HIDE DEF item
  <2>7. /\ \E n \in DOMAIN items : item = items[n]
        /\ IsTree(tree') /\ Differs(tree, tree') \subseteq {item.path}
        /\ \A p \in Differs(tree, tree') : Above(p) \cap SealedIn(tree) = {}
        /\ SealedIn(tree') \subseteq DoneFirst(items, at + 1)
    <3>1. item = NextOf(items, at) /\ Seals(item, tree, tree')
      BY <2>5 DEF item, NextOf, Seals
    <3>2. items \in Seq(PlanItems(archive, options)) /\ HavePaths(items)
      BY <2>1 DEF HavePaths
    <3>3. at \in Nat /\ at < Len(items) /\ IsTree(tree) /\ SealedIn(tree) \subseteq DoneFirst(items, at)
      BY <1>0, <2>5, <2>6
    <3> QED
      BY <3>1, <3>2, <3>3, SealFacts
  <2>8. item.path \in Changeable
    BY <2>1, <2>7
  <2> QED
    <3>1. Differs(tree, tree') \subseteq Changeable
      BY <2>7, <2>8
    <3>2. at' \in Nat /\ DoneFirst(Waiting', at') = DoneFirst(items, at + 1)
      BY <1>0, <2>3, <2>5
    <3> QED
      BY <2>5, <2>7, <3>1, <3>2 DEF TreeStep, ZipInv
<1>11. CASE OfZip!Finish \/ OfZip!Ended
  <2>1. /\ tree' = tree /\ at' = at /\ phase \in {"seal", "done", "err"} /\ phase' \in {"done", "err"}
        /\ phase \in {"done", "err"} => phase' = phase
        /\ phase = "seal" => phase' = "done"
    BY <1>11 DEF OfZip!Finish, OfZip!Ended, OfZip!vars
  <2>2. Differs(tree, tree') = {}
    BY <2>1 DEF Differs
  <2> QED
    BY <1>0, <2>1, <2>2 DEF TreeStep, ZipInv
<1> QED
  BY <1>1, <1>2, <1>3, <1>4, <1>5, <1>6, <1>7, <1>8, <1>9, <1>10, <1>11 DEF OfZip!Next

-----------------------------------------------------------------------------
(* A tar.  What waits are slots of the plan: bodies whose places were free, *)
(* or may be replaced, when the loop looked at them, hard links to a name   *)
(* that stripping leaves something of, and directories.                     *)
BodySlots == {s \in DOMAIN planned.plan : planned.plan[s].path \in Changeable}
SourceOf(s) == StripLeading(archive[planned.plan[s].index].to, StripDepth(archive, options))
LinkSlots == {s \in DOMAIN planned.plan : planned.plan[s].kind = "hard" /\ SourceOf(s) # <<>>}
DirSlots == {s \in DOMAIN planned.plan : planned.plan[s].kind = "dir"}

TarInv ==
  /\ at \in Nat
  /\ bodies \in Seq(BodySlots) /\ pending \in Seq(LinkSlots) /\ directories \in Seq(DirSlots)
  /\ phase = "plan" => bodies = <<>> /\ pending = <<>> /\ directories = <<>>
  /\ phase = "bodies" => DOMAIN work = 0 .. Len(bodies) - 1

(* These depend on nothing but the plan and what it was made for.           *)
LEMMA TarSlotsStay ==
  ASSUME planned' = planned, archive' = archive, options' = options, before' = before
  PROVE  BodySlots' = BodySlots /\ LinkSlots' = LinkSlots /\ DirSlots' = DirSlots
<1>1. Changeable' = Changeable
  BY SlotsStay
<1>2. StripDepth(archive', options') = StripDepth(archive, options)
  OBVIOUS
<1>3. \A s : SourceOf(s)' = SourceOf(s)
  BY <1>2 DEF SourceOf, StripLeading
<1> QED
  BY <1>1, <1>3 DEF BodySlots, LinkSlots, DirSlots

(* What has changed stays among what may change.                            *)
LEMMA MovesKeep ==
  ASSUME NEW t, NEW u, Differs(before, t) \subseteq Changeable, Moves(t, u)
  PROVE  Differs(before, u) \subseteq Changeable
BY DEF Moves, Differs

(* The name a hard link points at is a path.                                *)
LEMMA SourceIsPath ==
  ASSUME PlanInv, NEW s \in LinkSlots
  PROVE  SourceOf(s) \in Paths
<1> DEFINE e == archive[planned.plan[s].index]
           d == StripDepth(archive, options)
<1>1. s \in DOMAIN planned.plan /\ planned.plan[s].kind = "hard" /\ SourceOf(s) # <<>>
  BY DEF LinkSlots
<1>2. planned.plan[s].index \in DOMAIN archive /\ e.kind = "hard"
  BY <1>1, PlannedFacts
<1>3. e.to \in Paths \cup {<<>>} /\ d \in Nat
  BY <1>2, PathOfFacts DEF PlanInv, IsArchive
<1>4. SourceOf(s) = StripLeading(e.to, d)
  BY DEF SourceOf
<1> HIDE DEF e, d
<1> QED
  BY <1>1, <1>3, <1>4, StripFacts

(* The loop: a planned entry is looked at.                                  *)
LEMMA TarLoop ==
  ASSUME PlanInv, TreeInv, TarInv, format = "tar", phase = "entries", at < Len(planned.plan),
         UNCHANGED <<archive, options, before, planned, format>>,
         at' \in Nat, phase' \in {"entries", "err"}, Moves(tree, tree'),
         bodies' = bodies \/ (bodies' = Append(bodies, at + 1) /\ at + 1 \in BodySlots),
         pending' = pending \/ (pending' = Append(pending, at + 1) /\ at + 1 \in LinkSlots),
         directories' = directories \/ (directories' = Append(directories, at + 1) /\ at + 1 \in DirSlots)
  PROVE  TreeStep /\ TarInv'
<1>1. TreeStep
  BY MoveIsStep
<1>2. BodySlots' = BodySlots /\ LinkSlots' = LinkSlots /\ DirSlots' = DirSlots
  BY TarSlotsStay
<1>3. bodies' \in Seq(BodySlots) /\ pending' \in Seq(LinkSlots) /\ directories' \in Seq(DirSlots)
  <2>1. bodies \in Seq(BodySlots) /\ pending \in Seq(LinkSlots) /\ directories \in Seq(DirSlots)
    BY DEF TarInv
  <2>2. \A S : \A q \in Seq(S) : \A x \in S : Append(q, x) \in Seq(S)
    OBVIOUS
  <2> QED
    BY <2>1, <2>2
<1> QED
  BY <1>1, <1>2, <1>3 DEF TarInv

(* What the steps after the loop leave alone.                               *)
LEMMA TarAfterLoop ==
  ASSUME PlanInv, TreeInv, TarInv, phase \in {"bodies", "hardlinks"},
         UNCHANGED <<archive, options, before, planned, format, bodies, pending, directories>>,
         at' \in Nat, phase' \in {"bodies", "hardlinks", "seal", "err"}, Moves(tree, tree'),
         phase' = "bodies" => phase = "bodies" /\ DOMAIN work' = DOMAIN work
  PROVE  TreeStep /\ TarInv'
<1>1. TreeStep
  BY MoveIsStep
<1>2. BodySlots' = BodySlots /\ LinkSlots' = LinkSlots /\ DirSlots' = DirSlots
  BY TarSlotsStay
<1> QED
  BY <1>1, <1>2 DEF TarInv

(* Every step of a tar keeps to it.                                         *)
LEMMA TarStep ==
  ASSUME PlanInv, TreeInv, TarInv, format = "tar", OfTar!Next, UNCHANGED format
  PROVE  TreeStep /\ TarInv'
<1> DEFINE s == at + 1
           path == planned.plan[s].path
           there == WithParents(tree, path)
<1>0. /\ IsTree(tree) /\ Differs(before, tree) \subseteq Changeable /\ at \in Nat
      /\ \A t : Moves(t, t) <=> IsTree(t)
      /\ OfTar!plan = planned.plan
  BY MovesFacts DEF TreeInv, TarInv, Moves, OfTar!plan
<1>a. ASSUME at < Len(planned.plan)
      PROVE  /\ s \in DOMAIN planned.plan /\ path \in Paths /\ planned.plan[s].index \in Nat
             /\ Moves(tree, there) /\ IsTree(there) /\ Differs(before, there) \subseteq Changeable
             /\ ~ Taken(there, path) \/ options.overwrite = "always" => path \in Changeable
  <2>1. s \in DOMAIN planned.plan
    BY <1>0, <1>a, PlannedFacts
  <2> HIDE DEF s
  <2>2. path \in Paths /\ planned.plan[s].index \in Nat
    BY <2>1, PlannedFacts
  <2>3. Moves(tree, there)
    BY <1>0, <2>1, MakingMoves
  <2>4. IsTree(there) /\ Differs(before, there) \subseteq Changeable
    BY <1>0, <2>3, MovesKeep DEF Moves
  <2> QED
    BY <2>1, <2>2, <2>3, <2>4, FreePlace
<1>1. CASE OfTar!Plan
  <2>1. phase = "plan" /\ phase' \in {"entries", "err"} /\ tree' = tree /\ UNCHANGED <<at, bodies, pending, directories>>
    BY <1>1 DEF OfTar!Plan, OfTar!waiting
  <2> QED
    BY <1>0, <2>1, NoMoveIsStep DEF TarInv
<1>2. CASE OfTar!HardLinkEntry
  <2>1. /\ phase = "entries" /\ at < Len(planned.plan) /\ planned.plan[s].kind = "hard"
        /\ UNCHANGED <<archive, options, before, planned, tree, bodies, directories>>
        /\ at' \in Nat /\ phase' \in {"entries", "err"}
    BY <1>0, <1>2 DEF OfTar!HardLinkEntry, OfTar!InLoop, OfTar!Onward, OfTar!Stopped, OfTar!input, OfTar!item, OfTar!waiting
  <2>2. OfTar!LinkedName(OfTar!entry) = SourceOf(s)
    BY <1>0, OfTarPlan DEF OfTar!LinkedName, OfTar!entry, OfTar!item, SourceOf
  <2>3. pending' = pending \/ (pending' = Append(pending, s) /\ SourceOf(s) # <<>>)
    BY <1>2, <2>2 DEF OfTar!HardLinkEntry, OfTar!Stopped, OfTar!waiting
  <2>4. SourceOf(s) # <<>> => s \in LinkSlots
    BY <1>a, <2>1 DEF LinkSlots
  <2> QED
    BY <1>0, <2>1, <2>3, <2>4, TarLoop
<1>3. CASE OfTar!SpecialEntry
  <2>1. /\ phase = "entries" /\ at < Len(planned.plan)
        /\ UNCHANGED <<archive, options, before, planned, tree, bodies, pending, directories>>
        /\ at' \in Nat /\ phase' \in {"entries", "err"}
    BY <1>0, <1>3 DEF OfTar!SpecialEntry, OfTar!InLoop, OfTar!Onward, OfTar!input, OfTar!waiting
  <2> QED
    BY <1>0, <2>1, TarLoop
<1>4. CASE OfTar!DirectoryEntry
  <2>1. /\ phase = "entries" /\ at < Len(planned.plan) /\ planned.plan[s].kind = "dir"
        /\ UNCHANGED <<archive, options, before, planned, bodies, pending>>
        /\ at' \in Nat /\ phase' \in {"entries", "err"}
        /\ directories' \in {directories, Append(directories, s)}
    BY <1>0, <1>4 DEF OfTar!DirectoryEntry, OfTar!InLoop, OfTar!Onward, OfTar!Stopped, OfTar!input, OfTar!item, OfTar!waiting
  <2>2. tree' = tree \/ tree' = WithDirectories(tree, path)
    BY <1>0, <1>4, OfTarTree DEF OfTar!DirectoryEntry, OfTar!item
  <2>3. Moves(tree, tree') /\ s \in DirSlots
    BY <1>0, <1>a, <2>1, <2>2, MakingMoves DEF DirSlots
  <2> QED
    BY <2>1, <2>3, TarLoop
<1>5. CASE OfTar!LinkEntry
  <2>1. /\ phase = "entries" /\ at < Len(planned.plan)
        /\ UNCHANGED <<archive, options, before, planned, bodies, pending, directories>>
        /\ at' \in Nat /\ phase' \in {"entries", "err"}
    BY <1>0, <1>5 DEF OfTar!LinkEntry, OfTar!InLoop, OfTar!Onward, OfTar!Stopped, OfTar!input, OfTar!waiting
  <2>2. \/ tree' = tree \/ tree' = there
        \/ /\ ~ Taken(there, path) \/ options.overwrite = "always"
           /\ tree' = [there EXCEPT ![path] = [kind |-> "link", by |-> planned.plan[s].index]]
    BY <1>0, <1>5, OfTarTree DEF OfTar!LinkEntry, OfTar!item
  <2> HIDE DEF path, there
  <2>3. Moves(tree, tree')
    <3>1. [kind |-> "link", by |-> planned.plan[s].index] \in Node
      BY <1>a, <2>1 DEF Node
    <3>2. \/ Moves(tree, tree')
          \/ Moves(there, tree')
      BY <1>0, <1>a, <2>1, <2>2, <3>1, SettingMoves
    <3> QED
      BY <1>a, <2>1, <3>2, MovesFacts
  <2> QED
    BY <2>1, <2>3, TarLoop
<1>6. CASE OfTar!FileEntry
  <2>1. /\ phase = "entries" /\ at < Len(planned.plan)
        /\ UNCHANGED <<archive, options, before, planned, pending, directories>>
        /\ at' \in Nat /\ phase' \in {"entries", "err"}
    BY <1>0, <1>6 DEF OfTar!FileEntry, OfTar!InLoop, OfTar!Onward, OfTar!Stopped, OfTar!input, OfTar!waiting
  <2>2. \/ bodies' = bodies /\ (tree' = tree \/ tree' = there)
        \/ /\ ~ Taken(there, path) \/ options.overwrite = "always"
           /\ tree' = Cleared(there, path) /\ bodies' = Append(bodies, s)
    BY <1>0, <1>6, OfTarTree DEF OfTar!FileEntry, OfTar!item, OfTar!Stopped, OfTar!waiting
  <2> HIDE DEF path, there
  <2>3. Moves(tree, tree')
    <3>1. \/ Moves(tree, tree')
          \/ Moves(there, tree')
      BY <1>0, <1>a, <2>1, <2>2, SettingMoves
    <3> QED
      BY <1>a, <2>1, <3>1, MovesFacts
  <2>4. bodies' = bodies \/ (bodies' = Append(bodies, s) /\ s \in BodySlots)
    BY <1>a, <2>1, <2>2 DEF BodySlots, path
  <2> QED
    BY <2>1, <2>3, <2>4, TarLoop
<1>7. CASE OfTar!StartBodies
  <2>1. /\ phase = "entries" /\ phase' = "bodies" /\ at' = 0 /\ tree' = tree
        /\ UNCHANGED <<archive, options, before, planned, bodies, pending, directories>>
        /\ work' = [i \in 0 .. Len(bodies) - 1 |-> "todo"]
    BY <1>7 DEF OfTar!StartBodies, OfTar!input, OfTar!waiting
  <2>2. BodySlots' = BodySlots /\ LinkSlots' = LinkSlots /\ DirSlots' = DirSlots
    BY <2>1, TarSlotsStay
  <2> QED
    BY <2>1, <2>2, NoMoveIsStep DEF TarInv
<1>8. ASSUME NEW i \in DOMAIN work, OfTar!CreateBody(i) \/ OfTar!FailBody(i) \/ OfTar!CompleteBody(i)
      PROVE  TreeStep /\ TarInv'
  <2> DEFINE p == planned.plan[bodies[i + 1]].path
             e == planned.plan[bodies[i + 1]].index
  <2>1. /\ phase = "bodies" /\ phase' = "bodies"
        /\ UNCHANGED <<archive, options, before, planned, at, bodies, pending, directories>>
        /\ \E b : work' = [work EXCEPT ![i] = b]
    BY <1>8 DEF OfTar!CreateBody, OfTar!FailBody, OfTar!CompleteBody, OfTar!InPool, OfTar!Becomes, OfTar!input, OfTar!waiting
  <2>2. i + 1 \in 1 .. Len(bodies)
    <3>1. Len(bodies) \in Nat /\ DOMAIN work = 0 .. Len(bodies) - 1
      BY <2>1 DEF TarInv
    <3> QED
      BY <3>1
  <2>3. bodies[i + 1] \in BodySlots
    BY <2>2 DEF TarInv
  <2>4. p \in Changeable /\ p \in Paths /\ e \in Nat
    BY <2>3, PlannedFacts DEF BodySlots
  <2>5. OfTar!Target(i) = p
    BY DEF OfTar!Target, OfTar!plan
  <2>6. \/ tree' = tree
        \/ tree' = [tree EXCEPT ![p] = [kind |-> "partial", by |-> e]]
        \/ tree' = IF tree[p].kind = "partial" THEN [tree EXCEPT ![p].kind = "file"] ELSE tree
    <3> HIDE DEF p
    <3> QED
      BY <1>0, <1>8, <2>5 DEF OfTar!CreateBody, OfTar!FailBody, OfTar!CompleteBody
  <2> HIDE DEF p, e
  <2>7. tree[p] \in Node
    BY <1>0, <2>4 DEF IsTree
  <2>8. [tree[p] EXCEPT !.kind = "file"] = [kind |-> "file", by |-> tree[p].by]
    BY <2>7 DEF Node
  <2>9. [kind |-> "file", by |-> tree[p].by] \in Node /\ [kind |-> "partial", by |-> e] \in Node
    BY <2>4, <2>7 DEF Node
  <2>10. \/ tree' = tree
         \/ tree' = [tree EXCEPT ![p] = [kind |-> "partial", by |-> e]]
         \/ tree' = [tree EXCEPT ![p] = [kind |-> "file", by |-> tree[p].by]]
    BY <2>6, <2>8
  <2>11. Moves(tree, tree')
    BY <1>0, <2>4, <2>9, <2>10, SettingMoves
  <2>12. at' \in Nat /\ DOMAIN work' = DOMAIN work
    BY <1>0, <2>1
  <2> QED
    BY <2>1, <2>11, <2>12, TarAfterLoop
<1>9. CASE OfTar!OpenFails \/ OfTar!KeepFailure \/ OfTar!BodiesReturn
  <2>1. /\ phase = "bodies" /\ phase' \in {"bodies", "hardlinks", "err"}
        /\ UNCHANGED <<archive, options, before, planned, tree, at, bodies, pending, directories, work>>
    BY <1>9 DEF OfTar!OpenFails, OfTar!KeepFailure, OfTar!BodiesReturn, OfTar!input, OfTar!waiting
  <2> QED
    BY <1>0, <2>1, TarAfterLoop
<1>10. CASE OfTar!MakeHardLink \/ OfTar!SkipHardLink \/ OfTar!HardLinkFails
  <2> DEFINE l == pending[at + 1]
             p == planned.plan[l].path
             parents == WithParents(tree, p)
             free == Cleared(parents, p)
  <2>1. /\ phase = "hardlinks" /\ phase' \in {"hardlinks", "err"} /\ at' \in Nat /\ at < Len(pending)
        /\ UNCHANGED <<archive, options, before, planned, bodies, pending, directories>>
    BY <1>0, <1>10 DEF OfTar!MakeHardLink, OfTar!SkipHardLink, OfTar!HardLinkFails, OfTar!InLinks, OfTar!Onward, OfTar!Stopped,
                       OfTar!input, OfTar!waiting
  <2>2. l \in LinkSlots
    <3>1. at + 1 \in 1 .. Len(pending) /\ pending \in Seq(LinkSlots)
      BY <1>0, <2>1 DEF TarInv
    <3> QED
      BY <3>1
  <2>3. OfTar!linkPath = p /\ OfTar!linkSource = SourceOf(l)
    BY OfTarPlan DEF OfTar!linkPath, OfTar!linkSource, OfTar!plan, OfTar!LinkedName, SourceOf
  <2> HIDE DEF l
  <2>4. l \in DOMAIN planned.plan /\ p \in Paths /\ SourceOf(l) \in Paths
    BY <2>2, SourceIsPath, PlannedFacts DEF LinkSlots
  <2>5. OfTar!atParents = parents
    BY <2>3, OfTarTree DEF OfTar!atParents
  <2>6. \/ tree' = tree \/ tree' = parents
        \/ /\ ~ Taken(parents, p) \/ options.overwrite = "always"
           /\ \/ tree' = free
              \/ /\ free[SourceOf(l)].kind # "dir"
                 /\ tree' = [free EXCEPT ![p] = IF free[SourceOf(l)] = Missing THEN [kind |-> "file", by |-> 0]
                                                ELSE free[SourceOf(l)]]
    <3> HIDE DEF p
    <3> QED
      BY <1>10, <2>3, <2>5, OfTarTree DEF OfTar!MakeHardLink, OfTar!SkipHardLink, OfTar!HardLinkFails, OfTar!Linked
  <2>7. Moves(tree, parents) /\ IsTree(parents) /\ Differs(before, parents) \subseteq Changeable
    <3>1. Moves(tree, parents)
      BY <1>0, <2>4, MakingMoves
    <3> QED
      BY <1>0, <3>1, MovesKeep DEF Moves
  <2>8. ~ Taken(parents, p) \/ options.overwrite = "always" => p \in Changeable /\ Moves(parents, free) /\ IsTree(free)
    <3>1. ~ Taken(parents, p) \/ options.overwrite = "always" => p \in Changeable
      BY <2>4, <2>7, FreePlace
    <3> HIDE DEF p
    <3> QED
      BY <2>7, <3>1, SettingMoves DEF Moves
  <2>9. Moves(tree, tree')
    <3> DEFINE node == IF free[SourceOf(l)] = Missing THEN [kind |-> "file", by |-> 0] ELSE free[SourceOf(l)]
    <3>1. CASE tree' = tree \/ tree' = parents
      BY <1>0, <2>7, <3>1
    <3>2. CASE (~ Taken(parents, p) \/ options.overwrite = "always") /\ tree' = free
      BY <2>7, <2>8, <3>2, MovesFacts
    <3>3. CASE /\ ~ Taken(parents, p) \/ options.overwrite = "always"
               /\ free[SourceOf(l)].kind # "dir" /\ tree' = [free EXCEPT ![p] = node]
      <4>1. p \in Changeable /\ Moves(parents, free) /\ IsTree(free)
        BY <2>8, <3>3
      <4> HIDE DEF free, p
      <4>2. node \in Node /\ node.kind # "dir"
        BY <2>4, <3>3, <4>1 DEF IsTree, Node
      <4> HIDE DEF node
      <4>3. Moves(free, tree')
        BY <3>3, <4>1, <4>2, SettingMoves
      <4> QED
        BY <2>7, <4>1, <4>3, MovesFacts
    <3> HIDE DEF free, parents, p
    <3> QED
      BY <2>6, <3>1, <3>2, <3>3
  <2> QED
    BY <2>1, <2>9, TarAfterLoop
<1>11. CASE OfTar!LinksEnd
  <2>1. /\ phase = "hardlinks" /\ phase' = "seal" /\ at' = 0
        /\ UNCHANGED <<archive, options, before, planned, tree, bodies, pending, directories>>
    BY <1>11 DEF OfTar!LinksEnd, OfTar!input, OfTar!waiting
  <2> QED
    BY <1>0, <2>1, TarAfterLoop
<1>12. CASE OfTar!Seal
  <2> DEFINE items == OfTar!Directories
             item == NextOf(items, at)
  <2>1. /\ phase = "seal" /\ phase' = "seal" /\ at' = at + 1 /\ at < Len(directories)
        /\ UNCHANGED <<archive, options, before, planned, bodies, pending, directories>>
        /\ Seals(item, tree, tree')
    BY <1>12, OfTarOrder DEF OfTar!Seal, OfTar!input, OfTar!waiting, Seals, NextOf
  <2>2. directories \in Seq(DirSlots) /\ DirSlots \subseteq DOMAIN planned.plan /\ planned.plan \in Seq(PlanItems(archive, options))
    BY PlannedFacts DEF TarInv, DirSlots
  <2>3. items = [n \in DOMAIN directories |-> planned.plan[directories[n]]]
    BY DEF OfTar!Directories, OfTar!plan
  <2> HIDE DEF items
  <2>4. /\ items \in Seq(PlanItems(archive, options)) /\ Len(items) = Len(directories)
        /\ \A n \in DOMAIN items : \E d \in DirSlots : items[n] = planned.plan[d]
    <3>1. /\ Len(directories) \in Nat /\ DOMAIN directories = 1 .. Len(directories)
          /\ \A n \in 1 .. Len(directories) : directories[n] \in DirSlots
      BY <2>2
    <3>2. \A d \in DirSlots : planned.plan[d] \in PlanItems(archive, options)
      BY <2>2
    <3> QED
      BY <2>3, <3>1, <3>2
  <2>5. HavePaths(items) /\ \A n \in DOMAIN items : items[n].path \in Changeable
    <3> SUFFICES ASSUME NEW n \in DOMAIN items
                 PROVE  items[n].path \in Paths /\ items[n].index \in Nat /\ items[n].path \in Changeable
      BY DEF HavePaths
    <3>1. PICK d \in DirSlots : items[n] = planned.plan[d]
      BY <2>4
    <3>2. d \in DOMAIN planned.plan /\ planned.plan[d].kind = "dir"
      BY DEF DirSlots
    <3>3. planned.plan[d].path \in Paths /\ planned.plan[d].index \in Nat
      BY <3>2, PlannedFacts
    <3>4. planned.plan[d].path \in Needed(planned.plan)
      BY <3>2, <3>3, NeededFacts, PathFacts
    <3> QED
      BY <3>1, <3>3, <3>4 DEF Changeable
  <2>6. Waiting = items /\ Waiting' = items
    <3>1. OfTar!Directories' = OfTar!Directories
      BY <2>1 DEF OfTar!Directories, OfTar!plan
    <3> QED
      BY <3>1 DEF Waiting, items
  <2>7. at \in Nat /\ at < Len(items) /\ IsTree(tree) /\ SealedIn(tree) \subseteq DoneFirst(items, at)
    BY <1>0, <2>1, <2>4, <2>6 DEF TreeInv
  <2> HIDE DEF item
  <2>8. /\ \E n \in DOMAIN items : item = items[n]
        /\ IsTree(tree') /\ Differs(tree, tree') \subseteq {item.path}
        /\ \A p \in Differs(tree, tree') : Above(p) \cap SealedIn(tree) = {}
        /\ SealedIn(tree') \subseteq DoneFirst(items, at + 1)
    <3>1. item = NextOf(items, at)
      BY DEF item
    <3>2. Seals(item, tree, tree')
      BY <2>1
    <3> QED
      BY <2>4, <2>5, <2>7, <3>1, <3>2, SealFacts
  <2>9. Differs(tree, tree') \subseteq Changeable
    BY <2>5, <2>8
  <2>10. at' \in Nat /\ DoneFirst(Waiting', at') = DoneFirst(items, at + 1)
    BY <1>0, <2>1, <2>6
  <2>11. BodySlots' = BodySlots /\ LinkSlots' = LinkSlots /\ DirSlots' = DirSlots
    BY <2>1, TarSlotsStay
  <2> QED
    BY <2>1, <2>8, <2>9, <2>10, <2>11 DEF TreeStep, TarInv
<1>13. CASE OfTar!Finish \/ OfTar!Ended
  <2>1. /\ UNCHANGED <<archive, options, before, planned, tree, at, bodies, pending, directories>>
        /\ phase \in {"seal", "done", "err"} /\ phase' \in {"done", "err"}
        /\ phase \in {"done", "err"} => phase' = phase
        /\ phase = "seal" => phase' = "done"
    BY <1>13 DEF OfTar!Finish, OfTar!Ended, OfTar!vars, OfTar!input, OfTar!waiting
  <2>2. Differs(tree, tree') = {}
    BY <2>1 DEF Differs
  <2>3. BodySlots' = BodySlots /\ LinkSlots' = LinkSlots /\ DirSlots' = DirSlots
    BY <2>1, TarSlotsStay
  <2> QED
    BY <1>0, <2>1, <2>2, <2>3 DEF TreeStep, TarInv
<1> QED
  BY <1>1, <1>2, <1>3, <1>4, <1>5, <1>6, <1>7, <1>8, <1>9, <1>10, <1>11, <1>12, <1>13 DEF OfTar!Next

-----------------------------------------------------------------------------
(* A 7z.  Its own operators, in the words of Layout.                        *)
FolderOf(s) == archive[planned.plan[s].index].folder
LyingIn(f) == {i \in DOMAIN archive : archive[i].folder = f}
OffsetOf(i) == Cardinality({j \in LyingIn(archive[i].folder) : j < i})
Offset(s) == OffsetOf(planned.plan[s].index)
LocatedSlots == {s \in DOMAIN planned.plan : FolderOf(s) # 0 /\ planned.plan[s].kind # "dir"}
FirstSlot(f) == Min({s \in LocatedSlots : FolderOf(s) = f})
FolderList == InOrder({FolderOf(s) : s \in LocatedSlots}, LAMBDA f, g : FirstSlot(f) < FirstSlot(g))
SlotsIn(g) == {s \in LocatedSlots : FolderOf(s) = FolderList[g + 1]}
GroupOf(g) == InOrder(SlotsIn(g), LAMBDA s, t : Offset(s) < Offset(t))
LinkList == InOrder(links, LAMBDA l, m : l.slot < m.slot)
EmptySlots == InOrder({s \in DOMAIN planned.plan : planned.plan[s].kind = "file" /\ FolderOf(s) = 0}, <)

(* They are those SevenZExtract takes its turns by.                         *)
LEMMA OfSevenZSlots ==
  /\ OfSevenZ!plan = planned.plan
  /\ \A s : OfSevenZ!Folder(s) = FolderOf(s)
  /\ \A f : OfSevenZ!Lying(f) = LyingIn(f)
  /\ \A i : OfSevenZ!Before(i) = OffsetOf(i)
  /\ OfSevenZ!FolderOrder = FolderList
  /\ \A g : OfSevenZ!Group(g) = GroupOf(g)
  /\ OfSevenZ!LinkOrder = LinkList
  /\ OfSevenZ!Empties = EmptySlots
  /\ OfSevenZ!Directories = ItemsOf("dir")
  /\ \A f, n : OfSevenZ!EntryAt(f, n) = IF n < Cardinality(LyingIn(f)) THEN CHOOSE i \in LyingIn(f) : OffsetOf(i) = n ELSE 0
  /\ OfSevenZ!Cardinality(links) = Cardinality(links)
<1> USE DEF OfSevenZ!Cardinality, Cardinality, OfSevenZ!plan, OfSevenZ!InOrder, InOrder, OfSevenZ!Folder, FolderOf,
            OfSevenZ!Lying, LyingIn, OfSevenZ!Before, OffsetOf
<1>1. OfSevenZ!FolderOrder = FolderList
  BY DEF OfSevenZ!FolderOrder, FolderList, OfSevenZ!Located, LocatedSlots, OfSevenZ!Min, Min, FirstSlot
<1>2. \A g : OfSevenZ!Group(g) = GroupOf(g)
  BY DEF OfSevenZ!Group, GroupOf, OfSevenZ!InFolder, SlotsIn, Offset, OfSevenZ!FolderOrder, FolderList,
         OfSevenZ!Located, LocatedSlots, OfSevenZ!Min, Min, FirstSlot
<1>3. OfSevenZ!LinkOrder = LinkList
  BY DEF OfSevenZ!LinkOrder, LinkList
<1>4. OfSevenZ!Empties = EmptySlots
  BY DEF OfSevenZ!Empties, EmptySlots, OfSevenZ!Slots
<1>5. OfSevenZ!Directories = ItemsOf("dir")
  BY DEF OfSevenZ!Directories, ItemsOf, SlotsOf, OfSevenZ!Slots
<1>6. \A f, n : OfSevenZ!EntryAt(f, n) = IF n < Cardinality(LyingIn(f)) THEN CHOOSE i \in LyingIn(f) : OffsetOf(i) = n ELSE 0
  BY DEF OfSevenZ!EntryAt
<1>7. \A i : OfSevenZ!Before(i) = OffsetOf(i)
  OBVIOUS
<1>8. OfSevenZ!Cardinality(links) = Cardinality(links)
  OBVIOUS
<1>9. /\ OfSevenZ!plan = planned.plan
      /\ \A s : OfSevenZ!Folder(s) = FolderOf(s)
      /\ \A f : OfSevenZ!Lying(f) = LyingIn(f)
  OBVIOUS
<1> QED
  BY <1>1, <1>2, <1>3, <1>4, <1>5, <1>6, <1>7, <1>8, <1>9

(* No entry is planned twice.                                               *)
LEMMA UniqueIndex ==
  ASSUME PlanInv, phase \notin {"plan", "err"},
         NEW s \in DOMAIN planned.plan, NEW t \in DOMAIN planned.plan, planned.plan[s].index = planned.plan[t].index
  PROVE  s = t
<1> DEFINE F(i) == FirstOf(archive, options, i)
<1>1. IsArchive(archive) /\ IsOptions(options) /\ IsPlan(planned.plan, archive, options)
  BY BuildPlanKeeps DEF PlanInv
<1>2. planned \in Plans(archive, options) /\ DOMAIN planned.plan \subseteq Nat
  BY PlannedFacts
<1>3. planned.plan[s].index \in InPlace(archive, options)
  BY <1>1, <1>2, PlansFacts
<1>4. \A m, n \in DOMAIN planned.plan : m < n => F(planned.plan[m].index) < F(planned.plan[n].index)
  BY <1>1 DEF IsPlan, FirstOf
<1>5. F(planned.plan[s].index) \in Nat
  <2> DEFINE i == planned.plan[s].index
  <2>1. i \in Nat /\ F(i) \in Rivals(archive, options, i) \cup {i}
        /\ \A j \in Rivals(archive, options, i) : j \in 1 .. Len(archive)
    BY <1>1, <1>3, RivalsFacts
  <2> QED
    BY <2>1
<1>6. s \in Nat /\ t \in Nat
  BY <1>2
<1> HIDE DEF F
<1>7. ~ (s < t) /\ ~ (t < s)
  BY <1>4, <1>5
<1> QED
  BY <1>6, <1>7

(* The entries of a folder lie at one offset each, from 0 on.               *)
LEMMA OffsetFacts ==
  ASSUME IsArchive(archive)
  PROVE  /\ \A f : IsFiniteSet(LyingIn(f)) /\ Cardinality(LyingIn(f)) \in Nat
         /\ \A i : OffsetOf(i) \in Nat
         /\ \A f : \A i \in LyingIn(f) : OffsetOf(i) < Cardinality(LyingIn(f))
         /\ \A f : \A i, j \in LyingIn(f) : OffsetOf(i) = OffsetOf(j) => i = j
         /\ \A f : \A n \in Nat : n < Cardinality(LyingIn(f)) => \E i \in LyingIn(f) : OffsetOf(i) = n
<1>1. DOMAIN archive \subseteq Nat /\ IsFiniteSet(DOMAIN archive)
  <2>1. DOMAIN archive = 1 .. Len(archive) /\ Len(archive) \in Nat
    BY DEF IsArchive
  <2> QED
    BY <2>1, CountUpto
<1>2. \A f : LyingIn(f) \subseteq Nat /\ IsFiniteSet(LyingIn(f)) /\ Cardinality(LyingIn(f)) \in Nat
  <2> TAKE f
  <2>1. LyingIn(f) \subseteq DOMAIN archive
    BY DEF LyingIn
  <2> QED
    BY <1>1, <2>1, FS_Subset, FS_CardinalityType
<1>3. \A i : OffsetOf(i) \in Nat
  <2> TAKE i
  <2> DEFINE S == LyingIn(archive[i].folder)
             B == {j \in S : j < i}
  <2>1. IsFiniteSet(B)
    BY <1>2, FS_Subset
  <2> QED
    BY <2>1, FS_CardinalityType DEF OffsetOf
<1>4. ASSUME NEW f, NEW i \in LyingIn(f)
      PROVE  OffsetOf(i) = Rank(Ascending(LyingIn(f)), i)
  <2>1. archive[i].folder = f
    BY <1>4 DEF LyingIn
  <2> QED
    BY <2>1 DEF OffsetOf, Rank, Ascending
<1>5. \A f : Orders(Ascending(LyingIn(f)), LyingIn(f))
  BY <1>2 DEF Orders, Ascending
<1>6. ASSUME NEW f, NEW i \in LyingIn(f), NEW j \in LyingIn(f), i # j
      PROVE  OffsetOf(i) # OffsetOf(j)
  <2>1. i \in Ascending(LyingIn(f))[j] \/ j \in Ascending(LyingIn(f))[i]
    BY <1>5, <1>6 DEF Orders
  <2>2. OffsetOf(i) < OffsetOf(j) \/ OffsetOf(j) < OffsetOf(i)
    BY <1>2, <1>4, <1>5, <2>1, RankGrows
  <2> QED
    BY <1>3, <2>2
<1>7. ASSUME NEW f, NEW i \in LyingIn(f)
      PROVE  OffsetOf(i) < Cardinality(LyingIn(f))
  <2> DEFINE S == LyingIn(f)
             B == Ascending(S)[i]
  <2>1. B \subseteq S /\ i \notin B /\ i \in S
    BY <1>5, <1>7 DEF Orders
  <2>2. OffsetOf(i) = Cardinality(B)
    BY <1>4 DEF Rank
  <2>3. IsFiniteSet(S) /\ Cardinality(S) \in Nat
    BY <1>2
  <2> HIDE DEF S, B
  <2>4. Cardinality(B) <= Cardinality(S) /\ (Cardinality(B) = Cardinality(S) => B = S) /\ Cardinality(B) \in Nat
    BY <2>1, <2>3, FS_Subset, FS_CardinalityType
  <2> QED
    BY <2>1, <2>2, <2>3, <2>4 DEF S
<1>8. ASSUME NEW f, NEW n \in Nat, n < Cardinality(LyingIn(f))
      PROVE  \E i \in LyingIn(f) : OffsetOf(i) = n
  <2>1. n + 1 \in 1 .. Cardinality(LyingIn(f)) /\ (n + 1) - 1 = n
    BY <1>2, <1>8
  <2>2. PICK i \in LyingIn(f) : Rank(Ascending(LyingIn(f)), i) = (n + 1) - 1
    BY <1>2, <1>5, <2>1, RankExists
  <2> QED
    BY <1>4, <2>1, <2>2
<1> QED
  BY <1>2, <1>3, <1>6, <1>7, <1>8

(* The folders are taken in the order of their first slots, each once.      *)
LocatedFolders == {FolderOf(s) : s \in LocatedSlots}
FolderKeys == [f \in LocatedFolders |-> FirstSlot(f)]

(* Each folder that has a planned entry is taken once, in that order.       *)
LEMMA FoldersSort ==
  ASSUME PlanInv
  PROVE  /\ IsFiniteSet(LocatedFolders) /\ Cardinality(LocatedFolders) <= Len(planned.plan)
         /\ FolderKeys \in [LocatedFolders -> Nat]
         /\ Sorted(FolderList, LocatedFolders, Below(FolderKeys, LocatedFolders))
<1> DEFINE S == LocatedFolders
           K == FolderKeys
           q == FolderList
           InFolder(f) == {s \in LocatedSlots : FolderOf(s) = f}
<1>1. /\ DOMAIN planned.plan = 1 .. Len(planned.plan) /\ Len(planned.plan) \in Nat
      /\ LocatedSlots \subseteq DOMAIN planned.plan
  BY PlannedFacts DEF LocatedSlots
<1>2. IsFiniteSet(LocatedSlots) /\ Cardinality(LocatedSlots) <= Len(planned.plan) /\ LocatedSlots \subseteq Nat
      /\ Cardinality(LocatedSlots) \in Nat
  <2>1. IsFiniteSet(1 .. Len(planned.plan)) /\ Cardinality(1 .. Len(planned.plan)) = Len(planned.plan)
    BY <1>1, CountUpto
  <2> QED
    BY <1>1, <2>1, FS_Subset, FS_CardinalityType
<1>3. IsFiniteSet(S) /\ Cardinality(S) <= Cardinality(LocatedSlots) /\ Cardinality(S) \in Nat
  <2> DEFINE h == [s \in LocatedSlots |-> FolderOf(s)]
  <2>1. h \in Surjection(LocatedSlots, S)
    BY DEF Surjection, LocatedFolders
  <2> QED
    BY <1>2, <2>1, FS_Surjection, FS_CardinalityType
<1>4. \A f \in S : FirstSlot(f) \in InFolder(f) /\ FirstSlot(f) \in Nat
  <2> TAKE f \in S
  <2>1. InFolder(f) # {} /\ InFolder(f) \in SUBSET Nat
    BY <1>2 DEF LocatedFolders
  <2>2. Min(InFolder(f)) \in InFolder(f)
    <3> HIDE DEF InFolder
    <3> QED
      BY <2>1, MinFacts
  <2> QED
    BY <2>1, <2>2 DEF FirstSlot
<1>5. K \in [S -> Nat] /\ \A f, g \in S : K[f] = K[g] => f = g
  BY <1>4 DEF FolderKeys
<1> DEFINE C(f) == Cardinality({g \in S : FirstSlot(g) < FirstSlot(f)})
<1>6. q = [n \in 1 .. Cardinality(S) |-> CHOOSE f \in S : C(f) = n - 1]
  BY DEF FolderList, InOrder, LocatedFolders
<1>7. \A f \in S : C(f) = Rank(Below(K, S), f)
  <2> TAKE f \in S
  <2>1. {g \in S : FirstSlot(g) < FirstSlot(f)} = {g \in S : K[g] < K[f]}
    BY DEF FolderKeys
  <2> QED
    BY <2>1 DEF Rank, Below
<1> HIDE DEF S, K, q, C
<1>8. \A n \in 1 .. Cardinality(S) : \E f \in S : C(f) = n - 1
  <2>1. \A n \in 1 .. Cardinality(S) : \E f \in S : Rank(Below(K, S), f) = n - 1
    BY <1>3, <1>5, KeysSort
  <2> QED
    BY <1>7, <2>1
<1>9. /\ DOMAIN q = 1 .. Cardinality(S) /\ q = [n \in DOMAIN q |-> q[n]]
      /\ \A n \in 1 .. Cardinality(S) : q[n] \in S /\ C(q[n]) = n - 1
  BY <1>6, <1>8
<1>10. \A n \in 1 .. Cardinality(S) : q[n] \in S /\ Rank(Below(K, S), q[n]) = n - 1
  BY <1>7, <1>9
<1>11. Sorted(q, S, Below(K, S))
  BY <1>3, <1>5, <1>9, <1>10, KeysSort
<1>12. Cardinality(S) <= Len(planned.plan)
  BY <1>1, <1>2, <1>3
<1> QED
  BY <1>3, <1>5, <1>11, <1>12 DEF S, K, q

(* The slots of a folder are taken in the order of their offsets.           *)
SlotKeys(g) == [s \in SlotsIn(g) |-> Offset(s)]

(* Each slot of a folder is taken once, in that order.                      *)
LEMMA GroupSorts ==
  ASSUME PlanInv, phase \notin {"plan", "err"}, NEW g
  PROVE  /\ IsFiniteSet(SlotsIn(g)) /\ SlotKeys(g) \in [SlotsIn(g) -> Nat]
         /\ Sorted(GroupOf(g), SlotsIn(g), Below(SlotKeys(g), SlotsIn(g)))
<1> DEFINE S == SlotsIn(g)
           K == SlotKeys(g)
           q == GroupOf(g)
           C(s) == Cardinality({t \in S : Offset(t) < Offset(s)})
<1>1. /\ DOMAIN planned.plan = 1 .. Len(planned.plan) /\ Len(planned.plan) \in Nat
      /\ S \subseteq DOMAIN planned.plan
  BY PlannedFacts DEF SlotsIn, LocatedSlots
<1>2. IsFiniteSet(S) /\ Cardinality(S) \in Nat
  <2>1. IsFiniteSet(1 .. Len(planned.plan))
    BY <1>1, CountUpto
  <2> QED
    BY <1>1, <2>1, FS_Subset, FS_CardinalityType
<1>3. IsArchive(archive)
  BY DEF PlanInv
<1>4. \A s \in S : planned.plan[s].index \in LyingIn(FolderList[g + 1]) /\ Offset(s) \in Nat
  <2> TAKE s \in S
  <2>1. planned.plan[s].index \in DOMAIN archive
    BY <1>1, PlannedFacts
  <2>2. FolderOf(s) = FolderList[g + 1]
    BY DEF SlotsIn
  <2>3. Offset(s) \in Nat
    BY <1>3, OffsetFacts DEF Offset
  <2> QED
    BY <2>1, <2>2, <2>3 DEF FolderOf, LyingIn
<1>5. \A s, t \in S : Offset(s) = Offset(t) => s = t
  <2> TAKE s, t \in S
  <2> HAVE Offset(s) = Offset(t)
  <2>1. planned.plan[s].index = planned.plan[t].index
    BY <1>3, <1>4, OffsetFacts DEF Offset
  <2> QED
    BY <1>1, <2>1, UniqueIndex
<1>6. K \in [S -> Nat] /\ \A s, t \in S : K[s] = K[t] => s = t
  BY <1>4, <1>5 DEF SlotKeys
<1>7. q = [n \in 1 .. Cardinality(S) |-> CHOOSE s \in S : C(s) = n - 1]
  BY DEF GroupOf, InOrder
<1>8. \A s \in S : C(s) = Rank(Below(K, S), s)
  <2> TAKE s \in S
  <2>1. {t \in S : Offset(t) < Offset(s)} = {t \in S : K[t] < K[s]}
    BY DEF SlotKeys
  <2> QED
    BY <2>1 DEF Rank, Below
<1> HIDE DEF S, K, q, C
<1>9. \A n \in 1 .. Cardinality(S) : \E s \in S : C(s) = n - 1
  <2>1. \A n \in 1 .. Cardinality(S) : \E s \in S : Rank(Below(K, S), s) = n - 1
    BY <1>2, <1>6, KeysSort
  <2> QED
    BY <1>8, <2>1
<1>10. /\ DOMAIN q = 1 .. Cardinality(S) /\ q = [n \in DOMAIN q |-> q[n]]
       /\ \A n \in 1 .. Cardinality(S) : q[n] \in S /\ C(q[n]) = n - 1
  BY <1>7, <1>9
<1>11. \A n \in 1 .. Cardinality(S) : q[n] \in S /\ Rank(Below(K, S), q[n]) = n - 1
  BY <1>8, <1>10
<1>12. Sorted(q, S, Below(K, S))
  BY <1>2, <1>6, <1>10, <1>11, KeysSort
<1> QED
  BY <1>2, <1>6, <1>12 DEF S, K, q

(* The links that were set aside are taken in the order of their slots.     *)
LinkKeys == [l \in links |-> l.slot]

(* Each link is taken once, in that order.                                  *)
LEMMA LinksSort ==
  ASSUME IsFiniteSet(links), \A l \in links : l.slot \in Nat, \A l, m \in links : l.slot = m.slot => l = m
  PROVE  Sorted(LinkList, links, Below(LinkKeys, links))
<1> DEFINE K == LinkKeys
           q == LinkList
           C(l) == Cardinality({m \in links : m.slot < l.slot})
<1>1. Cardinality(links) \in Nat
  BY FS_CardinalityType
<1>2. K \in [links -> Nat] /\ \A l, m \in links : K[l] = K[m] => l = m
  BY DEF LinkKeys
<1>3. q = [n \in 1 .. Cardinality(links) |-> CHOOSE l \in links : C(l) = n - 1]
  BY DEF LinkList, InOrder
<1>4. \A l \in links : C(l) = Rank(Below(K, links), l)
  <2> TAKE l \in links
  <2>1. {m \in links : m.slot < l.slot} = {m \in links : K[m] < K[l]}
    BY DEF LinkKeys
  <2> QED
    BY <2>1 DEF Rank, Below
<1> HIDE DEF K, q, C
<1>5. \A n \in 1 .. Cardinality(links) : \E l \in links : C(l) = n - 1
  <2>1. \A n \in 1 .. Cardinality(links) : \E l \in links : Rank(Below(K, links), l) = n - 1
    BY <1>2, KeysSort
  <2> QED
    BY <1>4, <2>1
<1>6. /\ DOMAIN q = 1 .. Cardinality(links) /\ q = [n \in DOMAIN q |-> q[n]]
      /\ \A n \in 1 .. Cardinality(links) : q[n] \in links /\ C(q[n]) = n - 1
  BY <1>3, <1>5
<1>7. \A n \in 1 .. Cardinality(links) : q[n] \in links /\ Rank(Below(K, links), q[n]) = n - 1
  BY <1>4, <1>6
<1>8. Sorted(q, links, Below(K, links))
  BY <1>2, <1>6, <1>7, KeysSort
<1> QED
  BY <1>8 DEF K, q

(* The files without bytes are planned ones.                                *)
LEMMA EmptyFacts ==
  ASSUME PlanInv
  PROVE  /\ Len(EmptySlots) \in Nat /\ Len(EmptySlots) <= Len(planned.plan)
         /\ \A n \in 1 .. Len(EmptySlots) : EmptySlots[n] \in DOMAIN planned.plan
<1> DEFINE S == {s \in DOMAIN planned.plan : planned.plan[s].kind = "file" /\ FolderOf(s) = 0}
           q == EmptySlots
<1>1. /\ DOMAIN planned.plan = 1 .. Len(planned.plan) /\ Len(planned.plan) \in Nat
      /\ S \subseteq DOMAIN planned.plan
  BY PlannedFacts
<1>2. IsFiniteSet(S) /\ Cardinality(S) \in Nat /\ Cardinality(S) <= Len(planned.plan) /\ S \in SUBSET Nat
  <2>1. IsFiniteSet(1 .. Len(planned.plan)) /\ Cardinality(1 .. Len(planned.plan)) = Len(planned.plan)
    BY <1>1, CountUpto
  <2> QED
    BY <1>1, <2>1, FS_Subset, FS_CardinalityType
<1>3. Sorted(q, S, Ascending(S))
  BY <1>2, InOrderAscending DEF EmptySlots
<1> HIDE DEF S, q
<1>4. Len(q) = Cardinality(S) /\ DOMAIN q = 1 .. Cardinality(S) /\ \A n \in DOMAIN q : q[n] \in S
  BY <1>3 DEF Sorted
<1> QED
  BY <1>1, <1>2, <1>4 DEF q

(* None of these depends on anything but the plan and the archive.          *)
LEMMA GroupsStay ==
  ASSUME planned' = planned, archive' = archive
  PROVE  /\ FolderList' = FolderList /\ \A g : GroupOf(g)' = GroupOf(g)
         /\ ItemsOf("dir")' = ItemsOf("dir")
<1>1. /\ LocatedSlots' = LocatedSlots /\ \A s : FolderOf(s)' = FolderOf(s)
      /\ \A i : OffsetOf(i)' = OffsetOf(i) /\ \A s : Offset(s)' = Offset(s)
  BY DEF LocatedSlots, FolderOf, LyingIn, OffsetOf, Offset
<1>2. \A f : FirstSlot(f)' = FirstSlot(f)
  BY <1>1 DEF FirstSlot
<1>3. FolderList' = FolderList
  BY <1>1, <1>2 DEF FolderList, InOrder, LocatedSlots, FolderOf, FirstSlot
<1>4. \A g : GroupOf(g)' = GroupOf(g)
  BY DEF GroupOf, SlotsIn, FolderList, LocatedSlots, FolderOf, FirstSlot, InOrder, Offset, OffsetOf, LyingIn
<1> QED
  BY <1>3, <1>4, SlotsStay

(* A slot has one place in one folder.                                      *)
LEMMA SortedOnce ==
  ASSUME NEW S, NEW K \in [S -> Nat], NEW s, Sorted(s, S, Below(K, S)),
         NEW m \in DOMAIN s, NEW n \in DOMAIN s, s[m] = s[n]
  PROVE  m = n
<1>1. m \in Nat /\ n \in Nat /\ s[m] \in S
  BY DEF Sorted
<1>2. \A x \in S : x \notin Below(K, S)[x]
  BY DEF Below
<1>3. ~ (m < n) /\ ~ (n < m)
  BY <1>1, <1>2 DEF Sorted
<1> QED
  BY <1>1, <1>3

(* So no two workers come to one slot, and none comes to it twice.          *)
LEMMA GroupsApart ==
  ASSUME PlanInv, phase \notin {"plan", "err"},
         NEW g \in 0 .. Len(FolderList) - 1, NEW h \in 0 .. Len(FolderList) - 1,
         NEW m \in 1 .. Len(GroupOf(g)), NEW n \in 1 .. Len(GroupOf(h)), GroupOf(g)[m] = GroupOf(h)[n]
  PROVE  g = h /\ m = n
<1>1. \A f \in {g, h} :
        /\ DOMAIN GroupOf(f) = 1 .. Len(GroupOf(f))
        /\ \A k \in DOMAIN GroupOf(f) : FolderOf(GroupOf(f)[k]) = FolderList[f + 1]
        /\ \A k, l \in DOMAIN GroupOf(f) : GroupOf(f)[k] = GroupOf(f)[l] => k = l
  <2> TAKE f \in {g, h}
  <2>1. Sorted(GroupOf(f), SlotsIn(f), Below(SlotKeys(f), SlotsIn(f)))
    BY GroupSorts
  <2>2. SlotKeys(f) \in [SlotsIn(f) -> Nat]
    BY GroupSorts
  <2>3. /\ DOMAIN GroupOf(f) = 1 .. Len(GroupOf(f))
        /\ \A k \in DOMAIN GroupOf(f) : GroupOf(f)[k] \in SlotsIn(f)
    BY <2>1 DEF Sorted
  <2>4. \A k \in DOMAIN GroupOf(f) : FolderOf(GroupOf(f)[k]) = FolderList[f + 1]
    BY <2>3 DEF SlotsIn
  <2> QED
    BY <2>1, <2>2, <2>3, <2>4, SortedOnce
<1>2. g = h
  <2>1. FolderList[g + 1] = FolderList[h + 1]
    BY <1>1
  <2>2. Sorted(FolderList, LocatedFolders, Below(FolderKeys, LocatedFolders))
    BY FoldersSort
  <2>3. FolderKeys \in [LocatedFolders -> Nat]
    BY FoldersSort
  <2>4. Len(FolderList) \in Nat /\ DOMAIN FolderList = 1 .. Len(FolderList)
    BY <2>2 DEF Sorted
  <2>5. g + 1 \in DOMAIN FolderList /\ h + 1 \in DOMAIN FolderList
    BY <2>4
  <2>6. g + 1 = h + 1
    BY <2>1, <2>2, <2>3, <2>5, SortedOnce
  <2> QED
    BY <2>4, <2>6
<1> QED
  BY <1>1, <1>2

(* The bytes at an offset belong to an entry of the archive, or to none.    *)
LEMMA EntryAtFacts ==
  ASSUME IsArchive(archive), NEW f, NEW n \in Nat
  PROVE  OfSevenZ!EntryAt(f, n) \in DOMAIN archive \cup {0}
<1>1. OfSevenZ!EntryAt(f, n) = IF n < Cardinality(LyingIn(f)) THEN CHOOSE i \in LyingIn(f) : OffsetOf(i) = n ELSE 0
  BY OfSevenZSlots
<1>2. n < Cardinality(LyingIn(f)) => \E i \in LyingIn(f) : OffsetOf(i) = n
  BY OffsetFacts
<1>3. LyingIn(f) \subseteq DOMAIN archive
  BY DEF LyingIn
<1> HIDE DEF LyingIn
<1> QED
  BY <1>1, <1>2, <1>3

(* A step that keeps the destination one and puts no metadata on a          *)
(* directory.  What the operations of a 7z do is one, wherever they do it.  *)
Fills(t, u) == IsTree(u) /\ (SealedIn(t) = {} => SealedIn(u) = {})

(* The operations do so at any path.                                        *)
LEMMA Filling ==
  ASSUME NEW t, IsTree(t), NEW p
  PROVE  /\ Fills(t, t) /\ Fills(t, WithDirectories(t, p)) /\ Fills(t, WithParents(t, p)) /\ Fills(t, Cleared(t, p))
         /\ \A node \in Node : node.kind # "dir" => Fills(t, [t EXCEPT ![p] = node])
         /\ Fills(t, [t EXCEPT ![p] = Missing])
         /\ t[p].kind = "partial" => Fills(t, [t EXCEPT ![p].kind = "file"])
<1>1. \A u : Unsealed(u) <=> SealedIn(u) = {}
  BY MovesFacts
<1>2. \A q : Fills(t, WithDirectories(t, q))
  BY <1>1, WithDirectoriesFacts DEF Fills
<1>3. Fills(t, t) /\ Fills(t, Cleared(t, p))
  BY <1>1, ClearedFacts DEF Fills
<1>4. Fills(t, WithParents(t, p))
  BY <1>2, <1>3 DEF WithParents
<1>5. \A node \in Node : node.kind # "dir" => Fills(t, [t EXCEPT ![p] = node])
  BY <1>1, SetFacts DEF Fills
<1>6. Missing \in Node /\ Missing.kind # "dir"
  BY DEF Missing, Node
<1>7. ASSUME t[p].kind = "partial" PROVE Fills(t, [t EXCEPT ![p].kind = "file"])
  <2>1. CASE p \in Paths
    <3>1. t[p] \in Node
      BY <2>1 DEF IsTree
    <3>2. [t[p] EXCEPT !.kind = "file"] = [kind |-> "file", by |-> t[p].by] /\ [kind |-> "file", by |-> t[p].by] \in Node
      BY <3>1 DEF Node
    <3>3. [t EXCEPT ![p].kind = "file"] = [t EXCEPT ![p] = [kind |-> "file", by |-> t[p].by]]
      BY <3>2
    <3> QED
      BY <1>5, <3>2, <3>3
  <2>2. CASE p \notin Paths
    <3>1. [t EXCEPT ![p].kind = "file"] = t
      BY <2>2 DEF IsTree
    <3> QED
      BY <1>3, <3>1
  <2> QED
    BY <2>1, <2>2
<1> QED
  BY <1>2, <1>3, <1>4, <1>5, <1>6, <1>7

(* A file or a link that is made.                                           *)
LEMMA FillingNode ==
  ASSUME NEW t, IsTree(t), NEW p, NEW kind \in {"file", "partial", "link"}, NEW i \in Nat
  PROVE  Fills(t, [t EXCEPT ![p] = [kind |-> kind, by |-> i]])
<1> DEFINE node == [kind |-> kind, by |-> i]
<1>1. node \in Node /\ node.kind # "dir"
  BY DEF Node
<1> HIDE DEF node
<1>2. Fills(t, [t EXCEPT ![p] = node])
  BY <1>1, Filling
<1> QED
  BY <1>2 DEF node

(* The links that are set aside are behind the worker of their folder, so   *)
(* no slot is among them twice, and each has an entry of the archive.       *)
AreSetAside(l) == l.slot \in Nat /\ l.by \in DOMAIN archive
IsBehind(l) == \E g \in DOMAIN work : \E n \in 1 .. Len(GroupOf(g)) : n <= cursor[g] /\ l.slot = GroupOf(g)[n]
SevenZInv ==
  /\ at \in Nat
  /\ phase \in {"plan", "directories", "empty"} => links = {}
  /\ IsFiniteSet(links) /\ \A l \in links : AreSetAside(l)
  /\ \A l, m \in links : l.slot = m.slot => l = m
  /\ phase = "folders" =>
       /\ DOMAIN work = 0 .. Len(FolderList) - 1
       /\ cursor \in [DOMAIN work -> Nat] /\ position \in [DOMAIN work -> Nat]
       /\ \A l \in links : IsBehind(l)

(* Before the metadata that is all a step needs.                            *)
LEMMA FillIsStep ==
  ASSUME TreeInv, format = "7z", Fills(tree, tree'), phase \notin {"seal", "done", "err"}
  PROVE  TreeStep
BY DEF TreeInv, TreeStep, Fills

(* The loops before and after the folders.                                  *)
LEMMA SevenZLoop ==
  ASSUME PlanInv, TreeInv, SevenZInv, format = "7z",
         UNCHANGED <<archive, options, before, format, links>>, Fills(tree, tree'), at' \in Nat,
         phase \notin {"seal", "done", "err"}, phase' # "folders",
         phase' \in {"plan", "directories", "empty"} => phase \in {"plan", "directories", "empty"}
  PROVE  TreeStep /\ SevenZInv'
<1>1. TreeStep
  BY FillIsStep
<1>2. \A l : AreSetAside(l)' = AreSetAside(l)
  BY DEF AreSetAside
<1> QED
  BY <1>1, <1>2 DEF SevenZInv

(* A worker goes on in its folder.                                          *)
LEMMA FolderStep ==
  ASSUME PlanInv, TreeInv, SevenZInv, format = "7z", phase = "folders",
         UNCHANGED <<archive, options, before, format, phase, planned, at>>, Fills(tree, tree'),
         NEW g \in DOMAIN work, DOMAIN work' = DOMAIN work,
         \/ UNCHANGED <<cursor, position, links>>
         \/ /\ \E where \in Nat : position' = [position EXCEPT ![g] = where]
            /\ cursor' = [cursor EXCEPT ![g] = @ + 1]
            /\ \/ links' = links
               \/ /\ cursor[g] < Len(GroupOf(g))
                  /\ \E by \in DOMAIN archive : links' = links \cup {[slot |-> GroupOf(g)[cursor[g] + 1], by |-> by]}
  PROVE  TreeStep /\ SevenZInv'
<1>0. /\ at \in Nat /\ IsFiniteSet(links) /\ \A l \in links : AreSetAside(l)
      /\ \A l, m \in links : l.slot = m.slot => l = m
      /\ DOMAIN work = 0 .. Len(FolderList) - 1
      /\ cursor \in [DOMAIN work -> Nat] /\ position \in [DOMAIN work -> Nat]
      /\ \A l \in links : IsBehind(l)
  BY DEF SevenZInv
<1>1. TreeStep
  BY FillIsStep
<1>2. \A l : AreSetAside(l)' = AreSetAside(l)
  BY DEF AreSetAside
<1>3. FolderList' = FolderList /\ \A h : GroupOf(h)' = GroupOf(h)
  BY GroupsStay
<1>4. CASE UNCHANGED <<cursor, position, links>>
  <2>1. \A l : IsBehind(l)' <=> IsBehind(l)
    BY <1>3, <1>4 DEF IsBehind
  <2> QED
    BY <1>0, <1>1, <1>2, <1>3, <1>4, <2>1 DEF SevenZInv
<1>5. ASSUME NEW where \in Nat, position' = [position EXCEPT ![g] = where],
             cursor' = [cursor EXCEPT ![g] = @ + 1]
      PROVE  /\ cursor' \in [DOMAIN work -> Nat] /\ position' \in [DOMAIN work -> Nat]
             /\ \A h \in DOMAIN work : cursor[h] \in Nat /\ cursor'[h] \in Nat /\ cursor[h] <= cursor'[h]
             /\ cursor'[g] = cursor[g] + 1
             /\ \A l : IsBehind(l) => IsBehind(l)'
  <2>1. cursor' \in [DOMAIN work -> Nat] /\ position' \in [DOMAIN work -> Nat]
    BY <1>0, <1>5
  <2>2. \A h \in DOMAIN work : cursor[h] \in Nat /\ cursor'[h] \in Nat /\ cursor[h] <= cursor'[h]
    BY <1>0, <1>5
  <2>3. cursor'[g] = cursor[g] + 1
    BY <1>0, <1>5
  <2>4. ASSUME NEW l, IsBehind(l) PROVE IsBehind(l)'
    <3>1. PICK h \in DOMAIN work : \E n \in 1 .. Len(GroupOf(h)) : n <= cursor[h] /\ l.slot = GroupOf(h)[n]
      BY <2>4 DEF IsBehind
    <3>2. PICK n \in 1 .. Len(GroupOf(h)) : n <= cursor[h] /\ l.slot = GroupOf(h)[n]
      BY <3>1
    <3>3. n \in Nat /\ n <= cursor'[h]
      BY <2>2, <3>2
    <3>4. GroupOf(h)' = GroupOf(h)
      BY <1>3
    <3> QED
      BY <3>2, <3>3, <3>4 DEF IsBehind
  <2> QED
    BY <2>1, <2>2, <2>3, <2>4
<1>6. CASE /\ \E where \in Nat : position' = [position EXCEPT ![g] = where]
           /\ cursor' = [cursor EXCEPT ![g] = @ + 1] /\ links' = links
  BY <1>0, <1>1, <1>2, <1>3, <1>5, <1>6 DEF SevenZInv
<1>7. ASSUME NEW where \in Nat, position' = [position EXCEPT ![g] = where],
             cursor' = [cursor EXCEPT ![g] = @ + 1], cursor[g] < Len(GroupOf(g)),
             NEW by \in DOMAIN archive, links' = links \cup {[slot |-> GroupOf(g)[cursor[g] + 1], by |-> by]}
      PROVE  SevenZInv'
  <2>a. PICK k : k = cursor[g] + 1
    OBVIOUS
  <2>b. PICK new : new = [slot |-> GroupOf(g)[k], by |-> by]
    OBVIOUS
  <2>1. /\ cursor' \in [DOMAIN work -> Nat] /\ position' \in [DOMAIN work -> Nat]
        /\ cursor[g] \in Nat /\ cursor'[g] = k
        /\ \A l : IsBehind(l) => IsBehind(l)'
    BY <1>5, <1>7, <2>a
  <2>2. Len(GroupOf(g)) \in Nat /\ DOMAIN GroupOf(g) = 1 .. Len(GroupOf(g)) /\ \A n \in DOMAIN GroupOf(g) : GroupOf(g)[n] \in Nat
    <3>1. Sorted(GroupOf(g), SlotsIn(g), Below(SlotKeys(g), SlotsIn(g)))
      BY GroupSorts
    <3>2. SlotsIn(g) \subseteq Nat
      BY PlannedFacts DEF SlotsIn, LocatedSlots
    <3> QED
      BY <3>1, <3>2 DEF Sorted
  <2>3. k \in 1 .. Len(GroupOf(g))
    BY <1>7, <2>1, <2>2, <2>a
  <2>4. AreSetAside(new)
    BY <2>2, <2>3, <2>b DEF AreSetAside
  <2>5. IsBehind(new)'
    <3>1. k <= cursor'[g] /\ new.slot = GroupOf(g)[k]
      BY <2>1, <2>3, <2>b
    <3> QED
      BY <1>3, <2>3, <3>1 DEF IsBehind
  <2>6. \A l \in links : l.slot # new.slot
    <3> SUFFICES ASSUME NEW l \in links, l.slot = new.slot PROVE FALSE
      OBVIOUS
    <3>1. PICK h \in DOMAIN work : \E n \in 1 .. Len(GroupOf(h)) : n <= cursor[h] /\ l.slot = GroupOf(h)[n]
      BY <1>0 DEF IsBehind
    <3>2. PICK n \in 1 .. Len(GroupOf(h)) : n <= cursor[h] /\ l.slot = GroupOf(h)[n]
      BY <3>1
    <3>3. GroupOf(g)[k] = GroupOf(h)[n] /\ phase \notin {"plan", "err"}
      BY <3>2, <2>b
    <3>a. /\ phase \notin {"plan", "err"}
          /\ g \in 0 .. Len(FolderList) - 1 /\ h \in 0 .. Len(FolderList) - 1
          /\ k \in 1 .. Len(GroupOf(g)) /\ n \in 1 .. Len(GroupOf(h)) /\ GroupOf(g)[k] = GroupOf(h)[n]
      BY <1>0, <2>3, <3>3
    <3>4. g = h /\ k = n
      <4>1. \A e, f \in 0 .. Len(FolderList) - 1 : \A i \in 1 .. Len(GroupOf(e)) : \A j \in 1 .. Len(GroupOf(f)) :
              GroupOf(e)[i] = GroupOf(f)[j] => e = f /\ i = j
        BY <3>a, GroupsApart, Zenon
      <4> QED
        BY ONLY SMTT(40), <3>a, <4>1
    <3>5. n <= cursor[g] /\ n = cursor[g] + 1
      BY <2>a, <3>2, <3>4
    <3> QED
      BY <2>1, <3>5
  <2>7. links' = links \cup {new}
    BY <1>7, <2>a, <2>b
  <2>8. IsFiniteSet(links')
    BY <1>0, <2>7, FS_AddElement
  <2>9. \A l, m \in links' : l.slot = m.slot => l = m
    BY <1>0, <2>6, <2>7
  <2>10. \A l \in links' : AreSetAside(l)' /\ IsBehind(l)'
    <3>1. \A l \in links : AreSetAside(l)' /\ IsBehind(l)'
      BY <1>0, <1>2, <2>1
    <3>2. AreSetAside(new)' /\ IsBehind(new)'
      BY <1>2, <2>4, <2>5
    <3> HIDE DEF AreSetAside, IsBehind
    <3> QED
      BY <2>7, <3>1, <3>2
  <2> QED
    BY <1>0, <1>3, <2>1, <2>8, <2>9, <2>10 DEF SevenZInv
<1> QED
  BY <1>1, <1>4, <1>6, <1>7

(* Every step of a 7z keeps to it.                                          *)
LEMMA SevenZStep ==
  ASSUME PlanInv, TreeInv, SevenZInv, format = "7z", OfSevenZ!Next, UNCHANGED format
  PROVE  TreeStep /\ SevenZInv'
<1>0. /\ IsTree(tree) /\ at \in Nat /\ IsArchive(archive) /\ Fills(tree, tree)
      /\ OfSevenZ!plan = planned.plan
  BY Filling DEF PlanInv, TreeInv, SevenZInv, OfSevenZ!plan
<1>1. CASE OfSevenZ!Plan
  <2>1. /\ phase = "plan" /\ phase' \in {"directories", "err"} /\ tree' = tree /\ at' = at
        /\ UNCHANGED <<archive, options, before, links>>
    BY <1>1 DEF OfSevenZ!Plan, OfSevenZ!input, OfSevenZ!folders
  <2> QED
    BY <1>0, <2>1, SevenZLoop
<1>2. CASE OfSevenZ!MakeDirectory \/ OfSevenZ!MakeParents \/ OfSevenZ!DirectoriesEnd
  <2>1. /\ phase = "directories" /\ phase' \in {"directories", "empty", "err"} /\ at' \in Nat
        /\ UNCHANGED <<archive, options, before, links>>
    BY <1>0, <1>2 DEF OfSevenZ!MakeDirectory, OfSevenZ!MakeParents, OfSevenZ!DirectoriesEnd, OfSevenZ!InLoop, OfSevenZ!LoopEnds,
                      OfSevenZ!Onward, OfSevenZ!Stopped, OfSevenZ!input, OfSevenZ!folders
  <2>2. tree' \in {tree, WithDirectories(tree, OfSevenZ!item.path), WithParents(tree, OfSevenZ!item.path)}
    BY <1>2, OfSevenZTree DEF OfSevenZ!MakeDirectory, OfSevenZ!MakeParents, OfSevenZ!DirectoriesEnd, OfSevenZ!LoopEnds
  <2>3. Fills(tree, tree')
    BY ZenonT(40), <1>0, <2>2, Filling
  <2> QED
    BY <2>1, <2>3, SevenZLoop
<1>3. CASE OfSevenZ!WriteEmpty
  <2> DEFINE file == planned.plan[EmptySlots[at + 1]]
  <2>1. /\ phase = "empty" /\ phase' \in {"empty", "err"} /\ at' \in Nat /\ at < Len(EmptySlots)
        /\ UNCHANGED <<archive, options, before, links>>
    BY <1>0, <1>3, OfSevenZSlots DEF OfSevenZ!WriteEmpty, OfSevenZ!InLoop, OfSevenZ!Onward, OfSevenZ!Stopped,
                                     OfSevenZ!input, OfSevenZ!folders
  <2>2. EmptySlots[at + 1] \in DOMAIN planned.plan
    <3>1. at + 1 \in 1 .. Len(EmptySlots)
      BY <1>0, <2>1, EmptyFacts
    <3> QED
      BY <3>1, EmptyFacts
  <2>3. file.index \in Nat
    BY SMTT(40), <2>2, PlannedFacts
  <2>4. tree' = tree \/ tree' = [tree EXCEPT ![file.path] = [kind |-> "file", by |-> file.index]]
    BY <1>0, <1>3, OfSevenZSlots DEF OfSevenZ!WriteEmpty
  <2> HIDE DEF file
  <2>6. Fills(tree, tree')
    BY <1>0, <2>3, <2>4, FillingNode, Filling
  <2> QED
    BY <2>1, <2>6, SevenZLoop
<1>4. CASE OfSevenZ!StartFolders
  <2> DEFINE n == Len(FolderList)
  <2>1. /\ phase = "empty" /\ phase' = "folders" /\ at' = 0 /\ UNCHANGED <<archive, options, before, planned, tree, links>>
        /\ count' = n
        /\ work' = [g \in 0 .. count' - 1 |-> "todo"]
        /\ cursor' = [g \in 0 .. count' - 1 |-> 0] /\ position' = [g \in 0 .. count' - 1 |-> 0]
    BY <1>4, OfSevenZSlots DEF OfSevenZ!StartFolders, OfSevenZ!input
  <2>2. FolderList' = FolderList
    BY <2>1, GroupsStay
  <2>3. links' = {}
    BY <2>1 DEF SevenZInv
  <2>4. /\ work' = [g \in 0 .. n - 1 |-> "todo"]
        /\ cursor' = [g \in 0 .. n - 1 |-> 0] /\ position' = [g \in 0 .. n - 1 |-> 0]
    BY <2>1
  <2>5. /\ DOMAIN work' = 0 .. Len(FolderList') - 1
        /\ cursor' \in [DOMAIN work' -> Nat] /\ position' \in [DOMAIN work' -> Nat]
    BY <2>2, <2>4
  <2>6. IsFiniteSet(links')
    BY <2>3, FS_EmptySet
  <2>7. TreeStep
    BY <1>0, <2>1, FillIsStep
  <2>8. SevenZInv'
    BY <2>1, <2>3, <2>5, <2>6 DEF SevenZInv
  <2> QED
    BY <2>7, <2>8
<1>5. ASSUME NEW g \in DOMAIN work,
             OfSevenZ!OpenFolder(g) \/ OfSevenZ!ReadLink(g) \/ OfSevenZ!CheckFile(g) \/ OfSevenZ!CreateFile(g)
               \/ OfSevenZ!FailFile(g) \/ OfSevenZ!CompleteFile(g) \/ OfSevenZ!CompleteFolder(g)
      PROVE  TreeStep /\ SevenZInv'
  <2> DEFINE p == OfSevenZ!Target(g)
             n == OfSevenZ!Discarded(g)
             f == OfSevenZ!Folder(OfSevenZ!slot(g))
             e == OfSevenZ!EntryAt(f, n)
  <2> USE DEF OfSevenZ!InPool
  <2>1. phase = "folders" /\ UNCHANGED <<archive, options, before, phase, planned, at>>
    BY <1>5 DEF OfSevenZ!OpenFolder, OfSevenZ!ReadLink, OfSevenZ!CheckFile, OfSevenZ!CreateFile,
                OfSevenZ!FailFile, OfSevenZ!CompleteFile, OfSevenZ!CompleteFolder, OfSevenZ!input
  <2>2. DOMAIN work' = DOMAIN work
    BY <1>5 DEF OfSevenZ!OpenFolder, OfSevenZ!ReadLink, OfSevenZ!CheckFile, OfSevenZ!CreateFile,
                OfSevenZ!FailFile, OfSevenZ!CompleteFile, OfSevenZ!CompleteFolder, OfSevenZ!FolderFails, OfSevenZ!Becomes
  <2>3. n \in Nat
    <3>1. position[g] \in Nat
      BY <2>1 DEF SevenZInv
    <3>2. \A i : OfSevenZ!Before(i) \in Nat
      BY <1>0, OfSevenZSlots, OffsetFacts
    <3> QED
      BY <3>1, <3>2 DEF OfSevenZ!Discarded
  <2> HIDE DEF n, f
  <2>4. e \in DOMAIN archive \cup {0} /\ DOMAIN archive \subseteq Nat
    BY <1>0, <2>3, EntryAtFacts DEF IsArchive
  <2> HIDE DEF e, p
  <2>5. \/ tree' \in {tree, Cleared(tree, p)}
        \/ tree' = [tree EXCEPT ![p] = [kind |-> "partial", by |-> e]]
        \/ tree[p].kind = "partial" /\ tree' = [tree EXCEPT ![p].kind = "file"]
    BY <1>5, OfSevenZTree DEF OfSevenZ!OpenFolder, OfSevenZ!ReadLink, OfSevenZ!CheckFile, OfSevenZ!CreateFile,
                OfSevenZ!FailFile, OfSevenZ!CompleteFile, OfSevenZ!CompleteFolder, p, e, f, n
  <2>6. e \in Nat
    BY <2>4
  <2>7. Fills(tree, tree')
    <3>1. tree' \in {tree, Cleared(tree, p)} => Fills(tree, tree')
      BY <1>0, Filling
    <3>2. Fills(tree, [tree EXCEPT ![p] = [kind |-> "partial", by |-> e]])
      <4>1. "partial" \in {"file", "partial", "link"}
        OBVIOUS
      <4> QED
        BY <1>0, <2>6, <4>1, FillingNode, Zenon
    <3>3. tree[p].kind = "partial" => Fills(tree, [tree EXCEPT ![p].kind = "file"])
      BY <1>0, Filling, Zenon
    <3> QED
      BY <2>5, <3>1, <3>2, <3>3
  <2>8. \/ UNCHANGED <<cursor, position, links>>
        \/ /\ position' = [position EXCEPT ![g] = n + 1]
           /\ cursor' = [cursor EXCEPT ![g] = @ + 1]
           /\ \/ links' = links
              \/ /\ cursor[g] < Len(GroupOf(g)) /\ e # 0
                 /\ links' = links \cup {[slot |-> GroupOf(g)[cursor[g] + 1], by |-> e]}
    <3>1. OfSevenZ!slot(g) = GroupOf(g)[cursor[g] + 1] /\ (OfSevenZ!HasNext(g) => cursor[g] < Len(GroupOf(g)))
      BY OfSevenZSlots DEF OfSevenZ!slot, OfSevenZ!HasNext
    <3>2. CASE OfSevenZ!ReadLink(g)
      BY <3>1, <3>2 DEF OfSevenZ!ReadLink, OfSevenZ!FolderFails, OfSevenZ!NextEntry, e, f, n
    <3>3. CASE OfSevenZ!OpenFolder(g) \/ OfSevenZ!CheckFile(g) \/ OfSevenZ!CreateFile(g)
                 \/ OfSevenZ!FailFile(g) \/ OfSevenZ!CompleteFile(g) \/ OfSevenZ!CompleteFolder(g)
      BY <3>3 DEF OfSevenZ!OpenFolder, OfSevenZ!CheckFile, OfSevenZ!CreateFile, OfSevenZ!FailFile, OfSevenZ!CompleteFile,
                  OfSevenZ!CompleteFolder, OfSevenZ!FolderFails, OfSevenZ!NextEntry, n
    <3> QED
      BY <1>5, <3>2, <3>3
  <2>9. \/ UNCHANGED <<cursor, position, links>>
        \/ /\ \E where \in Nat : position' = [position EXCEPT ![g] = where]
           /\ cursor' = [cursor EXCEPT ![g] = @ + 1]
           /\ \/ links' = links
              \/ /\ cursor[g] < Len(GroupOf(g))
                 /\ \E by \in DOMAIN archive : links' = links \cup {[slot |-> GroupOf(g)[cursor[g] + 1], by |-> by]}
    <3>1. n + 1 \in Nat
      BY <2>3
    <3>2. e # 0 => e \in DOMAIN archive
      BY <2>4
    <3> QED
      BY <2>8, <3>1, <3>2
  <2> QED
    BY <2>1, <2>2, <2>7, <2>9, FolderStep
<1>6. CASE OfSevenZ!KeepFailure
  <2>1. phase = "folders" /\ UNCHANGED <<archive, options, before, tree, phase, planned, at, work, cursor, position, links>>
    BY <1>6 DEF OfSevenZ!KeepFailure, OfSevenZ!input, OfSevenZ!folders
  <2>2. FolderList' = FolderList /\ \A h : GroupOf(h)' = GroupOf(h)
    BY <2>1, GroupsStay
  <2>3. \A l : AreSetAside(l)' = AreSetAside(l) /\ (IsBehind(l)' <=> IsBehind(l))
    BY <2>1, <2>2 DEF AreSetAside, IsBehind
  <2>4. SevenZInv'
    BY <2>1, <2>2, <2>3 DEF SevenZInv
  <2> QED
    BY <1>0, <2>1, <2>4, FillIsStep
<1>7. CASE OfSevenZ!FoldersReturn
  <2>1. /\ phase = "folders" /\ phase' \in {"links", "err"} /\ tree' = tree /\ at' = at
        /\ UNCHANGED <<archive, options, before, links>>
    BY <1>7 DEF OfSevenZ!FoldersReturn, OfSevenZ!input, OfSevenZ!folders
  <2> QED
    BY <1>0, <2>1, SevenZLoop
<1>8. CASE OfSevenZ!MakeLink
  <2> DEFINE l == LinkList[at + 1]
             p == planned.plan[l.slot].path
  <2>1. /\ phase = "links" /\ phase' \in {"links", "err"} /\ at' \in Nat /\ at < Cardinality(links)
        /\ UNCHANGED <<archive, options, before, links>>
    BY SMTT(40), <1>0, <1>8, OfSevenZSlots DEF OfSevenZ!MakeLink, OfSevenZ!InLoop, OfSevenZ!Onward, OfSevenZ!Stopped,
                                     OfSevenZ!input, OfSevenZ!folders
  <2>2. tree' = tree \/ tree' = [tree EXCEPT ![p] = [kind |-> "link", by |-> l.by]]
    BY <1>0, <1>8, OfSevenZSlots DEF OfSevenZ!MakeLink, OfSevenZ!link
  <2>3. l \in links
    <3>1. IsFiniteSet(links) /\ (\A m \in links : m.slot \in Nat) /\ \A m, n \in links : m.slot = n.slot => m = n
      BY DEF SevenZInv, AreSetAside
    <3>2. Sorted(LinkList, links, Below(LinkKeys, links)) /\ Cardinality(links) \in Nat
      BY <3>1, LinksSort, FS_CardinalityType
    <3>3. at + 1 \in 1 .. Cardinality(links)
      BY <1>0, <2>1, <3>2
    <3> QED
      BY <3>2, <3>3 DEF Sorted
  <2>4. l.by \in Nat
    BY <1>0, <2>3 DEF SevenZInv, AreSetAside, IsArchive
  <2> HIDE DEF l, p
  <2>6. Fills(tree, tree')
    BY <1>0, <2>2, <2>4, FillingNode, Filling
  <2> QED
    BY <2>1, <2>6, SevenZLoop
<1>9. CASE OfSevenZ!LinksEnd \/ OfSevenZ!DeletionsEnd
  <2>1. /\ phase \in {"links", "deletions"} /\ phase' \in {"deletions", "seal"} /\ tree' = tree /\ at' = 0
        /\ UNCHANGED <<archive, options, before, links>>
    BY <1>9 DEF OfSevenZ!LinksEnd, OfSevenZ!DeletionsEnd, OfSevenZ!LoopEnds, OfSevenZ!input, OfSevenZ!folders
  <2> QED
    BY <1>0, <2>1, SevenZLoop
<1>10. CASE OfSevenZ!Delete \/ OfSevenZ!DeleteThroughLink
  <2>1. /\ phase = "deletions" /\ phase' \in {"deletions", "err"} /\ at' \in Nat
        /\ UNCHANGED <<archive, options, before, links>>
    BY <1>0, <1>10 DEF OfSevenZ!Delete, OfSevenZ!DeleteThroughLink, OfSevenZ!InLoop, OfSevenZ!Onward, OfSevenZ!Stopped,
                       OfSevenZ!input, OfSevenZ!folders
  <2>2. tree' = tree \/ \E p : tree' = [tree EXCEPT ![p] = Missing]
    BY <1>10, OfSevenZTree DEF OfSevenZ!Delete, OfSevenZ!DeleteThroughLink
  <2>3. Fills(tree, tree')
    BY <1>0, <2>2, Filling
  <2> QED
    BY <2>1, <2>3, SevenZLoop
<1>11. CASE OfSevenZ!Seal
  <2> DEFINE items == ItemsOf("dir")
             item == NextOf(items, at)
  <2>1. /\ items \in Seq(PlanItems(archive, options)) /\ DOMAIN items = 1 .. Len(SlotsOf("dir"))
        /\ Len(items) = Len(SlotsOf("dir")) /\ HavePaths(items)
    BY SlotsFacts, ItemPlace DEF HavePaths
  <2>2. OfSevenZ!Directories = items
    BY SMTT(40), OfSevenZSlots
  <2>3. /\ phase = "seal" /\ phase' = "seal" /\ at' = at + 1 /\ at < Len(items)
        /\ UNCHANGED <<archive, options, before, planned, links>>
        /\ Seals(item, tree, tree')
    <3> HIDE DEF items
    <3> QED
      BY <1>11, <2>2, OfSevenZOrder DEF OfSevenZ!Seal, OfSevenZ!InLoop, OfSevenZ!Onward, OfSevenZ!input, OfSevenZ!folders,
                                        item, NextOf, Seals
  <2>4. Waiting = items /\ Waiting' = items
    <3>1. OfSevenZ!Directories' = OfSevenZ!Directories
      BY <2>3 DEF OfSevenZ!Directories, OfSevenZ!Slots, OfSevenZ!InOrder, OfSevenZ!plan
    <3> QED
      BY <2>2, <3>1 DEF Waiting
  <2>5. at \in Nat /\ at < Len(items) /\ IsTree(tree) /\ SealedIn(tree) \subseteq DoneFirst(items, at)
    BY <1>0, <2>3, <2>4 DEF TreeInv
  <2> HIDE DEF items, item
  <2>6. /\ IsTree(tree')
        /\ \A p \in Differs(tree, tree') : Above(p) \cap SealedIn(tree) = {}
        /\ SealedIn(tree') \subseteq DoneFirst(items, at + 1)
    <3>1. item = NextOf(items, at)
      BY DEF item
    <3>2. Seals(item, tree, tree')
      BY <2>3
    <3> QED
      BY <2>1, <2>5, <3>1, <3>2, SealFacts
  <2>7. at' \in Nat /\ DoneFirst(Waiting', at') = DoneFirst(items, at + 1)
    BY <1>0, <2>3, <2>4
  <2>8. TreeStep
    BY <2>3, <2>6, <2>7 DEF TreeStep
  <2>9. \A l : AreSetAside(l)' = AreSetAside(l)
    BY <2>3 DEF AreSetAside
  <2> QED
    BY <2>3, <2>7, <2>8, <2>9 DEF SevenZInv
<1>12. CASE OfSevenZ!Finish \/ OfSevenZ!Ended
  <2>1. /\ UNCHANGED <<archive, tree, at, links>> /\ phase \in {"seal", "done", "err"} /\ phase' \in {"done", "err"}
        /\ phase \in {"done", "err"} => phase' = phase
        /\ phase = "seal" => phase' = "done"
    BY <1>12 DEF OfSevenZ!Finish, OfSevenZ!Ended, OfSevenZ!vars, OfSevenZ!input, OfSevenZ!folders
  <2>2. Differs(tree, tree') = {}
    BY <2>1 DEF Differs
  <2>3. \A l : AreSetAside(l)' = AreSetAside(l)
    BY <2>1 DEF AreSetAside
  <2>4. TreeStep
    BY <1>0, <2>1, <2>2 DEF TreeStep
  <2> QED
    BY <1>0, <2>1, <2>3, <2>4 DEF SevenZInv
<1> QED
  BY <1>1, <1>2, <1>3, <1>4, <1>5, <1>6, <1>7, <1>8, <1>9, <1>10, <1>11, <1>12 DEF OfSevenZ!Next

-----------------------------------------------------------------------------
(* The three ways together.                                                 *)
IInv ==
  /\ PlanInv /\ TreeInv
  /\ format = "zip" => ZipInv
  /\ format = "tar" => TarInv
  /\ format = "7z" => SevenZInv

(* They hold at the start,                                                  *)
LEMMA IInvInit == Init => IInv
<1> SUFFICES ASSUME Init PROVE IInv
  OBVIOUS
<1>1. PlanInv /\ TreeInv
  BY PlanInvInit, TreeInvInit
<1>2. at = 0 /\ phase = "plan"
  BY DEF Init, OfZip!Init, OfTar!Init, OfSevenZ!Init
<1>3. format = "zip" => ZipInv
  BY <1>2 DEF ZipInv
<1>4. ASSUME format = "tar" PROVE TarInv
  <2>1. bodies = <<>> /\ pending = <<>> /\ directories = <<>>
    BY <1>4 DEF Init, OfTar!Init
  <2> QED
    BY <1>2, <2>1 DEF TarInv
<1>5. ASSUME format = "7z" PROVE SevenZInv
  <2>1. links = {}
    BY <1>5 DEF Init, OfSevenZ!Init
  <2> QED
    BY <1>2, <2>1, FS_EmptySet DEF SevenZInv
<1> QED
  BY <1>1, <1>3, <1>4, <1>5 DEF IInv

(* and a step keeps them and does to the destination only what TreeStep     *)
(* allows.                                                                  *)
LEMMA IInvNext ==
  ASSUME IInv, Next
  PROVE  IInv' /\ TreeStep
<1>1. PlanMoves /\ PlanInv'
  BY ZipMoves, TarMoves, SevenZMoves, PlanInvNext DEF IInv, PlanInv
<1>2. /\ TreeStep
      /\ format = "zip" => ZipInv'
      /\ format = "tar" => TarInv'
      /\ format = "7z" => SevenZInv'
  <2>1. CASE format = "zip" /\ OfZip!Next
    BY <2>1, ZipStep DEF IInv, Next
  <2>2. CASE format = "tar" /\ OfTar!Next
    BY <2>2, TarStep DEF IInv, Next
  <2>3. CASE format = "7z" /\ OfSevenZ!Next
    BY <2>3, SevenZStep DEF IInv, Next
  <2> QED
    BY <2>1, <2>2, <2>3 DEF Next
<1>3. TreeInv'
  BY <1>1, <1>2, TreeInvNext DEF IInv
<1>4. format' = format
  BY DEF Next
<1> QED
  BY <1>1, <1>2, <1>3, <1>4 DEF IInv

(* All of it depends on the variables alone.                                *)
LEMMA IInvStays ==
  ASSUME IInv, UNCHANGED vars
  PROVE  IInv'
<1> USE DEF vars, shared, tarOnly, sevenZOnly
<1>1. /\ Changeable' = Changeable /\ \A kind : SlotsOf(kind)' = SlotsOf(kind) /\ ItemsOf(kind)' = ItemsOf(kind)
  BY SlotsStay
<1>2. Waiting' = Waiting
  <2>1. /\ OfZip!Items("dir")' = OfZip!Items("dir") /\ OfTar!Directories' = OfTar!Directories
        /\ OfSevenZ!Directories' = OfSevenZ!Directories
    BY DEF OfZip!Items, OfZip!Slots, OfZip!InOrder, OfZip!plan, OfTar!Directories, OfTar!plan,
           OfSevenZ!Directories, OfSevenZ!Slots, OfSevenZ!InOrder, OfSevenZ!plan
  <2> QED
    BY <2>1 DEF Waiting
<1>3. PlanInv'
  BY PlanInvNext DEF IInv
<1>4. TreeInv'
  BY <1>1, <1>2 DEF IInv, TreeInv
<1>5. format = "zip" => ZipInv'
  BY <1>1 DEF IInv, ZipInv
<1>6. format = "tar" => TarInv'
  <2>1. BodySlots' = BodySlots /\ LinkSlots' = LinkSlots /\ DirSlots' = DirSlots
    BY TarSlotsStay
  <2> QED
    BY <2>1 DEF IInv, TarInv
<1>7. format = "7z" => SevenZInv'
  <2>1. FolderList' = FolderList /\ \A g : GroupOf(g)' = GroupOf(g)
    BY GroupsStay
  <2>2. \A l : AreSetAside(l)' = AreSetAside(l) /\ (IsBehind(l)' <=> IsBehind(l))
    BY <2>1 DEF AreSetAside, IsBehind
  <2> QED
    BY <2>1, <2>2 DEF IInv, SevenZInv
<1> QED
  BY <1>3, <1>4, <1>5, <1>6, <1>7 DEF IInv

(* So all of it holds throughout.                                           *)
LEMMA IInvAlways == Spec => []IInv
<1>1. IInv /\ [Next]_vars => IInv'
  BY IInvNext, IInvStays
<1> QED
  BY <1>1, IInvInit, PTL DEF Spec

(* At every moment, and so after a failure too, a zip or a tar has changed  *)
(* no path but those its plan needs as directories and the planned ones     *)
(* that were free or may be replaced.                                       *)
THEOREM OnlyPlannedChanges == Spec => []OnlyPlanned
<1>1. IInv => OnlyPlanned
  BY DEF IInv, TreeInv, Differs, Changeable, OnlyPlanned
<1> QED
  BY <1>1, IInvAlways, PTL

(* No step changes what lies below a directory that has its metadata: not   *)
(* the loops, the workers or the deletions, which are over by then, and not *)
(* the directories that get theirs later, none of which lies deeper.        *)
THEOREM DirectoriesAreLast == Spec => DirectoriesLast
<1>1. IInv /\ [Next]_vars => [\A p \in Paths : tree'[p] # tree[p] => Above(p) \cap Sealed = {}]_vars
  <2> SUFFICES ASSUME IInv, Next, NEW p \in Paths, tree'[p] # tree[p] PROVE Above(p) \cap Sealed = {}
    OBVIOUS
  <2>1. TreeStep
    BY IInvNext
  <2>2. Sealed = SealedIn(tree)
    BY DEF Sealed, SealedIn
  <2> QED
    BY <2>1, <2>2 DEF TreeStep, Differs
<1> QED
  BY <1>1, IInvAlways, PTL DEF Spec, DirectoriesLast
-----------------------------------------------------------------------------
(* The hard links of a tar.  A directory stays one from when it is made,    *)
KeepsDirectories(t, u) == \A p \in Paths : t[p].kind = "dir" => u[p].kind = "dir"

(* and a link, the n-th that waits, stays the file of the name it points at *)
(* until a later one is done that has to do with either of the two.         *)
NameOf(n) == planned.plan[pending[n]].path
PointsAt(n) == SourceOf(pending[n])
Shares(t, n) ==
  \/ t[NameOf(n)] = t[PointsAt(n)] /\ t[NameOf(n)].kind # "dir"
  \/ \E p \in Above(PointsAt(n)) : t[p].kind = "link"
Overtaken(n) ==
  \E m \in DOMAIN pending :
    m > n /\ (NameOf(m) \in Above(PointsAt(n)) \/ {NameOf(n), PointsAt(n)} \cap Ancestry(NameOf(m)) # {})

HardLinkInv ==
  /\ \A n \in DOMAIN directories : tree[planned.plan[directories[n]].path].kind = "dir"
  /\ phase \in {"plan", "entries", "bodies"} => made = {}
  /\ phase = "hardlinks" => \A n \in made : n <= at
  /\ phase \in {"hardlinks", "seal", "done"} =>
       made \subseteq DOMAIN pending /\ \A n \in made : Shares(tree, n) \/ Overtaken(n)

(* What the operations do to directories.                                   *)
LEMMA KeptDirectories ==
  ASSUME NEW t, IsTree(t)
  PROVE  /\ KeepsDirectories(t, t)
         /\ \A p : KeepsDirectories(t, WithDirectories(t, p)) /\ KeepsDirectories(t, WithParents(t, p))
         /\ \A p : KeepsDirectories(t, Cleared(t, p))
         /\ \A p \in Paths : \A node : t[p].kind # "dir" => KeepsDirectories(t, [t EXCEPT ![p] = node])
         /\ \A u, v : KeepsDirectories(t, u) /\ KeepsDirectories(u, v) => KeepsDirectories(t, v)
<1>1. \A p : KeepsDirectories(t, WithDirectories(t, p))
  BY DEF KeepsDirectories, WithDirectories, Fresh
<1>2. \A p : KeepsDirectories(t, Cleared(t, p))
  BY DEF KeepsDirectories, Cleared, IsTree
<1>3. \A p \in Paths : \A node : t[p].kind # "dir" => KeepsDirectories(t, [t EXCEPT ![p] = node])
  BY DEF KeepsDirectories, IsTree
<1>4. KeepsDirectories(t, t) /\ \A u, v : KeepsDirectories(t, u) /\ KeepsDirectories(u, v) => KeepsDirectories(t, v)
  BY DEF KeepsDirectories
<1>5. \A p : KeepsDirectories(t, WithParents(t, p))
  BY <1>1, <1>4 DEF WithParents
<1> QED
  BY <1>1, <1>2, <1>3, <1>4, <1>5

(* A step before the hard links.                                            *)
LEMMA BeforeLinks ==
  ASSUME IInv, HardLinkInv, format = "tar", phase \in {"plan", "entries", "bodies"}, made' = made,
         phase' \in {"entries", "bodies", "hardlinks", "err"}, KeepsDirectories(tree, tree'),
         phase # "plan" => planned' = planned,
         \/ directories' = directories
         \/ /\ directories' = Append(directories, at + 1) /\ at + 1 \in DirSlots
            /\ tree'[planned.plan[at + 1].path].kind = "dir"
  PROVE  HardLinkInv'
<1>1. directories \in Seq(DirSlots) /\ (phase = "plan" => directories = <<>>)
  BY DEF IInv, TarInv
<1>2. made' = {}
  BY DEF HardLinkInv
<1>3. \A n \in DOMAIN directories : directories[n] \in DOMAIN planned.plan /\ planned.plan[directories[n]].path \in Paths
  BY <1>1, PlannedFacts DEF DirSlots, IInv
<1>4. \A n \in DOMAIN directories : tree'[planned.plan[directories[n]].path].kind = "dir"
  BY <1>3 DEF HardLinkInv, KeepsDirectories
<1>5. \A n \in DOMAIN directories' : tree'[planned'.plan[directories'[n]].path].kind = "dir"
  <2>1. CASE directories' = directories /\ phase = "plan"
    BY <1>1, <2>1
  <2>2. CASE directories' = directories /\ phase # "plan"
    BY <1>4, <2>2
  <2>3. CASE /\ directories' = Append(directories, at + 1) /\ at + 1 \in DirSlots
             /\ tree'[planned.plan[at + 1].path].kind = "dir"
    <3>1. phase # "plan"
      <4>1. phase = "plan" => planned.plan = <<>>
        BY DEF IInv, PlanInv, NoPlan
      <4> QED
        BY <2>3, <4>1 DEF DirSlots
    <3> DEFINE s == at + 1
    <3> HIDE DEF s
    <3>2. directories' = Append(directories, s) /\ tree'[planned.plan[s].path].kind = "dir"
      BY <2>3 DEF s
    <3>3. \A n \in DOMAIN directories' : (n \in DOMAIN directories /\ directories'[n] = directories[n]) \/ directories'[n] = s
      BY SMTT(40), <1>1, <3>2
    <3> QED
      BY <1>4, <3>1, <3>2, <3>3
  <2> QED
    BY <2>1, <2>2, <2>3
<1> QED
  BY <1>2, <1>5 DEF HardLinkInv

(* Steps up to the hard links.                                              *)
LEMMA HardLinksWait ==
  ASSUME IInv, HardLinkInv, format = "tar", OfTar!Next, phase \in {"plan", "entries", "bodies"}
  PROVE  HardLinkInv'
<1> DEFINE s == at + 1
           path == planned.plan[s].path
           there == WithParents(tree, path)
<1>0. IsTree(tree) /\ at \in Nat /\ KeepsDirectories(tree, tree) /\ OfTar!plan = planned.plan
  BY KeptDirectories DEF IInv, TreeInv, TarInv, OfTar!plan
<1>1. ASSUME at < Len(planned.plan)
      PROVE  /\ s \in DOMAIN planned.plan /\ path \in Paths /\ IsTree(there) /\ KeepsDirectories(tree, there)
             /\ KeepsDirectories(tree, WithDirectories(tree, path)) /\ WithDirectories(tree, path)[path].kind = "dir"
  <2>1. s \in DOMAIN planned.plan
    BY <1>0, <1>1, PlannedFacts DEF IInv
  <2> HIDE DEF s
  <2>2. path \in Paths
    BY <2>1, PlannedFacts DEF IInv
  <2> HIDE DEF path
  <2>3. path \in Ancestry(path)
    BY <2>2, PathFacts
  <2>4. WithDirectories(tree, path)[path].kind = "dir"
    BY <2>2, <2>3 DEF WithDirectories, Fresh
  <2> QED
    BY <1>0, <2>1, <2>2, <2>4, KeptDirectories, WithParentsFacts
<1>2. CASE OfTar!Plan
  <2>1. phase = "plan" /\ phase' \in {"entries", "err"} /\ tree' = tree /\ UNCHANGED <<made, directories>>
    BY <1>2 DEF OfTar!Plan, OfTar!waiting
  <2> QED
    BY <1>0, <2>1, BeforeLinks
<1>3. CASE OfTar!HardLinkEntry \/ OfTar!SpecialEntry
  <2>1. phase = "entries" /\ phase' \in {"entries", "err"} /\ UNCHANGED <<tree, planned, made, directories>>
    BY <1>3 DEF OfTar!HardLinkEntry, OfTar!SpecialEntry, OfTar!InLoop, OfTar!Onward, OfTar!Stopped, OfTar!waiting
  <2> QED
    BY <1>0, <2>1, BeforeLinks
<1>4. CASE OfTar!DirectoryEntry
  <2>1. /\ phase = "entries" /\ phase' \in {"entries", "err"} /\ UNCHANGED <<planned, made>>
        /\ at < Len(planned.plan) /\ planned.plan[s].kind = "dir"
        /\ \/ UNCHANGED <<tree, directories>>
           \/ tree' = WithDirectories(tree, path) /\ directories' = Append(directories, s)
    BY <1>0, <1>4, OfTarTree DEF OfTar!DirectoryEntry, OfTar!InLoop, OfTar!Onward, OfTar!Stopped, OfTar!waiting, OfTar!item
  <2>2. s \in DirSlots
    BY <1>1, <2>1 DEF DirSlots
  <2>3. KeepsDirectories(tree, tree')
    BY <1>0, <1>1, <2>1
  <2>4. \/ directories' = directories
        \/ /\ directories' = Append(directories, at + 1) /\ at + 1 \in DirSlots
           /\ tree'[planned.plan[at + 1].path].kind = "dir"
    BY <1>1, <2>1, <2>2
  <2> QED
    BY <2>1, <2>3, <2>4, BeforeLinks
<1>5. CASE OfTar!LinkEntry
  <2>1. /\ phase = "entries" /\ phase' \in {"entries", "err"} /\ UNCHANGED <<planned, made, directories>>
        /\ at < Len(planned.plan)
        /\ \/ tree' = tree \/ tree' = there
           \/ /\ Cleared(there, path)[path].kind # "dir"
              /\ \E node : tree' = [there EXCEPT ![path] = node]
    BY <1>0, <1>5, OfTarTree DEF OfTar!LinkEntry, OfTar!InLoop, OfTar!Onward, OfTar!Stopped, OfTar!waiting, OfTar!item, OfTar!Creatable
  <2>2. KeepsDirectories(tree, tree')
    <3> HIDE DEF there, path
    <3>1. Cleared(there, path)[path].kind # "dir" => there[path].kind # "dir"
      BY DEF Cleared
    <3>2. CASE Cleared(there, path)[path].kind # "dir" /\ \E node : tree' = [there EXCEPT ![path] = node]
      <4>1. IsTree(there) /\ path \in Paths /\ KeepsDirectories(tree, there)
        BY <1>1, <2>1
      <4>2. \A q \in Paths : \A node : there[q].kind # "dir" => KeepsDirectories(there, [there EXCEPT ![q] = node])
        BY ONLY <4>1, KeptDirectories
      <4>3. KeepsDirectories(there, tree')
        BY ONLY ZenonT(40), <3>1, <3>2, <4>1, <4>2
      <4> QED
        BY <1>0, <4>1, <4>3, KeptDirectories
    <3> QED
      BY <1>0, <1>1, <2>1, <3>2
  <2> QED
    BY SMTT(40), <2>1, <2>2, BeforeLinks
<1>6. CASE OfTar!FileEntry
  <2>1. /\ phase = "entries" /\ phase' \in {"entries", "err"} /\ UNCHANGED <<planned, made, directories>>
        /\ at < Len(planned.plan)
        /\ tree' = tree \/ tree' = there \/ tree' = Cleared(there, path)
    BY <1>0, <1>6, OfTarTree DEF OfTar!FileEntry, OfTar!InLoop, OfTar!Onward, OfTar!Stopped, OfTar!waiting, OfTar!item
  <2>2. KeepsDirectories(tree, tree')
    <3> HIDE DEF there, path
    <3>1. IsTree(there) /\ KeepsDirectories(tree, there)
      BY <1>1, <2>1
    <3>2. KeepsDirectories(there, Cleared(there, path))
      BY <3>1, KeptDirectories
    <3>3. KeepsDirectories(tree, Cleared(there, path))
      BY <1>0, <3>1, <3>2, KeptDirectories
    <3> QED
      BY <1>0, <2>1, <3>1, <3>3
  <2> QED
    BY <2>1, <2>2, BeforeLinks
<1>7. CASE OfTar!StartBodies \/ OfTar!OpenFails \/ OfTar!KeepFailure \/ OfTar!BodiesReturn
  <2>1. /\ phase \in {"entries", "bodies"} /\ phase' \in {"bodies", "hardlinks", "err"}
        /\ UNCHANGED <<tree, planned, made, directories>>
    BY <1>7 DEF OfTar!StartBodies, OfTar!OpenFails, OfTar!KeepFailure, OfTar!BodiesReturn, OfTar!waiting
  <2> QED
    BY <1>0, <2>1, BeforeLinks
<1>8. ASSUME NEW i \in DOMAIN work, OfTar!CreateBody(i) \/ OfTar!FailBody(i) \/ OfTar!CompleteBody(i)
      PROVE  HardLinkInv'
  <2> DEFINE p == OfTar!Target(i)
  <2>1. phase = "bodies" /\ phase' = "bodies" /\ UNCHANGED <<planned, made, directories>>
    BY <1>8 DEF OfTar!CreateBody, OfTar!FailBody, OfTar!CompleteBody, OfTar!InPool, OfTar!waiting
  <2>2. tree' = tree \/ (tree[p].kind # "dir" /\ \E node : tree' = [tree EXCEPT ![p] = node])
    BY <1>8 DEF OfTar!CreateBody, OfTar!FailBody, OfTar!CompleteBody, OfTar!Creatable
  <2>3. p \in Paths
    <3>1. i + 1 \in 1 .. Len(bodies) /\ bodies \in Seq(BodySlots)
      <4>1. DOMAIN work = 0 .. Len(bodies) - 1 /\ bodies \in Seq(BodySlots)
        BY <2>1 DEF IInv, TarInv
      <4> QED
        BY <4>1
    <3>2. bodies[i + 1] \in DOMAIN planned.plan
      BY <3>1 DEF BodySlots
    <3> QED
      BY <3>2, PlannedFacts DEF OfTar!Target, OfTar!plan, IInv
  <2> HIDE DEF p
  <2>4. KeepsDirectories(tree, tree')
    BY <1>0, <2>2, <2>3, KeptDirectories
  <2> QED
    BY <2>1, <2>4, BeforeLinks
<1> QED
  BY <1>2, <1>3, <1>4, <1>5, <1>6, <1>7, <1>8
     DEF OfTar!Next, OfTar!MakeHardLink, OfTar!SkipHardLink, OfTar!HardLinkFails, OfTar!InLinks, OfTar!LinksEnd,
         OfTar!Seal, OfTar!Finish, OfTar!Ended

(* A step at the metadata, or one that ends: what a directory has changes   *)
(* and nothing else, so a link stays what it was.                           *)
LEMMA AfterLinks ==
  ASSUME IInv, HardLinkInv, format = "tar", phase \in {"seal", "done"}, phase' # "hardlinks",
         phase' \notin {"plan", "entries", "bodies"},
         UNCHANGED <<archive, options, planned, pending, directories, made>>,
         \A p \in Paths : tree'[p].kind = tree[p].kind /\ (tree[p].kind # "dir" => tree'[p] = tree[p])
  PROVE  HardLinkInv'
<1>1. directories \in Seq(DirSlots) /\ pending \in Seq(LinkSlots)
  BY DEF IInv, TarInv
<1>2. \A n \in DOMAIN directories : directories[n] \in DOMAIN planned.plan /\ planned.plan[directories[n]].path \in Paths
  BY <1>1, PlannedFacts DEF DirSlots, IInv
<1>3. \A n \in DOMAIN directories : tree'[planned.plan[directories[n]].path].kind = "dir"
  BY <1>2 DEF HardLinkInv
<1>4. \A n : NameOf(n)' = NameOf(n) /\ PointsAt(n)' = PointsAt(n)
  BY DEF NameOf, PointsAt, SourceOf
<1>5. \A n : Overtaken(n)' <=> Overtaken(n)
  BY <1>4 DEF Overtaken
<1>6. ASSUME NEW n \in DOMAIN pending, Shares(tree, n) PROVE Shares(tree, n)'
  <2>1. pending[n] \in LinkSlots /\ LinkSlots \subseteq DOMAIN planned.plan
    BY <1>1 DEF LinkSlots
  <2>2. NameOf(n) \in Paths /\ PointsAt(n) \in Paths
    BY <2>1, PlannedFacts, SourceIsPath DEF IInv, NameOf, PointsAt
  <2>3. Above(PointsAt(n)) \subseteq Paths
    BY <2>2, PathFacts
  <2> QED
    BY <1>4, <1>6, <2>2, <2>3 DEF Shares
<1>7. made \subseteq DOMAIN pending /\ \A n \in made : Shares(tree, n) \/ Overtaken(n)
  BY DEF HardLinkInv
<1>8. \A n \in made' : Shares(tree, n)' \/ Overtaken(n)'
  BY <1>5, <1>6, <1>7
<1> QED
  BY <1>3, <1>7, <1>8 DEF HardLinkInv

(* A hard link that is done, made or not: only what stands in its way and   *)
(* its own place change, and no link above it.                              *)
LEMMA LinksStay ==
  ASSUME IInv, HardLinkInv, format = "tar", phase = "hardlinks", at < Len(pending), NEW next, next = at + 1,
         UNCHANGED <<archive, options, planned, pending, directories>>, at' = next,
         KeepsDirectories(tree, tree'), Differs(tree, tree') \subseteq Ancestry(NameOf(next)),
         \A q \in Above(NameOf(next)) : tree[q].kind # "link",
         made' = made \/ (made' = made \cup {next} /\ Shares(tree, next)'),
         phase' = "hardlinks"
  PROVE  HardLinkInv'
<1>1. directories \in Seq(DirSlots) /\ pending \in Seq(LinkSlots) /\ at \in Nat
  BY DEF IInv, TarInv
<1>2. \A n \in DOMAIN directories : directories[n] \in DOMAIN planned.plan /\ planned.plan[directories[n]].path \in Paths
  BY <1>1, PlannedFacts DEF DirSlots, IInv
<1>3. \A n \in DOMAIN directories : tree'[planned.plan[directories[n]].path].kind = "dir"
  BY <1>2 DEF HardLinkInv, KeepsDirectories
<1>4. \A n : NameOf(n)' = NameOf(n) /\ PointsAt(n)' = PointsAt(n)
  BY DEF NameOf, PointsAt, SourceOf
<1>5. \A n : Overtaken(n)' <=> Overtaken(n)
  BY <1>4 DEF Overtaken
<1>6. next \in DOMAIN pending /\ \A n \in made : n \in DOMAIN pending /\ n <= at /\ n < next
  BY <1>1 DEF HardLinkInv
<1>7. ASSUME NEW n \in made, Shares(tree, n), ~ Overtaken(n) PROVE Shares(tree, n)'
  <2>1. pending[n] \in LinkSlots /\ LinkSlots \subseteq DOMAIN planned.plan
    BY <1>1, <1>6 DEF LinkSlots
  <2>2. NameOf(n) \in Paths /\ PointsAt(n) \in Paths
    BY <2>1, PlannedFacts, SourceIsPath DEF IInv, NameOf, PointsAt
  <2>3. Above(PointsAt(n)) \subseteq Paths
    BY <2>2, PathFacts
  <2>4. NameOf(next) \notin Above(PointsAt(n)) /\ NameOf(n) \notin Ancestry(NameOf(next)) /\ PointsAt(n) \notin Ancestry(NameOf(next))
    BY <1>6, <1>7 DEF Overtaken
  <2>5. tree'[NameOf(n)] = tree[NameOf(n)] /\ tree'[PointsAt(n)] = tree[PointsAt(n)]
    BY <2>2, <2>4 DEF Differs
  <2>6. \A q \in Above(PointsAt(n)) : tree[q].kind = "link" => tree'[q] = tree[q]
    BY <2>3, <2>4 DEF Differs, Above
  <2> QED
    BY <1>4, <1>7, <2>5, <2>6 DEF Shares
<1>8. \A n \in made : Shares(tree, n)' \/ Overtaken(n)'
  BY <1>5, <1>7 DEF HardLinkInv
<1>9. made' = made \/ (made' = made \cup {next} /\ Shares(tree, next)')
  OBVIOUS
<1>10. at' = next /\ next \in Nat
  BY <1>1
<1>11. \A n \in made' : n \in DOMAIN pending /\ n <= at' /\ (Shares(tree, n)' \/ Overtaken(n)')
  BY <1>6, <1>8, <1>9, <1>10
<1> QED
  BY <1>3, <1>11 DEF HardLinkInv

(* Steps at the hard links and after them.                                  *)
LEMMA HardLinksAreMade ==
  ASSUME IInv, HardLinkInv, format = "tar", OfTar!Next, phase \in {"hardlinks", "seal", "done", "err"}
  PROVE  HardLinkInv'
<1>0. /\ IsTree(tree) /\ at \in Nat /\ KeepsDirectories(tree, tree) /\ OfTar!plan = planned.plan
      /\ directories \in Seq(DirSlots) /\ pending \in Seq(LinkSlots)
  BY KeptDirectories DEF IInv, TreeInv, TarInv, OfTar!plan
<1>1. ASSUME KeepsDirectories(tree, tree'), phase' = "err", UNCHANGED <<planned, directories>> PROVE HardLinkInv'
  <2>1. \A n \in DOMAIN directories : directories[n] \in DOMAIN planned.plan /\ planned.plan[directories[n]].path \in Paths
    BY <1>0, PlannedFacts DEF DirSlots, IInv
  <2>2. \A n \in DOMAIN directories : tree'[planned.plan[directories[n]].path].kind = "dir"
    BY <1>1, <2>1 DEF HardLinkInv, KeepsDirectories
  <2> QED
    BY <1>1, <2>2 DEF HardLinkInv
<1>2. CASE OfTar!MakeHardLink \/ OfTar!SkipHardLink \/ OfTar!HardLinkFails
  <2>0. PICK next : next = at + 1
    OBVIOUS
  <2> DEFINE s == pending[next]
             p == NameOf(next)
             source == PointsAt(next)
             parents == WithParents(tree, p)
             free == Cleared(parents, p)
             node == OfTar!Linked(free, source)
  <2>1. /\ phase = "hardlinks" /\ at < Len(pending)
        /\ UNCHANGED <<archive, options, planned, pending, directories>>
    BY <1>2 DEF OfTar!MakeHardLink, OfTar!SkipHardLink, OfTar!HardLinkFails, OfTar!InLinks, OfTar!input, OfTar!waiting
  <2>2. s \in LinkSlots
    <3>1. next \in 1 .. Len(pending)
      BY <1>0, <2>0, <2>1
    <3> QED
      BY <1>0, <3>1
  <2> HIDE DEF s
  <2>3. p \in Paths /\ source \in Paths
    <3>1. p = planned.plan[s].path /\ source = SourceOf(s)
      BY DEF s, NameOf, PointsAt
    <3> QED
      BY <2>2, <3>1, SourceIsPath, PlannedFacts DEF LinkSlots, IInv
  <2>4. OfTar!linkPath = p /\ OfTar!linkSource = source
    BY <2>0, OfTarPlan DEF OfTar!linkPath, OfTar!linkSource, OfTar!plan, OfTar!LinkedName, SourceOf, NameOf, PointsAt
  <2>5. OfTar!atParents = parents
    BY <2>4, OfTarTree DEF OfTar!atParents
  <2> HIDE DEF p, source
  <2>6. IsTree(parents) /\ IsTree(free) /\ KeepsDirectories(tree, parents) /\ KeepsDirectories(tree, free)
    <3>1. IsTree(parents) /\ KeepsDirectories(tree, parents)
      BY <1>0, <2>3, WithParentsFacts, KeptDirectories
    <3>2. IsTree(free) /\ KeepsDirectories(parents, free)
      BY <3>1, ClearedFacts, KeptDirectories
    <3> HIDE DEF parents, free
    <3> QED
      BY <1>0, <3>1, <3>2, KeptDirectories
  <2>7. Differs(tree, parents) \subseteq Above(p) /\ Differs(tree, free) \subseteq Ancestry(p) /\ p \in Ancestry(p)
    <3>1. Differs(tree, parents) \subseteq Above(p) /\ Differs(parents, free) \subseteq {p} /\ p \in Ancestry(p)
      BY <1>0, <2>3, <2>6, WithParentsFacts, ClearedFacts, PathFacts
    <3> HIDE DEF parents, free
    <3> QED
      BY <3>1 DEF Differs, Above
  <2>8. ASSUME ~ OfTar!ParentBlocked(tree, p) PROVE \A q \in Above(p) : tree[q].kind # "link"
    <3>1. CASE Len(p) > 1
      <4>1. OfTar!Front(p) = Front(p) /\ OfTar!Ancestry(Front(p)) = Above(p)
        BY <2>3, <3>1, PathFacts DEF OfTar!Front, Front, OfTar!Ancestry, Ancestry
      <4> QED
        BY <2>8, <3>1, <4>1 DEF OfTar!ParentBlocked, OfTar!LinkOnTheWay
    <3>2. CASE ~ (Len(p) > 1)
      BY <2>3, <3>2, PathFacts
    <3> QED
      BY <3>1, <3>2
  <2> HIDE DEF parents, free
  <2>9. CASE OfTar!MakeHardLink
    <3>1. /\ ~ OfTar!ParentBlocked(tree, p) /\ OfTar!MayExist(free, source)
          /\ free[source].kind # "dir" /\ free[p].kind # "dir"
          /\ tree' = [free EXCEPT ![p] = node]
          /\ made' = made \cup {next} /\ at' = next /\ phase' = phase
      BY <2>0, <2>4, <2>5, <2>9, OfTarTree DEF OfTar!MakeHardLink, OfTar!Onward, free
    <3>2. node = IF free[source] = Missing THEN [kind |-> "file", by |-> 0] ELSE free[source]
      BY OfTarTree DEF OfTar!Linked
    <3>3. node.kind # "dir"
      BY <3>1, <3>2
    <3> HIDE DEF node
    <3>4. tree'[p] = node /\ \A q \in Paths : q # p => tree'[q] = free[q]
      BY <2>3, <2>6, <3>1 DEF IsTree
    <3>5. KeepsDirectories(tree, tree')
      <4>1. KeepsDirectories(free, tree')
        BY <2>3, <2>6, <3>1, KeptDirectories
      <4> QED
        BY <1>0, <2>6, <4>1, KeptDirectories
    <3>6. Differs(tree, tree') \subseteq Ancestry(p)
      BY <2>7, <3>4 DEF Differs
    <3>7. (tree'[p] = tree'[source] /\ tree'[p].kind # "dir") \/ \E q \in Above(source) : tree'[q].kind = "link"
      <4>1. CASE source = p
        BY <3>3, <3>4, <4>1
      <4>2. CASE source # p /\ free[source] # Missing
        BY <2>3, <3>2, <3>3, <3>4, <4>2
      <4>3. CASE source # p /\ free[source] = Missing
        <5>1. PICK q \in Ancestry(source) : free[q].kind = "link"
          BY <3>1, <4>3 DEF OfTar!MayExist, OfTar!Exists, OfTar!LinkOnTheWay, Missing, OfTar!Ancestry, Ancestry
        <5>2. q \in Above(source) /\ q \in Paths
          BY <2>3, <4>3, <5>1, PathFacts DEF Above, Missing
        <5>3. q # p
          <6>1. free[p].kind # "link"
            BY <2>3, <2>6, <3>1 DEF free, Cleared, Missing, IsTree
          <6> QED
            BY <5>1, <6>1
        <5> QED
          BY <3>4, <5>1, <5>2, <5>3
      <4> QED
        BY <4>1, <4>2, <4>3
    <3>8. Shares(tree, next)'
      <4>1. NameOf(next)' = p /\ PointsAt(next)' = source
        BY <2>1 DEF NameOf, PointsAt, SourceOf, p, source
      <4> QED
        BY <3>7, <4>1 DEF Shares
    <3> QED
      BY <2>0, <2>1, <2>8, <3>1, <3>5, <3>6, <3>8, LinksStay DEF p
  <2>10. CASE OfTar!SkipHardLink
    <3>1. /\ ~ OfTar!ParentBlocked(tree, p) /\ tree' \in {parents, free}
          /\ made' = made /\ at' = next /\ phase' = phase
      BY <2>0, <2>4, <2>5, <2>10, OfTarTree DEF OfTar!SkipHardLink, OfTar!Onward, free
    <3>2. KeepsDirectories(tree, tree') /\ Differs(tree, tree') \subseteq Ancestry(p)
      BY <2>6, <2>7, <3>1 DEF Above
    <3> QED
      BY <2>0, <2>1, <2>8, <3>1, <3>2, LinksStay DEF p
  <2>11. CASE OfTar!HardLinkFails
    <3>1. tree' \in {tree, parents, free} /\ phase' = "err"
      BY <2>4, <2>5, <2>11, OfTarTree DEF OfTar!HardLinkFails, OfTar!Stopped, free
    <3> QED
      BY <1>0, <1>1, <2>1, <2>6, <3>1
  <2> QED
    BY <1>2, <2>9, <2>10, <2>11
<1>3. CASE OfTar!LinksEnd
  <2>1. phase = "hardlinks" /\ phase' = "seal" /\ UNCHANGED <<archive, options, planned, pending, directories, tree, made>>
    BY <1>3 DEF OfTar!LinksEnd, OfTar!input, OfTar!waiting
  <2>2. \A n : NameOf(n)' = NameOf(n) /\ PointsAt(n)' = PointsAt(n)
    BY <2>1 DEF NameOf, PointsAt, SourceOf
  <2>3. \A n : (Overtaken(n)' <=> Overtaken(n)) /\ (Shares(tree, n)' <=> Shares(tree, n))
    BY <2>1, <2>2 DEF Overtaken, Shares
  <2> QED
    BY <2>1, <2>3 DEF HardLinkInv
<1>4. CASE OfTar!Seal
  <2> DEFINE items == OfTar!Directories
             item == NextOf(items, at)
  <2>1. /\ phase = "seal" /\ phase' = "seal" /\ at < Len(directories)
        /\ UNCHANGED <<archive, options, planned, pending, directories, made>>
        /\ Seals(item, tree, tree')
    BY <1>4, OfTarOrder DEF OfTar!Seal, OfTar!input, OfTar!waiting, Seals, NextOf
  <2>2. items = [n \in DOMAIN directories |-> planned.plan[directories[n]]]
    BY DEF OfTar!Directories, OfTar!plan
  <2>3. \E n \in DOMAIN directories : item = planned.plan[directories[n]]
    <3>1. Len(items) = Len(directories) /\ DOMAIN items = 1 .. Len(directories) /\ items \in Seq(PlanItems(archive, options))
      <4>1. /\ Len(directories) \in Nat /\ DOMAIN directories = 1 .. Len(directories)
            /\ \A n \in 1 .. Len(directories) : directories[n] \in DOMAIN planned.plan
        BY <1>0 DEF DirSlots
      <4>2. \A d \in DOMAIN planned.plan : planned.plan[d] \in PlanItems(archive, options)
        BY PlannedFacts DEF IInv
      <4> HIDE DEF items
      <4> QED
        BY <2>2, <4>1, <4>2
    <3> HIDE DEF items
    <3>2. Sorted(DeepestFirst(items), DOMAIN items, Deeper(items))
      <4>1. items \in Seq(PlanItems(archive, options)) /\ \A n \in DOMAIN items : items[n].path \in Paths
        <5>1. \A n \in DOMAIN items : items[n] = planned.plan[directories[n]] /\ directories[n] \in DOMAIN planned.plan
          BY <1>0, <2>2, <3>1 DEF DirSlots
        <5> QED
          BY <3>1, <5>1, PlannedFacts DEF IInv
      <4> QED
        BY <4>1, DeepestFirstSorts
    <3>3. Cardinality(DOMAIN items) = Len(items)
      BY SMTT(40), <3>1, CountUpto
    <3>4. at + 1 \in DOMAIN DeepestFirst(items)
      BY <1>0, <2>1, <3>1, <3>2, <3>3 DEF Sorted
    <3>5. DeepestFirst(items)[at + 1] \in DOMAIN directories
      BY <3>1, <3>2, <3>4 DEF Sorted
    <3> QED
      BY <2>2, <3>5 DEF NextOf
  <2> HIDE DEF items, item
  <2>4. tree[item.path].kind = "dir" /\ item.path \in Paths
    <3>1. \A n \in DOMAIN directories : directories[n] \in DOMAIN planned.plan
      BY <1>0 DEF DirSlots
    <3> QED
      BY <2>3, <3>1, PlannedFacts DEF IInv, HardLinkInv
  <2>5. tree' = [tree EXCEPT ![item.path].by = item.index]
    BY <2>1, <2>4 DEF Seals
  <2>6. tree[item.path] \in Node
    BY <1>0, <2>4 DEF IsTree
  <2>7. [tree[item.path] EXCEPT !.by = item.index].kind = tree[item.path].kind
    BY <2>6 DEF Node
  <2>8. \A p \in Paths : tree'[p] = IF p = item.path THEN [tree[item.path] EXCEPT !.by = item.index] ELSE tree[p]
    BY <1>0, <2>4, <2>5 DEF IsTree
  <2>9. \A p \in Paths : tree'[p].kind = tree[p].kind /\ (tree[p].kind # "dir" => tree'[p] = tree[p])
    BY <2>4, <2>7, <2>8
  <2> QED
    BY SMTT(40), <2>1, <2>9, AfterLinks
<1>5. CASE OfTar!Finish \/ OfTar!Ended
  <2>1. /\ phase \in {"seal", "done", "err"} /\ phase' \in {"done", "err"} /\ (phase = "err" => phase' = "err")
        /\ phase # "err" => phase' = "done"
        /\ UNCHANGED <<archive, options, planned, pending, directories, made, tree>>
    BY <1>5 DEF OfTar!Finish, OfTar!Ended, OfTar!vars, OfTar!input, OfTar!waiting
  <2>2. CASE phase = "err"
    BY <1>0, <1>1, <2>1, <2>2
  <2>3. CASE phase # "err"
    BY <2>1, <2>3, AfterLinks
  <2> QED
    BY <2>2, <2>3
<1> QED
  BY <1>2, <1>3, <1>4, <1>5
     DEF OfTar!Next, OfTar!Plan, OfTar!HardLinkEntry, OfTar!SpecialEntry, OfTar!DirectoryEntry, OfTar!LinkEntry, OfTar!FileEntry,
         OfTar!InLoop, OfTar!StartBodies, OfTar!CreateBody, OfTar!FailBody, OfTar!CompleteBody, OfTar!InPool,
         OfTar!OpenFails, OfTar!KeepFailure, OfTar!BodiesReturn

(* So it holds throughout.                                                  *)
LEMMA HardLinksAlways == Spec => [](format = "tar" => HardLinkInv)
<1>1. Init => (format = "tar" => HardLinkInv)
  <2> SUFFICES ASSUME Init, format = "tar" PROVE HardLinkInv
    OBVIOUS
  <2>1. phase = "plan" /\ made = {} /\ directories = <<>>
    BY DEF Init, OfTar!Init
  <2> QED
    BY <2>1 DEF HardLinkInv
<1>2. ASSUME IInv, format = "tar" => HardLinkInv, [Next]_vars PROVE (format = "tar" => HardLinkInv)'
  <2>1. CASE UNCHANGED vars
    <3>1. \A n : NameOf(n)' = NameOf(n) /\ PointsAt(n)' = PointsAt(n)
      BY <2>1 DEF vars, shared, tarOnly, NameOf, PointsAt, SourceOf
    <3>2. \A n : (Overtaken(n)' <=> Overtaken(n)) /\ (Shares(tree, n)' <=> Shares(tree, n))
      BY <2>1, <3>1 DEF vars, shared, tarOnly, Overtaken, Shares
    <3> QED
      BY <1>2, <2>1, <3>2 DEF vars, shared, tarOnly, HardLinkInv
  <2>2. ASSUME Next, format' = "tar" PROVE HardLinkInv'
    <3>1. format = "tar" /\ OfTar!Next
      BY SMTT(40), <2>2 DEF Next
    <3>2. phase \in {"plan", "entries", "bodies", "hardlinks", "seal", "done", "err"}
      BY <3>1 DEF OfTar!Next, OfTar!Plan, OfTar!HardLinkEntry, OfTar!SpecialEntry, OfTar!DirectoryEntry, OfTar!LinkEntry, OfTar!FileEntry,
         OfTar!InLoop, OfTar!StartBodies, OfTar!CreateBody, OfTar!FailBody, OfTar!CompleteBody, OfTar!InPool,
         OfTar!OpenFails, OfTar!KeepFailure, OfTar!BodiesReturn, OfTar!MakeHardLink, OfTar!SkipHardLink, OfTar!HardLinkFails,
         OfTar!InLinks, OfTar!LinksEnd, OfTar!Seal, OfTar!Finish, OfTar!Ended
    <3> QED
      BY <1>2, <3>1, <3>2, HardLinksWait, HardLinksAreMade
  <2> QED
    BY <1>2, <2>1, <2>2
<1> QED
  BY <1>1, <1>2, IInvAlways, PTL DEF Spec

(* A hard link that a tar's extraction counts as made is, when it is over,  *)
(* the file of the name it points at, whatever the entries, the options and *)
(* the destination: unless a link leads to that name, a later hard link     *)
(* took one of the two names or a place above one.                          *)
THEOREM HardLinksAreShared == Spec => []HardLinksShare
<1>1. IInv /\ (format = "tar" => HardLinkInv) => HardLinksShare
  <2> SUFFICES ASSUME IInv, HardLinkInv, format = "tar", phase = "done", NEW n \in made
               PROVE  Shares(tree, n) \/ Overtaken(n)
    BY OfTarPlan, OfTarTree DEF HardLinksShare, OfTar!HardLinksShare, OfTar!plan, Shares, Overtaken, NameOf, PointsAt, SourceOf,
       OfTar!Ancestry, Ancestry
  <2> QED
    BY SMTT(40) DEF HardLinkInv
<1> QED
  BY <1>1, IInvAlways, HardLinksAlways, PTL

-----------------------------------------------------------------------------
(* The anti items of a 7z.  A link stands only where one stood before or    *)
(* one is planned,                                                          *)
IsLinkSlot(s) == s \in DOMAIN planned.plan /\ planned.plan[s].kind = "link"
MayBeLink(p) == before[p].kind = "link" \/ \E s \in DOMAIN planned.plan : planned.plan[s].path = p /\ planned.plan[s].kind = "link"
LinksOnly(t) == \A p \in Paths : t[p].kind = "link" => MayBeLink(p)

(* and what an anti item names is gone once its turn is over, or has reason *)
(* to be there; later turns are those of shorter paths.                     *)
AntiLed == \E n \in DOMAIN planned.anti : \E q \in Above(planned.anti[n].path) : MayBeLink(q)
AntiPath(n) == planned.anti[n].path
InTurn(k) == AntiPath(DeepestFirst(planned.anti)[k])
IsPlanned(p) == \E s \in DOMAIN planned.plan : planned.plan[s].path = p
Applied(t, p) == t[p] = Missing \/ IsPlanned(p) \/ \E q \in Paths : p \in Above(q) /\ t[q] # Missing

AntiInv ==
  /\ LinksOnly(tree) /\ \A l \in links : IsLinkSlot(l.slot)
  /\ options.overwrite = "always" /\ ~ AntiLed =>
       /\ phase = "deletions" => at <= Len(planned.anti) /\ \A k \in 1 .. at : Applied(tree, InTurn(k))
       /\ phase \in {"seal", "done"} => \A n \in DOMAIN planned.anti : Applied(tree, AntiPath(n))

(* Which links may be there depends on the plan and what was there alone.   *)
LEMMA AntiStays ==
  ASSUME planned' = planned, before' = before
  PROVE  /\ \A p : MayBeLink(p)' <=> MayBeLink(p)
         /\ \A s : IsLinkSlot(s)' <=> IsLinkSlot(s)
         /\ AntiLed' <=> AntiLed
         /\ \A n : AntiPath(n)' = AntiPath(n)
         /\ \A p : IsPlanned(p)' <=> IsPlanned(p)
<1>1. \A p : MayBeLink(p)' <=> MayBeLink(p)
  BY DEF MayBeLink
<1> QED
  BY <1>1 DEF IsLinkSlot, AntiLed, AntiPath, IsPlanned

(* The operations make no link,                                             *)
LEMMA NoLinkIsMade ==
  ASSUME NEW t, IsTree(t), LinksOnly(t), NEW p
  PROVE  /\ LinksOnly(WithDirectories(t, p)) /\ LinksOnly(WithParents(t, p)) /\ LinksOnly(Cleared(t, p))
         /\ \A kind, i : kind # "link" \/ MayBeLink(p) => LinksOnly([t EXCEPT ![p] = [kind |-> kind, by |-> i]])
         /\ LinksOnly([t EXCEPT ![p] = Missing])
         /\ LinksOnly([t EXCEPT ![p].kind = "file"])
<1>1. \A q : LinksOnly(WithDirectories(t, q))
  BY DEF LinksOnly, WithDirectories, Fresh
<1>2. LinksOnly(WithParents(t, p))
  BY <1>1 DEF WithParents
<1>3. \A node : node.kind # "link" \/ MayBeLink(p) => LinksOnly([t EXCEPT ![p] = node])
  BY DEF LinksOnly, IsTree
<1>4. Missing.kind # "link"
  BY DEF Missing
<1>5. LinksOnly(Cleared(t, p))
  BY <1>3, <1>4 DEF Cleared
<1>6. LinksOnly([t EXCEPT ![p].kind = "file"])
  <2>1. p \in Paths => [t[p] EXCEPT !.kind = "file"].kind = "file"
    BY DEF IsTree, Node
  <2>2. CASE p \in Paths
    BY <1>3, <2>1, <2>2
  <2>3. CASE p \notin Paths
    BY <2>3 DEF IsTree
  <2> QED
    BY <2>2, <2>3
<1>7. ASSUME NEW kind, NEW i, kind # "link" \/ MayBeLink(p)
      PROVE  LinksOnly([t EXCEPT ![p] = [kind |-> kind, by |-> i]])
  <2> DEFINE node == [kind |-> kind, by |-> i]
  <2>1. node.kind = kind
    OBVIOUS
  <2> HIDE DEF node
  <2>2. LinksOnly([t EXCEPT ![p] = node])
    BY <1>3, <1>7, <2>1
  <2> QED
    BY <2>2 DEF node
<1>8. LinksOnly([t EXCEPT ![p] = Missing])
  BY <1>3, <1>4
<1> QED
  BY <1>1, <1>2, <1>5, <1>6, <1>7, <1>8

(* so up to the deletions the destination has no others.                    *)
LEMMA BeforeDeletions ==
  ASSUME IInv, AntiInv, format = "7z", phase \in {"directories", "empty", "folders", "links"},
         phase' \notin {"seal", "done"}, phase' = "deletions" => at' = 0,
         UNCHANGED <<planned, before>>, LinksOnly(tree'), \A l \in links' : l \in links \/ IsLinkSlot(l.slot)
  PROVE  AntiInv'
<1>1. /\ \A p : MayBeLink(p)' <=> MayBeLink(p)
      /\ \A s : IsLinkSlot(s)' <=> IsLinkSlot(s)
  BY AntiStays
<1>2. LinksOnly(tree)'
  BY <1>1 DEF LinksOnly
<1>3. \A l \in links' : IsLinkSlot(l.slot)'
  BY <1>1 DEF AntiInv
<1>4. Len(planned'.anti) \in Nat
  BY PlannedFacts DEF IInv
<1>5. phase' = "deletions" => at' <= Len(planned'.anti) /\ \A k \in 1 .. at' : Applied(tree', InTurn(k)')
  <2> SUFFICES ASSUME at' = 0 PROVE at' <= Len(planned'.anti) /\ 1 .. at' = {}
    OBVIOUS
  <2> QED
    BY <1>4
<1> QED
  BY <1>2, <1>3, <1>5 DEF AntiInv

(* Steps up to the deletions.                                               *)
LEMMA LinksAreExpected ==
  ASSUME IInv, AntiInv, format = "7z", OfSevenZ!Next, phase \in {"plan", "directories", "empty", "folders", "links"}
  PROVE  AntiInv'
<1>0. IsTree(tree) /\ at \in Nat /\ LinksOnly(tree) /\ OfSevenZ!plan = planned.plan /\ PlanInv /\ SevenZInv
  BY DEF IInv, TreeInv, SevenZInv, AntiInv, OfSevenZ!plan
<1>1. CASE OfSevenZ!Plan
  <2>1. phase = "plan" /\ phase' \in {"directories", "err"} /\ tree' = tree /\ before' = before /\ links' = links
    BY <1>1 DEF OfSevenZ!Plan, OfSevenZ!input, OfSevenZ!folders
  <2>2. tree' = before' /\ links' = {}
    BY <1>0, <2>1 DEF PlanInv, SevenZInv
  <2> QED
    BY <2>1, <2>2 DEF AntiInv, LinksOnly, MayBeLink
<1>2. CASE OfSevenZ!MakeDirectory \/ OfSevenZ!MakeParents \/ OfSevenZ!DirectoriesEnd
  <2>1. /\ phase = "directories" /\ phase' \in {"directories", "empty", "err"}
        /\ UNCHANGED <<planned, before, links>>
        /\ tree' \in {tree, WithDirectories(tree, OfSevenZ!item.path), WithParents(tree, OfSevenZ!item.path)}
    BY <1>2, OfSevenZTree DEF OfSevenZ!MakeDirectory, OfSevenZ!MakeParents, OfSevenZ!DirectoriesEnd, OfSevenZ!InLoop, OfSevenZ!LoopEnds,
       OfSevenZ!Onward, OfSevenZ!Stopped, OfSevenZ!input, OfSevenZ!folders
  <2>2. LinksOnly(tree')
    <3> DEFINE p == OfSevenZ!item.path
    <3> HIDE DEF p
    <3>1. LinksOnly(WithDirectories(tree, p)) /\ LinksOnly(WithParents(tree, p))
      BY <1>0, NoLinkIsMade
    <3> QED
      BY <1>0, <2>1, <3>1 DEF p
  <2> QED
    BY <2>1, <2>2, BeforeDeletions
<1>3. CASE OfSevenZ!WriteEmpty \/ OfSevenZ!StartFolders
  <2>1. /\ phase = "empty" /\ phase' \in {"empty", "folders", "err"}
        /\ UNCHANGED <<planned, before, links>>
        /\ tree' = tree \/ \E p, i : tree' = [tree EXCEPT ![p] = [kind |-> "file", by |-> i]]
    BY <1>3 DEF OfSevenZ!WriteEmpty, OfSevenZ!StartFolders, OfSevenZ!InLoop,
       OfSevenZ!Onward, OfSevenZ!Stopped, OfSevenZ!input, OfSevenZ!folders
  <2>2. LinksOnly(tree')
    <3>1. \A p, i : LinksOnly([tree EXCEPT ![p] = [kind |-> "file", by |-> i]])
      <4>1. "file" # "link"
        OBVIOUS
      <4> QED
        BY <1>0, <4>1, NoLinkIsMade, Zenon
    <3> QED
      BY <1>0, <2>1, <3>1
  <2> QED
    BY <2>1, <2>2, BeforeDeletions
<1>4. ASSUME NEW g \in DOMAIN work,
             OfSevenZ!OpenFolder(g) \/ OfSevenZ!ReadLink(g) \/ OfSevenZ!CheckFile(g) \/ OfSevenZ!CreateFile(g)
               \/ OfSevenZ!FailFile(g) \/ OfSevenZ!CompleteFile(g) \/ OfSevenZ!CompleteFolder(g)
      PROVE  AntiInv'
  <2> DEFINE p == OfSevenZ!Target(g)
  <2> USE DEF OfSevenZ!InPool
  <2>1. phase = "folders" /\ UNCHANGED <<before, phase, planned>>
    BY <1>4 DEF OfSevenZ!OpenFolder, OfSevenZ!ReadLink, OfSevenZ!CheckFile, OfSevenZ!CreateFile,
                OfSevenZ!FailFile, OfSevenZ!CompleteFile, OfSevenZ!CompleteFolder, OfSevenZ!input
  <2>2. \/ tree' \in {tree, Cleared(tree, p)}
        \/ \E i : tree' = [tree EXCEPT ![p] = [kind |-> "partial", by |-> i]]
        \/ tree' = [tree EXCEPT ![p].kind = "file"]
    BY <1>4, OfSevenZTree DEF OfSevenZ!OpenFolder, OfSevenZ!ReadLink, OfSevenZ!CheckFile, OfSevenZ!CreateFile,
                OfSevenZ!FailFile, OfSevenZ!CompleteFile, OfSevenZ!CompleteFolder
  <2> HIDE DEF p
  <2>3. LinksOnly(tree')
    <3>1. \A i : LinksOnly([tree EXCEPT ![p] = [kind |-> "partial", by |-> i]])
      <4>1. "partial" # "link"
        OBVIOUS
      <4> QED
        BY <1>0, <4>1, NoLinkIsMade, Zenon
    <3>2. LinksOnly(Cleared(tree, p)) /\ LinksOnly([tree EXCEPT ![p].kind = "file"])
      BY <1>0, NoLinkIsMade
    <3> QED
      BY <1>0, <2>2, <3>1, <3>2
  <2>4. \A l \in links' : l \in links \/ IsLinkSlot(l.slot)
    <3>1. CASE OfSevenZ!ReadLink(g)
      <4> DEFINE s == OfSevenZ!slot(g)
      <4>1. /\ cursor[g] < Len(GroupOf(g)) /\ s = GroupOf(g)[cursor[g] + 1] /\ planned.plan[s].kind = "link"
            /\ links' = links \/ \E by : links' = links \cup {[slot |-> s, by |-> by]}
        BY <1>0, <3>1, OfSevenZSlots DEF OfSevenZ!ReadLink, OfSevenZ!HasNext, OfSevenZ!slot, OfSevenZ!FolderFails
      <4> HIDE DEF s
      <4>2. cursor[g] \in Nat
        BY <1>0, <2>1 DEF SevenZInv
      <4>3. Sorted(GroupOf(g), SlotsIn(g), Below(SlotKeys(g), SlotsIn(g))) /\ Cardinality(SlotsIn(g)) \in Nat
        BY <1>0, <2>1, GroupSorts, FS_CardinalityType
      <4>4. cursor[g] + 1 \in DOMAIN GroupOf(g)
        BY <4>1, <4>2, <4>3 DEF Sorted
      <4>5. s \in SlotsIn(g)
        BY <4>1, <4>3, <4>4 DEF Sorted
      <4>6. IsLinkSlot(s)
        BY <4>1, <4>5 DEF IsLinkSlot, SlotsIn, LocatedSlots
      <4> QED
        BY <4>1, <4>6
    <3>2. CASE OfSevenZ!OpenFolder(g) \/ OfSevenZ!CheckFile(g) \/ OfSevenZ!CreateFile(g)
                 \/ OfSevenZ!FailFile(g) \/ OfSevenZ!CompleteFile(g) \/ OfSevenZ!CompleteFolder(g)
      BY <3>2 DEF OfSevenZ!OpenFolder, OfSevenZ!CheckFile, OfSevenZ!CreateFile,
                  OfSevenZ!FailFile, OfSevenZ!CompleteFile, OfSevenZ!CompleteFolder, OfSevenZ!FolderFails
    <3> QED
      BY <1>4, <3>1, <3>2
  <2> QED
    BY <2>1, <2>3, <2>4, BeforeDeletions
<1>5. CASE OfSevenZ!KeepFailure \/ OfSevenZ!FoldersReturn
  <2>1. /\ phase = "folders" /\ phase' \in {"folders", "links", "err"} /\ UNCHANGED <<before, planned, tree, links>>
    BY <1>5 DEF OfSevenZ!KeepFailure, OfSevenZ!FoldersReturn, OfSevenZ!input, OfSevenZ!folders
  <2> QED
    BY <1>0, <2>1, BeforeDeletions
<1>6. CASE OfSevenZ!MakeLink
  <2> DEFINE l == LinkList[at + 1]
             p == planned.plan[l.slot].path
  <2>1. /\ phase = "links" /\ phase' \in {"links", "err"} /\ at < Cardinality(links)
        /\ UNCHANGED <<planned, before, links>>
    BY SMTT(40), <1>6, OfSevenZSlots DEF OfSevenZ!MakeLink, OfSevenZ!InLoop, OfSevenZ!Onward, OfSevenZ!Stopped,
                                     OfSevenZ!input, OfSevenZ!folders
  <2>2. tree' = tree \/ tree' = [tree EXCEPT ![p] = [kind |-> "link", by |-> l.by]]
    BY <1>0, <1>6, OfSevenZSlots DEF OfSevenZ!MakeLink, OfSevenZ!link
  <2>3. l \in links
    <3>1. IsFiniteSet(links) /\ (\A m \in links : m.slot \in Nat) /\ \A m, n \in links : m.slot = n.slot => m = n
      BY <1>0 DEF SevenZInv, AreSetAside
    <3>2. Sorted(LinkList, links, Below(LinkKeys, links)) /\ Cardinality(links) \in Nat
      BY <3>1, LinksSort, FS_CardinalityType
    <3>3. at + 1 \in 1 .. Cardinality(links)
      BY <1>0, <2>1, <3>2
    <3> QED
      BY <3>2, <3>3 DEF Sorted
  <2> HIDE DEF l
  <2>4. MayBeLink(p)
    BY <2>3 DEF AntiInv, IsLinkSlot, MayBeLink
  <2> HIDE DEF p
  <2>5. LinksOnly(tree')
    <3>1. \A i : LinksOnly([tree EXCEPT ![p] = [kind |-> "link", by |-> i]])
      BY <1>0, <2>4, NoLinkIsMade, Zenon
    <3> QED
      BY <1>0, <2>2, <3>1
  <2> QED
    BY <2>1, <2>5, BeforeDeletions
<1>7. CASE OfSevenZ!LinksEnd
  <2>1. phase = "links" /\ phase' = "deletions" /\ at' = 0 /\ UNCHANGED <<before, planned, tree, links>>
    BY SMTT(40), <1>7 DEF OfSevenZ!LinksEnd, OfSevenZ!LoopEnds, OfSevenZ!input, OfSevenZ!folders
  <2> QED
    BY <1>0, <2>1, BeforeDeletions
<1> QED
  BY <1>1, <1>2, <1>3, <1>4, <1>5, <1>6, <1>7
     DEF OfSevenZ!Next, OfSevenZ!Delete, OfSevenZ!DeleteThroughLink, OfSevenZ!DeletionsEnd, OfSevenZ!InLoop, OfSevenZ!LoopEnds,
         OfSevenZ!Seal, OfSevenZ!Finish, OfSevenZ!Ended

(* Steps at the deletions and after them.                                   *)
LEMMA AntiItemsAreDone ==
  ASSUME IInv, AntiInv, format = "7z", OfSevenZ!Next, phase \in {"deletions", "seal", "done", "err"}
  PROVE  AntiInv'
<1> DEFINE turns == DeepestFirst(planned.anti)
           Acts == options.overwrite = "always" /\ ~ AntiLed
<1>0. /\ IsTree(tree) /\ at \in Nat /\ LinksOnly(tree) /\ OfSevenZ!plan = planned.plan /\ PlanInv
      /\ \A l \in links : IsLinkSlot(l.slot)
  BY DEF IInv, TreeInv, SevenZInv, AntiInv, OfSevenZ!plan
<1>1. /\ DOMAIN planned.anti = 1 .. Len(planned.anti) /\ Len(planned.anti) \in Nat
      /\ \A n \in DOMAIN planned.anti : AntiPath(n) \in Paths
      /\ Sorted(turns, DOMAIN planned.anti, Deeper(planned.anti))
      /\ Cardinality(DOMAIN planned.anti) = Len(planned.anti)
  <2>1. planned \in Plans(archive, options) /\ DOMAIN planned.anti = 1 .. Len(planned.anti) /\ Len(planned.anti) \in Nat
    BY <1>0, PlannedFacts
  <2>2. planned.anti \in Seq(AntiItems(archive, options)) /\ \A n \in DOMAIN planned.anti : planned.anti[n].path \in Paths
    BY <1>0, <2>1, PlannedFacts DEF Plans
  <2>3. Cardinality(DOMAIN planned.anti) = Len(planned.anti)
    BY SMTT(40), <2>1, CountUpto
  <2> QED
    BY <2>1, <2>2, <2>3, DeepestFirstSorts DEF AntiPath
<1>2. /\ DOMAIN turns = 1 .. Len(planned.anti)
      /\ \A k \in 1 .. Len(planned.anti) : turns[k] \in DOMAIN planned.anti
      /\ \A n \in DOMAIN planned.anti : \E k \in 1 .. Len(planned.anti) : turns[k] = n
      /\ \A j, k \in 1 .. Len(planned.anti) : j < k => turns[j] \in Deeper(planned.anti)[turns[k]]
  <2> HIDE DEF turns
  <2> QED
    BY <1>1 DEF Sorted
<1>3. ASSUME UNCHANGED <<planned, before, options, links>>, LinksOnly(tree'),
             Acts => /\ phase' = "deletions" => at' <= Len(planned.anti) /\ \A k \in 1 .. at' : Applied(tree', InTurn(k))
                     /\ phase' \in {"seal", "done"} => \A n \in DOMAIN planned.anti : Applied(tree', AntiPath(n))
      PROVE  AntiInv'
  <2>1. /\ \A p : MayBeLink(p)' <=> MayBeLink(p)
        /\ \A s : IsLinkSlot(s)' <=> IsLinkSlot(s)
        /\ AntiLed' <=> AntiLed
        /\ \A n : AntiPath(n)' = AntiPath(n)
        /\ \A p : IsPlanned(p)' <=> IsPlanned(p)
    BY <1>3, AntiStays
  <2>2. LinksOnly(tree)' /\ \A l \in links' : IsLinkSlot(l.slot)'
    BY <1>0, <1>3, <2>1 DEF LinksOnly
  <2>3. \A n : InTurn(n)' = InTurn(n)
    BY <1>3 DEF InTurn, AntiPath
  <2>4. \A p : Applied(tree, p)' <=> Applied(tree', p)
    BY <2>1 DEF Applied
  <2>5. \A n : (Applied(tree, AntiPath(n))' <=> Applied(tree', AntiPath(n))) /\ (Applied(tree, InTurn(n))' <=> Applied(tree', InTurn(n)))
    BY <2>1, <2>3, <2>4 DEF Applied
  <2> QED
    BY <1>3, <2>1, <2>2, <2>5 DEF AntiInv
<1>4. CASE OfSevenZ!Delete \/ OfSevenZ!DeleteThroughLink
  <2> DEFINE p == AntiPath(turns[at + 1])
  <2>1. /\ phase = "deletions" /\ at < Len(planned.anti) /\ phase' \in {"deletions", "err"}
        /\ UNCHANGED <<planned, before, options, links>>
    BY <1>4 DEF OfSevenZ!Delete, OfSevenZ!DeleteThroughLink, OfSevenZ!InLoop, OfSevenZ!Onward, OfSevenZ!Stopped,
                OfSevenZ!input, OfSevenZ!folders
  <2>2. at + 1 \in 1 .. Len(planned.anti) /\ turns[at + 1] \in DOMAIN planned.anti
    <3> HIDE DEF turns
    <3> QED
      BY <1>0, <1>1, <1>2, <2>1
  <2>3. p \in Paths
    <3> HIDE DEF turns
    <3> QED
      BY <1>1, <2>2
  <2>4. OfSevenZ!anti = p
    BY OfSevenZOrder DEF OfSevenZ!anti, AntiPath
  <2>5. LinksOnly(tree')
    <3>1. tree' = tree \/ \E q : tree' = [tree EXCEPT ![q] = Missing]
      BY <1>4, OfSevenZTree DEF OfSevenZ!Delete, OfSevenZ!DeleteThroughLink
    <3>2. \A q : LinksOnly([tree EXCEPT ![q] = Missing])
      BY ONLY <1>0, NoLinkIsMade
    <3> QED
      BY ONLY <1>0, <3>1, <3>2
  <2>6. ASSUME Acts, phase' = "deletions"
        PROVE  at' <= Len(planned.anti) /\ \A k \in 1 .. at' : Applied(tree', InTurn(k))
    <3>1. \A q \in Above(p) : tree[q].kind # "link"
      <4>1. \A q \in Above(p) : ~ MayBeLink(q)
        <5> HIDE DEF turns
        <5> QED
          BY <2>2, <2>6 DEF AntiLed, AntiPath
      <4> HIDE DEF p
      <4>2. Above(p) \subseteq Paths
        BY <2>3, PathFacts
      <4> QED
        BY <1>0, <4>1, <4>2 DEF LinksOnly
    <3> HIDE DEF p
    <3>2. ~ OfSevenZ!DeleteThroughLink
      <4>1. CASE Len(p) > 1
        <5>1. OfSevenZ!Front(p) = Front(p) /\ OfSevenZ!Ancestry(Front(p)) = Above(p)
          BY <2>3, <4>1, PathFacts DEF OfSevenZ!Front, Front, OfSevenZ!Ancestry, Ancestry
        <5> QED
          BY <2>4, <3>1, <5>1 DEF OfSevenZ!DeleteThroughLink, OfSevenZ!LinkOnTheWay
      <4>2. CASE ~ (Len(p) > 1)
        BY <2>4, <4>2 DEF OfSevenZ!DeleteThroughLink
      <4> QED
        BY <4>1, <4>2
    <3>3. /\ at' = at + 1
          /\ \/ tree' = tree /\ Applied(tree, p)
             \/ tree' = [tree EXCEPT ![p] = Missing]
      <4>1. /\ options.overwrite = "always" /\ OfSevenZ!Delete
        BY <1>4, <2>6, <3>2
      <4>2. /\ OfSevenZ!Missing = Missing /\ (OfSevenZ!Written(p) <=> IsPlanned(p))
            /\ OfSevenZ!HoldsSomething(p) <=> \E q \in Paths : p \in Above(q) /\ tree[q] # Missing
        BY OfSevenZTree DEF OfSevenZ!Written, OfSevenZ!plan, IsPlanned, OfSevenZ!HoldsSomething
      <4>3. at' = at + 1
        BY <2>1, <2>6, <4>1 DEF OfSevenZ!Delete, OfSevenZ!Onward, OfSevenZ!Stopped
      <4> QED
        BY <2>1, <2>4, <2>6, <4>1, <4>2, <4>3 DEF OfSevenZ!Delete, OfSevenZ!Stopped, Applied
    <3>4. \A k \in 1 .. at : Applied(tree, InTurn(k))
      BY <2>1, <2>6 DEF AntiInv
    <3>5. Applied(tree', p)
      <4>1. tree' = [tree EXCEPT ![p] = Missing] => tree'[p] = Missing
        BY <1>0, <2>3 DEF IsTree
      <4> QED
        BY <3>3, <4>1 DEF Applied
    <3>6. ASSUME NEW k \in 1 .. at PROVE Applied(tree', InTurn(k))
      <4>1. Len(InTurn(k)) >= Len(p) /\ InTurn(k) \in Paths /\ Len(InTurn(k)) \in Nat /\ Len(p) \in Nat
        <5>1. k \in 1 .. Len(planned.anti) /\ k < at + 1
          BY <1>0, <1>1, <2>2
        <5>2. turns[k] \in Deeper(planned.anti)[turns[at + 1]] /\ turns[k] \in DOMAIN planned.anti
          <6> HIDE DEF turns
          <6> QED
            BY <1>2, <2>2, <5>1
        <5>3. InTurn(k) = AntiPath(turns[k])
          BY DEF InTurn
        <5>4. Len(AntiPath(turns[k])) >= Len(AntiPath(turns[at + 1]))
          <6> DEFINE m == turns[k]
                     n == turns[at + 1]
          <6>1. m \in Deeper(planned.anti)[n] /\ n \in DOMAIN planned.anti /\ m \in DOMAIN planned.anti
            BY <2>2, <5>2
          <6> HIDE DEF m, n
          <6>2. Len(AntiPath(m)) \in Nat /\ Len(AntiPath(n)) \in Nat
            BY <1>1, <6>1, PathFacts
          <6>3. Len(AntiPath(m)) > Len(AntiPath(n)) \/ Len(AntiPath(m)) = Len(AntiPath(n))
            BY <6>1 DEF Deeper, AntiPath
          <6>4. Len(AntiPath(m)) >= Len(AntiPath(n))
            BY <6>2, <6>3
          <6> QED
            BY <6>4 DEF m, n
        <5> HIDE DEF turns
        <5>5. InTurn(k) \in Paths
          BY <1>1, <5>2, <5>3
        <5> QED
          BY <2>3, <5>3, <5>4, <5>5, PathFacts DEF p
      <4>2. PICK b : b = InTurn(k)
        OBVIOUS
      <4>3. Applied(tree, b) /\ b \in Paths /\ Len(b) >= Len(p)
        BY <3>4, <4>1, <4>2
      <4>4. b \notin Above(p)
        <5>1. \A q \in Above(p) : Len(q) < Len(p)
          BY <2>3, PathFacts
        <5> QED
          BY <4>1, <4>2, <4>3, <5>1
      <4>5. \A q \in Paths : tree'[q] = tree[q] \/ (q = p /\ tree'[q] = Missing)
        BY <1>0, <2>3, <3>3 DEF IsTree
      <4>6. Applied(tree', b)
        BY <4>3, <4>4, <4>5 DEF Applied
      <4> QED
        BY <4>2, <4>6
    <3>7. \A k \in 1 .. at' : k \in 1 .. at \/ k = at + 1
      BY <1>0, <3>3
    <3>8. InTurn(at + 1) = p
      BY DEF InTurn, p
    <3> HIDE DEF turns
    <3>9. at' <= Len(planned.anti)
      BY <1>0, <1>1, <2>2, <3>3
    <3> QED
      BY <3>5, <3>6, <3>7, <3>8, <3>9
  <2> HIDE DEF p, turns
  <2>7. phase' \notin {"seal", "done"}
    BY <2>1
  <2> QED
    BY <1>3, <2>1, <2>5, <2>6, <2>7
<1>5. CASE OfSevenZ!DeletionsEnd
  <2>1. /\ phase = "deletions" /\ phase' = "seal" /\ at = Len(planned.anti) /\ tree' = tree
        /\ UNCHANGED <<planned, before, options, links>>
    BY <1>5 DEF OfSevenZ!DeletionsEnd, OfSevenZ!LoopEnds, OfSevenZ!input, OfSevenZ!folders
  <2>2. ASSUME Acts PROVE \A n \in DOMAIN planned.anti : Applied(tree', AntiPath(n))
    <3>1. \A k \in 1 .. Len(planned.anti) : Applied(tree, AntiPath(turns[k]))
      BY <2>1, <2>2 DEF AntiInv, InTurn
    <3> HIDE DEF turns
    <3> QED
      BY <1>2, <2>1, <3>1
  <2> HIDE DEF turns
  <2> QED
    BY <1>0, <1>3, <2>1, <2>2
<1>6. CASE OfSevenZ!Seal \/ OfSevenZ!Finish \/ OfSevenZ!Ended
  <2>1. /\ phase \in {"seal", "done", "err"} /\ phase' \in {"seal", "done", "err"}
        /\ phase = "err" => phase' = "err"
        /\ UNCHANGED <<planned, before, options, links>>
        /\ tree' = tree \/ \E p, i : tree[p].kind # "none" /\ tree' = [tree EXCEPT ![p].by = i]
    BY <1>6 DEF OfSevenZ!Seal, OfSevenZ!Finish, OfSevenZ!Ended, OfSevenZ!vars, OfSevenZ!InLoop, OfSevenZ!Onward,
                OfSevenZ!input, OfSevenZ!folders
  <2>2. \A p \in Paths : tree'[p].kind = tree[p].kind /\ (tree'[p] = Missing <=> tree[p] = Missing)
    <3>1. CASE tree' = tree
      BY <3>1
    <3>2. ASSUME NEW q, NEW i, tree[q].kind # "none", tree' = [tree EXCEPT ![q].by = i], NEW p \in Paths
          PROVE  tree'[p].kind = tree[p].kind /\ (tree'[p] = Missing <=> tree[p] = Missing)
      <4>1. CASE p # q
        BY <1>0, <3>2, <4>1 DEF IsTree
      <4>2. CASE p = q
        <5>1. tree'[p] = [tree[p] EXCEPT !.by = i] /\ tree[p] \in Node
          BY <1>0, <3>2, <4>2 DEF IsTree
        <5>2. [tree[p] EXCEPT !.by = i].kind = tree[p].kind
          BY <5>1 DEF Node
        <5> QED
          BY <3>2, <4>2, <5>1, <5>2 DEF Missing
      <4> QED
        BY <4>1, <4>2
    <3> QED
      BY <2>1, <3>1, <3>2
  <2>3. LinksOnly(tree')
    BY <1>0, <2>2 DEF LinksOnly
  <2>4. ASSUME Acts, phase \in {"seal", "done"} PROVE \A n \in DOMAIN planned.anti : Applied(tree', AntiPath(n))
    <3> SUFFICES ASSUME NEW n \in DOMAIN planned.anti PROVE Applied(tree', AntiPath(n))
      OBVIOUS
    <3>1. Applied(tree, AntiPath(n)) /\ AntiPath(n) \in Paths
      BY <1>1, <2>4 DEF AntiInv
    <3> QED
      BY <2>2, <3>1 DEF Applied
  <2> HIDE DEF turns
  <2> QED
    BY SMTT(40), <1>3, <2>1, <2>3, <2>4
<1> QED
  BY <1>4, <1>5, <1>6
     DEF OfSevenZ!Next, OfSevenZ!Plan, OfSevenZ!MakeDirectory, OfSevenZ!MakeParents, OfSevenZ!DirectoriesEnd, OfSevenZ!WriteEmpty,
         OfSevenZ!StartFolders, OfSevenZ!OpenFolder, OfSevenZ!ReadLink, OfSevenZ!CheckFile, OfSevenZ!CreateFile, OfSevenZ!FailFile,
         OfSevenZ!CompleteFile, OfSevenZ!CompleteFolder, OfSevenZ!InPool, OfSevenZ!KeepFailure, OfSevenZ!FoldersReturn,
         OfSevenZ!MakeLink, OfSevenZ!LinksEnd, OfSevenZ!InLoop, OfSevenZ!LoopEnds

(* So it holds throughout.                                                  *)
LEMMA AntiAlways == Spec => [](format = "7z" => AntiInv)
<1>1. Init => (format = "7z" => AntiInv)
  <2> SUFFICES ASSUME Init, format = "7z" PROVE AntiInv
    OBVIOUS
  <2>1. phase = "plan" /\ tree = before /\ links = {}
    BY DEF Init, OfSevenZ!Init
  <2> QED
    BY <2>1 DEF AntiInv, LinksOnly, MayBeLink
<1>2. ASSUME IInv, format = "7z" => AntiInv, [Next]_vars PROVE (format = "7z" => AntiInv)'
  <2>1. CASE UNCHANGED vars
    <3>1. /\ \A p : MayBeLink(p)' <=> MayBeLink(p)
          /\ \A s : IsLinkSlot(s)' <=> IsLinkSlot(s)
          /\ AntiLed' <=> AntiLed
          /\ \A n : AntiPath(n)' = AntiPath(n)
          /\ \A p : IsPlanned(p)' <=> IsPlanned(p)
      BY <2>1, AntiStays DEF vars, shared
    <3>2. \A n : InTurn(n)' = InTurn(n)
      BY <2>1 DEF vars, shared, InTurn, AntiPath
    <3>3. \A n : (Applied(tree, AntiPath(n))' <=> Applied(tree, AntiPath(n))) /\ (Applied(tree, InTurn(n))' <=> Applied(tree, InTurn(n)))
      BY <2>1, <3>1, <3>2 DEF vars, shared, Applied
    <3>4. LinksOnly(tree)' <=> LinksOnly(tree)
      BY <2>1, <3>1 DEF vars, shared, LinksOnly
    <3> QED
      BY <1>2, <2>1, <3>1, <3>3, <3>4 DEF vars, shared, sevenZOnly, AntiInv
  <2>2. ASSUME Next, format' = "7z" PROVE AntiInv'
    <3>1. format = "7z" /\ OfSevenZ!Next
      BY SMTT(40), <2>2 DEF Next
    <3>2. phase \in {"plan", "directories", "empty", "folders", "links", "deletions", "seal", "done", "err"}
      BY <3>1 DEF OfSevenZ!Next, OfSevenZ!Plan, OfSevenZ!MakeDirectory, OfSevenZ!MakeParents, OfSevenZ!DirectoriesEnd,
         OfSevenZ!WriteEmpty, OfSevenZ!StartFolders, OfSevenZ!OpenFolder, OfSevenZ!ReadLink, OfSevenZ!CheckFile, OfSevenZ!CreateFile,
         OfSevenZ!FailFile, OfSevenZ!CompleteFile, OfSevenZ!CompleteFolder, OfSevenZ!InPool, OfSevenZ!KeepFailure,
         OfSevenZ!FoldersReturn, OfSevenZ!MakeLink, OfSevenZ!LinksEnd, OfSevenZ!InLoop, OfSevenZ!LoopEnds, OfSevenZ!Delete,
         OfSevenZ!DeleteThroughLink, OfSevenZ!DeletionsEnd, OfSevenZ!Seal, OfSevenZ!Finish, OfSevenZ!Ended
    <3> QED
      BY <1>2, <3>1, <3>2, LinksAreExpected, AntiItemsAreDone
  <2> QED
    BY <1>2, <2>1, <2>2
<1> QED
  BY <1>1, <1>2, IInvAlways, PTL DEF Spec

(* What an anti item of a 7z names is gone after a success that may         *)
(* overwrite, whatever the archive and the destination hold: unless the     *)
(* archive also writes it, it is a directory that still holds something, or *)
(* a link leads one of the anti items elsewhere.                            *)
THEOREM AntiItemsAreApplied == Spec => []AntiItemsApplied
<1>1. IInv /\ (format = "7z" => AntiInv) => AntiItemsApplied
  <2> SUFFICES ASSUME IInv, AntiInv, format = "7z", phase = "done", options.overwrite = "always", ~ AntiLed,
                      NEW n \in DOMAIN planned.anti
               PROVE  Applied(tree, AntiPath(n))
    BY OfSevenZTree DEF AntiItemsApplied, OfSevenZ!AntiItemsApplied, OfSevenZ!LinkLeads, OfSevenZ!plan, OfSevenZ!Written,
       OfSevenZ!HoldsSomething, AntiLed, MayBeLink, Applied, AntiPath, IsPlanned
  <2> QED
    BY DEF AntiInv
<1> QED
  BY <1>1, IInvAlways, AntiAlways, PTL

-----------------------------------------------------------------------------
(* What an extraction leaves.  A planned entry that is not a directory has  *)
(* its place for itself,                                                    *)
PathAt(s) == planned.plan[s].path
Ordinary == {s \in DOMAIN planned.plan : planned.plan[s].kind # "dir"}

(* which it gets where nothing stood before that must stay, unless it is of *)
(* a kind, or a link of one, that is not restored.                          *)
Free(p) == before[p] = Missing \/ (options.overwrite = "always" /\ before[p].kind # "dir")
Makes(s) ==
  \/ planned.plan[s].kind = "file"
  \/ /\ planned.plan[s].kind = "link" /\ options.symlinks
     /\ ~ archive[planned.plan[s].index].escapes /\ (format = "7z" => archive[planned.plan[s].index].folder # 0)
Outcome(s) ==
  IF Free(PathAt(s)) /\ Makes(s) THEN [kind |-> planned.plan[s].kind, by |-> planned.plan[s].index]
  ELSE before[PathAt(s)]

(* On its way there it is waiting, looked at, begun or done.                *)
Waits(t, s) == t[PathAt(s)] = before[PathAt(s)]
Opens(t, s) ==
  /\ before[PathAt(s)] = Missing \/ options.overwrite = "always"
  /\ t[PathAt(s)] = IF before[PathAt(s)].kind = "dir" THEN before[PathAt(s)] ELSE Missing
Begins(t, s) == Free(PathAt(s)) /\ t[PathAt(s)] = [kind |-> "partial", by |-> planned.plan[s].index]
Stands(t, s, state) ==
  /\ state = "todo" => Waits(t, s)
  /\ state = "open" => Opens(t, s)
  /\ state = "partial" => Begins(t, s)
  /\ state = "done" => t[PathAt(s)] = Outcome(s)

(* So all that stands somewhere is known from the states of the entries and *)
(* the directories made so far.                                             *)
Unclaimed(p) == \A s \in Ordinary : PathAt(s) # p
Holds(t, N, st) ==
  /\ \A p \in N : t[p] = Fresh
  /\ \A p \in Paths : p \notin N /\ Unclaimed(p) => t[p] = before[p]
  /\ \A s \in Ordinary : IF PathAt(s) \in N THEN st[s] # "partial" ELSE Stands(t, s, st[s])
Alone == \A s, r \in Ordinary : PathAt(s) = PathAt(r) => s = r

(* The plan has one entry for a place.                                      *)
LEMMA EntriesAreAlone ==
  ASSUME PlanInv, phase \notin {"plan", "err"}
  PROVE  Alone /\ \A s \in Ordinary : PathAt(s) \in Paths
<1>0. IsArchive(archive) /\ IsOptions(options) /\ IsPlan(planned.plan, archive, options)
  BY BuildPlanKeeps DEF PlanInv
<1>1. /\ planned \in Plans(archive, options)
      /\ \A s \in DOMAIN planned.plan : planned.plan[s].path \in Paths
  BY PlannedFacts
<1>2. \A s \in DOMAIN planned.plan :
        /\ planned.plan[s].index \in InPlace(archive, options) /\ planned.plan[s].index \in Winners(archive, options)
        /\ PathAt(s) = PathOf(archive, options, planned.plan[s].index)
        /\ planned.plan[s].kind = archive[planned.plan[s].index].kind
        /\ planned.plan[s].index \in Nat
  <2>1. \A s \in DOMAIN planned.plan :
          /\ planned.plan[s].index \in InPlace(archive, options)
          /\ PathAt(s) = PathOf(archive, options, planned.plan[s].index)
          /\ planned.plan[s].kind = archive[planned.plan[s].index].kind
    BY <1>0, <1>1, PlansFacts DEF PathAt
  <2>2. \A s \in DOMAIN planned.plan : planned.plan[s].index \in Nat
    BY PlannedFacts
  <2>3. \A s \in DOMAIN planned.plan : planned.plan[s].index \in Winners(archive, options)
    BY <1>0 DEF IsPlan
  <2> QED
    BY <2>1, <2>2, <2>3
<1>3. ASSUME NEW s \in Ordinary, NEW r \in Ordinary, PathAt(s) = PathAt(r) PROVE s = r
  <2> DEFINE i == planned.plan[s].index
             j == planned.plan[r].index
  <2>1. s \in DOMAIN planned.plan /\ r \in DOMAIN planned.plan
    BY DEF Ordinary
  <2>2. archive[i].kind # "dir" /\ archive[j].kind # "dir" /\ i \in Nat /\ j \in Nat
    BY <1>2, <2>1 DEF Ordinary
  <2>3. j \in Rivals(archive, options, i) /\ i \in Rivals(archive, options, j)
    BY <1>2, <1>3, <2>1, <2>2 DEF Rivals
  <2>4. i \in Winners(archive, options) /\ j \in Winners(archive, options)
    BY <1>2, <2>1
  <2> HIDE DEF i, j
  <2>5. i = j
    BY <2>2, <2>3, <2>4 DEF Winners
  <2> QED
    BY <2>1, <2>5, UniqueIndex DEF i, j
<1> QED
  BY <1>1, <1>3 DEF Alone, Ordinary, PathAt

(* What happens at the place of one leaves the others alone.                *)
LEMMA OneEntry ==
  ASSUME Alone, NEW t, NEW N, NEW st, Holds(t, N, st), NEW s \in Ordinary,
         NEW u, \A p \in Paths : p # PathAt(s) => u[p] = t[p], N \subseteq Paths,
         \A r \in Ordinary : PathAt(r) \in Paths,
         NEW v, \A r \in Ordinary : r # s => v[r] = st[r],
         PathAt(s) \in N => u[PathAt(s)] = t[PathAt(s)] /\ v[s] # "partial",
         PathAt(s) \notin N => Stands(u, s, v[s])
  PROVE  Holds(u, N, v)
<1>1. \A p \in N : u[p] = Fresh
  BY DEF Holds
<1>2. ASSUME NEW p \in Paths, p \notin N, Unclaimed(p) PROVE u[p] = before[p]
  <2>1. p # PathAt(s)
    BY <1>2 DEF Unclaimed
  <2> QED
    BY <1>2, <2>1 DEF Holds
<1>3. ASSUME NEW r \in Ordinary PROVE IF PathAt(r) \in N THEN v[r] # "partial" ELSE Stands(u, r, v[r])
  <2>1. CASE r = s
    BY <2>1
  <2>2. CASE r # s
    <3>1. PathAt(r) # PathAt(s) /\ PathAt(r) \in Paths
      BY <2>2 DEF Alone
    <3>2. v[r] = st[r] /\ u[PathAt(r)] = t[PathAt(r)]
      BY <2>2, <3>1
    <3>3. IF PathAt(r) \in N THEN st[r] # "partial" ELSE Stands(t, r, st[r])
      BY DEF Holds
    <3>4. Stands(t, r, st[r]) => Stands(u, r, v[r])
      BY ONLY <3>2 DEF Stands, Waits, Opens, Begins
    <3> QED
      BY <3>2, <3>3, <3>4
  <2> QED
    BY <2>1, <2>2
<1> QED
  BY <1>1, <1>2, <1>3 DEF Holds

(* What the formats do to an entry, all at once or from state to state.     *)
States == [Ordinary -> {"todo", "open", "partial", "done", "dead"}]
Known(t, N, st) == Holds(t, N, st) /\ st \in States /\ N \subseteq Paths /\ IsTree(t)
Turns(st, s, state) == [st EXCEPT ![s] = state]

(* The entry alone has to be looked at.                                     *)
LEMMA EntryTurns ==
  ASSUME PlanInv, phase \notin {"plan", "err"}, NEW t, NEW N, NEW st, Known(t, N, st), NEW s \in Ordinary,
         NEW u, IsTree(u), \A p \in Paths : p # PathAt(s) => u[p] = t[p],
         NEW state \in {"todo", "open", "partial", "done", "dead"},
         PathAt(s) \in N => u[PathAt(s)] = t[PathAt(s)] /\ state # "partial",
         PathAt(s) \notin N => Stands(u, s, state)
  PROVE  Known(u, N, Turns(st, s, state))
<1> DEFINE v == Turns(st, s, state)
<1>1. v \in States /\ v[s] = state /\ \A r \in Ordinary : r # s => v[r] = st[r]
  BY DEF Known, States, Turns
<1>2. Alone /\ (\A r \in Ordinary : PathAt(r) \in Paths) /\ Holds(t, N, st) /\ N \subseteq Paths
  BY EntriesAreAlone DEF Known
<1> HIDE DEF v
<1>3. Holds(u, N, v)
  BY <1>1, <1>2, OneEntry
<1> QED
  BY <1>1, <1>2, <1>3 DEF Known, v

(* What is known of a place beforehand.                                     *)
LEMMA PlaceFacts ==
  ASSUME PlanInv, phase \notin {"plan", "err"}, NEW t, NEW N, NEW st, Known(t, N, st), NEW s \in Ordinary
  PROVE  /\ PathAt(s) \in Paths /\ planned.plan[s].index \in Nat
         /\ t[PathAt(s)] \in Node /\ before[PathAt(s)] \in Node /\ before[PathAt(s)].by = 0
         /\ before[PathAt(s)].kind # "partial"
         /\ PathAt(s) \in N => t[PathAt(s)] = Fresh /\ st[s] # "partial"
         /\ PathAt(s) \notin N => Stands(t, s, st[s])
         /\ options.overwrite \in Overwrite
         /\ before[PathAt(s)] = Missing <=> before[PathAt(s)].kind = "none"
<1>1. PathAt(s) \in Paths /\ planned.plan[s].index \in Nat
  BY PlannedFacts, EntriesAreAlone DEF Ordinary
<1>2. before[PathAt(s)] \in [kind : {"none", "file", "dir", "link"}, by : {0}]
  BY <1>1 DEF PlanInv, IsDestination
<1>3. t[PathAt(s)] \in Node /\ Holds(t, N, st)
  BY <1>1 DEF Known, IsTree
<1> QED
  BY <1>1, <1>2, <1>3 DEF Holds, Node, Missing, PlanInv, IsOptions

(* A place is looked at: what may be replaced is removed.                   *)
LEMMA LookedAt ==
  ASSUME PlanInv, phase \notin {"plan", "err"}, NEW t, NEW N, NEW st, Known(t, N, st), NEW s \in Ordinary,
         st[s] = "todo", ~ Taken(t, PathAt(s)) \/ options.overwrite = "always"
  PROVE  Known(Cleared(t, PathAt(s)), N, Turns(st, s, "open"))
<1> DEFINE p == PathAt(s)
           u == Cleared(t, p)
<1>1. /\ p \in Paths /\ t[p] \in Node /\ IsTree(t)
      /\ p \in N => t[p] = Fresh
      /\ p \notin N => t[p] = before[p]
      /\ before[p] = Missing <=> before[p].kind = "none"
  BY PlaceFacts DEF Stands, Waits, Known
<1>2. IsTree(u) /\ \A q \in Paths : q # p => u[q] = t[q]
  BY <1>1, ClearedFacts DEF Differs
<1>3. u[p] = IF t[p].kind = "dir" THEN t[p] ELSE Missing
  BY <1>1 DEF Cleared, IsTree
<1>4. p \in N => u[p] = t[p]
  BY <1>1, <1>3 DEF Fresh
<1>5. p \notin N => Opens(u, s)
  BY <1>1, <1>3 DEF Opens, Taken
<1> HIDE DEF u
<1>6. p \notin N => Stands(u, s, "open")
  BY <1>5 DEF Stands
<1> QED
  BY <1>2, <1>4, <1>6, EntryTurns DEF u

(* What may not be replaced is left.                                        *)
LEMMA PassedOver ==
  ASSUME PlanInv, phase \notin {"plan", "err"}, NEW t, NEW N, NEW st, Known(t, N, st), NEW s \in Ordinary,
         st[s] = "todo", Taken(t, PathAt(s)), options.overwrite = "never"
  PROVE  Known(t, N, Turns(st, s, "done"))
<1> DEFINE p == PathAt(s)
<1>1. /\ p \in N => t[p] = Fresh
      /\ p \notin N => t[p] = before[p]
      /\ before[p] = Missing <=> before[p].kind = "none"
  BY PlaceFacts DEF Stands, Waits
<1>2. p \notin N => t[p] = Outcome(s)
  BY <1>1 DEF Outcome, Free, Taken
<1>3. p \notin N => Stands(t, s, "done")
  BY <1>2 DEF Stands
<1>4. IsTree(t)
  BY DEF Known
<1> QED
  BY <1>3, <1>4, EntryTurns

(* What is not restored is left too.                                        *)
LEMMA LeftOut ==
  ASSUME PlanInv, phase \notin {"plan", "err"}, NEW t, NEW N, NEW st, Known(t, N, st), NEW s \in Ordinary,
         st[s] = "todo", ~ Makes(s)
  PROVE  Known(t, N, Turns(st, s, "done"))
<1> DEFINE p == PathAt(s)
<1>1. p \notin N => t[p] = before[p]
  BY PlaceFacts DEF Stands, Waits
<1>2. p \notin N => Stands(t, s, "done")
  BY <1>1 DEF Stands, Outcome
<1>3. IsTree(t)
  BY DEF Known
<1> QED
  BY <1>2, <1>3, EntryTurns

(* Of an entry that failed nothing is claimed.                              *)
LEMMA GivenUp ==
  ASSUME PlanInv, phase \notin {"plan", "err"}, NEW t, NEW N, NEW st, Known(t, N, st), NEW s \in Ordinary
  PROVE  Known(t, N, Turns(st, s, "dead"))
<1>1. IsTree(t) /\ Stands(t, s, "dead")
  BY DEF Known, Stands
<1> QED
  BY <1>1, EntryTurns

(* A file is created where no directory is.                                 *)
LEMMA IsCreated ==
  ASSUME PlanInv, phase \notin {"plan", "err"}, NEW t, NEW N, NEW st, Known(t, N, st), NEW s \in Ordinary,
         st[s] = "open", t[PathAt(s)].kind # "dir"
  PROVE  /\ t[PathAt(s)].kind # "link"
         /\ Known([t EXCEPT ![PathAt(s)] = [kind |-> "partial", by |-> planned.plan[s].index]], N, Turns(st, s, "partial"))
<1> DEFINE p == PathAt(s)
           node == [kind |-> "partial", by |-> planned.plan[s].index]
           u == [t EXCEPT ![p] = node]
<1>1. /\ p \in Paths /\ planned.plan[s].index \in Nat /\ IsTree(t)
      /\ p \in N => t[p] = Fresh
      /\ p \notin N => Opens(t, s)
  BY PlaceFacts DEF Stands, Known
<1>2. p \notin N
  BY <1>1 DEF Fresh
<1>3. t[p] = Missing /\ Free(p)
  BY <1>1, <1>2 DEF Opens, Free, Missing
<1>4. node \in Node
  BY <1>1 DEF Node
<1> HIDE DEF node
<1>5. IsTree(u) /\ u[p] = node /\ \A q \in Paths : q # p => u[q] = t[q]
  BY <1>1, <1>4 DEF IsTree
<1> HIDE DEF u
<1>6. Stands(u, s, "partial")
  BY <1>3, <1>5 DEF Stands, Begins, node
<1>7. Known(u, N, Turns(st, s, "partial"))
  BY <1>2, <1>5, <1>6, EntryTurns
<1> QED
  BY <1>3, <1>7 DEF u, node, Missing

(* A file that was begun is finished.                                       *)
LEMMA IsFinished ==
  ASSUME PlanInv, phase \notin {"plan", "err"}, NEW t, NEW N, NEW st, Known(t, N, st), NEW s \in Ordinary,
         st[s] = "partial", planned.plan[s].kind = "file"
  PROVE  /\ t[PathAt(s)].kind = "partial"
         /\ Known([t EXCEPT ![PathAt(s)].kind = "file"], N, Turns(st, s, "done"))
<1> DEFINE p == PathAt(s)
           i == planned.plan[s].index
           u == [t EXCEPT ![p].kind = "file"]
<1>1. /\ p \in Paths /\ i \in Nat /\ IsTree(t)
      /\ p \notin N /\ Begins(t, s)
  BY PlaceFacts DEF Stands, Known
<1>2. t[p] = [kind |-> "partial", by |-> i] /\ Free(p)
  BY <1>1 DEF Begins
<1>3. u[p] = [kind |-> "file", by |-> i]
  <2> HIDE DEF i
  <2>1. p \in DOMAIN t
    BY <1>1 DEF IsTree
  <2>2. u[p] = [t[p] EXCEPT !.kind = "file"]
    BY <2>1
  <2>3. [[kind |-> "partial", by |-> i] EXCEPT !.kind = "file"] = [kind |-> "file", by |-> i]
    OBVIOUS
  <2> QED
    BY ONLY <1>2, <2>2, <2>3
<1>4. [kind |-> "file", by |-> i] \in Node
  BY <1>1 DEF Node
<1>5. IsTree(u) /\ \A q \in Paths : q # p => u[q] = t[q]
  <2>1. u = [t EXCEPT ![p] = u[p]]
    BY <1>1 DEF IsTree
  <2> HIDE DEF u
  <2> QED
    BY <1>1, <1>3, <1>4, <2>1 DEF IsTree
<1> HIDE DEF u
<1>6. Stands(u, s, "done")
  BY <1>2, <1>3 DEF Stands, Outcome, Makes
<1>7. Known(u, N, Turns(st, s, "done"))
  BY <1>1, <1>5, <1>6, EntryTurns
<1>8. t[p].kind = "partial"
  BY <1>2
<1> QED
  BY <1>7, <1>8 DEF u

(* A link, or a file without bytes, is made in one go.                      *)
LEMMA MadeAtOnce ==
  ASSUME PlanInv, phase \notin {"plan", "err"}, NEW t, NEW N, NEW st, Known(t, N, st), NEW s \in Ordinary,
         st[s] = "todo", Makes(s), ~ Taken(t, PathAt(s)) \/ options.overwrite = "always",
         Cleared(t, PathAt(s))[PathAt(s)].kind # "dir"
  PROVE  Known([t EXCEPT ![PathAt(s)] = [kind |-> planned.plan[s].kind, by |-> planned.plan[s].index]], N, Turns(st, s, "done"))
<1> DEFINE p == PathAt(s)
           node == [kind |-> planned.plan[s].kind, by |-> planned.plan[s].index]
           u == [t EXCEPT ![p] = node]
<1>1. /\ p \in Paths /\ planned.plan[s].index \in Nat /\ IsTree(t)
      /\ p \in N => t[p] = Fresh
      /\ p \notin N => t[p] = before[p]
      /\ before[p] = Missing <=> before[p].kind = "none"
  BY PlaceFacts DEF Stands, Waits, Known
<1>2. t[p].kind # "dir"
  BY <1>1 DEF Cleared
<1>3. p \notin N /\ Free(p)
  BY <1>1, <1>2 DEF Fresh, Free, Taken
<1>4. node \in Node
  BY <1>1 DEF Node, Makes
<1>5. node = Outcome(s)
  BY <1>3 DEF Outcome
<1> HIDE DEF node
<1>6. IsTree(u) /\ u[p] = node /\ \A q \in Paths : q # p => u[q] = t[q]
  BY <1>1, <1>4 DEF IsTree
<1> HIDE DEF u
<1>7. Stands(u, s, "done")
  BY <1>5, <1>6 DEF Stands
<1>8. Known(u, N, Turns(st, s, "done"))
  BY <1>3, <1>6, <1>7, EntryTurns
<1> QED
  BY <1>8 DEF u, node

(* Directories are made where they are needed, whatever stands there but    *)
(* for links, as long as no file is being written.                          *)
LEMMA DirectoriesHold ==
  ASSUME PlanInv, phase \notin {"plan", "err"}, NEW t, NEW N, NEW st, Known(t, N, st), SealedIn(t) = {},
         \A s \in Ordinary : st[s] # "partial", NEW path \in Paths
  PROVE  /\ Known(WithDirectories(t, path), N \cup Ancestry(path), st)
         /\ Known(WithParents(t, path), N \cup Above(path), st)
<1>0. \A q \in Paths : t[q].kind = "dir" => t[q] = Fresh
  <2> TAKE q \in Paths
  <2>1. t[q] \in Node /\ (t[q].kind = "dir" => t[q].by = 0)
    BY DEF Known, IsTree, SealedIn
  <2> QED
    BY <2>1 DEF Node, Fresh
<1>1. ASSUME NEW q \in Paths PROVE Known(WithDirectories(t, q), N \cup Ancestry(q), st)
  <2> DEFINE u == WithDirectories(t, q)
             M == N \cup Ancestry(q)
  <2>1. \A p \in Paths : u[p] = IF p \in Ancestry(q) THEN Fresh ELSE t[p]
    BY <1>0 DEF WithDirectories
  <2>2. IsTree(u) /\ Ancestry(q) \subseteq Paths /\ N \subseteq Paths /\ Holds(t, N, st) /\ st \in States
    BY WithDirectoriesFacts, PathFacts DEF Known
  <2>3. \A s \in Ordinary : PathAt(s) \in Paths
    BY EntriesAreAlone
  <2> HIDE DEF u
  <2>4. \A p \in M : u[p] = Fresh
    BY <2>1, <2>2 DEF Holds
  <2>5. \A p \in Paths : p \notin M /\ Unclaimed(p) => u[p] = before[p]
    BY <2>1, <2>2 DEF Holds
  <2>6. ASSUME NEW s \in Ordinary PROVE IF PathAt(s) \in M THEN st[s] # "partial" ELSE Stands(u, s, st[s])
    <3>1. CASE PathAt(s) \in M
      BY <3>1
    <3>2. CASE PathAt(s) \notin M
      <4>1. u[PathAt(s)] = t[PathAt(s)] /\ PathAt(s) \notin N
        BY <2>1, <2>3, <3>2
      <4>2. Stands(t, s, st[s])
        BY <2>2, <4>1 DEF Holds
      <4>3. Stands(u, s, st[s])
        BY ONLY <4>1, <4>2 DEF Stands, Waits, Opens, Begins
      <4> QED
        BY <3>2, <4>3
    <3> QED
      BY <3>1, <3>2
  <2>7. Holds(u, M, st)
    BY <2>4, <2>5, <2>6 DEF Holds
  <2> QED
    BY <2>2, <2>7 DEF Known, u
<1>2. Known(WithParents(t, path), N \cup Above(path), st)
  <2>1. CASE Len(path) > 1
    <3>1. WithParents(t, path) = WithDirectories(t, Front(path)) /\ Front(path) \in Paths /\ Ancestry(Front(path)) = Above(path)
      BY <2>1, PathFacts DEF WithParents
    <3> QED
      BY <1>1, <3>1
  <2>2. CASE ~ (Len(path) > 1)
    <3>1. Above(path) = {}
      BY <2>2, PathFacts
    <3>2. WithParents(t, path) = t /\ N \cup Above(path) = N
      BY <2>2, <3>1 DEF WithParents
    <3> QED
      BY <3>2
  <2> QED
    BY <2>1, <2>2
<1> QED
  BY <1>1, <1>2

-----------------------------------------------------------------------------
(* When everything else is done the directories get their metadata, and     *)
(* what else there is stays: E are places nothing is claimed of.            *)
TurnOf(items, n) == items[DeepestFirst(items)[n]]
Final(t, p) ==
  /\ Unclaimed(p) => t[p] = before[p]
  /\ \A s \in Ordinary : PathAt(s) = p => t[p] = Outcome(s)
LastSealed(items, k, n, p) == TurnOf(items, n).path = p /\ \A m \in n + 1 .. k : TurnOf(items, m).path # p
Sealing(t, N, E, items, k) ==
  /\ \A p \in Paths : p \notin N \cup E => Final(t, p)
  /\ \A p \in N \ E :
       /\ t[p].kind = "dir"
       /\ (\A n \in 1 .. k : TurnOf(items, n).path # p) => t[p].by = 0
       /\ \A n \in 1 .. k : LastSealed(items, k, n, p) => t[p].by = TurnOf(items, n).index

(* At first none has its metadata.                                          *)
LEMMA SealingBegins ==
  ASSUME PlanInv, phase \notin {"plan", "err"}, NEW t, NEW N, NEW st, Known(t, N, st), \A s \in Ordinary : st[s] = "done",
         NEW items
  PROVE  Sealing(t, N, {}, items, 0)
<1>1. /\ \A p \in N : t[p] = Fresh
      /\ \A p \in Paths : p \notin N /\ Unclaimed(p) => t[p] = before[p]
      /\ \A s \in Ordinary : PathAt(s) \notin N => Stands(t, s, "done")
  BY DEF Known, Holds
<1>2. \A n \in 1 .. 0 : FALSE
  OBVIOUS
<1>3. \A s \in Ordinary : PathAt(s) \notin N => t[PathAt(s)] = Outcome(s)
  BY <1>1 DEF Stands
<1>4. \A p \in N : t[p].kind = "dir" /\ t[p].by = 0
  BY <1>1 DEF Fresh
<1> QED
  BY <1>1, <1>2, <1>3, <1>4 DEF Sealing, Final

(* One more gets it.                                                        *)
LEMMA SealingGoesOn ==
  ASSUME NEW t, IsTree(t), NEW N \in SUBSET Paths, NEW E, NEW items, NEW k \in Nat, Sealing(t, N, E, items, k),
         NEW item, item = TurnOf(items, k + 1), item.path \in N \cup E, NEW u, Seals(item, t, u)
  PROVE  Sealing(u, N, E, items, k + 1)
<1> DEFINE path == item.path
<1>0. k + 1 \in Nat /\ (\A n \in 1 .. k : n \in 1 .. k + 1 /\ n # k + 1) /\ (\A n \in 1 .. k + 1 : n \in 1 .. k \/ n = k + 1)
      /\ k + 1 \in 1 .. k + 1
  OBVIOUS
<1>1. \A p \in Paths : p # path => u[p] = t[p]
  BY DEF IsTree, Seals
<1>2. \A p \in Paths : p = path /\ t[p].kind = "dir" => u[p].kind = "dir" /\ u[p].by = item.index
  <2> TAKE p \in Paths
  <2> HAVE p = path /\ t[p].kind = "dir"
  <2>1. u = [t EXCEPT ![path].by = item.index] /\ path \in DOMAIN t
    BY DEF Seals, IsTree
  <2>2. u[path] = [t[path] EXCEPT !.by = item.index]
    BY <2>1
  <2>3. t[path] \in Node
    BY DEF IsTree
  <2>4. \A x \in Node : [x EXCEPT !.by = item.index].kind = x.kind /\ [x EXCEPT !.by = item.index].by = item.index
    BY DEF Node
  <2> QED
    BY <2>2, <2>3, <2>4
<1> HIDE DEF path
<1>3. ASSUME NEW p \in Paths, p \notin N \cup E PROVE Final(u, p)
  <2>1. p # path /\ Final(t, p)
    BY <1>3 DEF Sealing, path
  <2> QED
    BY <1>1, <2>1 DEF Final
<1>4. ASSUME NEW p \in N \ E
      PROVE  /\ u[p].kind = "dir"
             /\ (\A n \in 1 .. k + 1 : TurnOf(items, n).path # p) => u[p].by = 0
             /\ \A n \in 1 .. k + 1 : LastSealed(items, k + 1, n, p) => u[p].by = TurnOf(items, n).index
  <2>0. /\ t[p].kind = "dir"
        /\ (\A n \in 1 .. k : TurnOf(items, n).path # p) => t[p].by = 0
        /\ \A n \in 1 .. k : LastSealed(items, k, n, p) => t[p].by = TurnOf(items, n).index
    BY DEF Sealing
  <2>1. CASE p = path
    <3>1. TurnOf(items, k + 1).path = p
      BY <2>1 DEF path
    <3>2. u[p].kind = "dir" /\ u[p].by = TurnOf(items, k + 1).index
      BY <1>2, <2>0, <2>1
    <3>3. \A n \in 1 .. k : k + 1 \in n + 1 .. k + 1
      OBVIOUS
    <3>4. \A n \in 1 .. k : ~ LastSealed(items, k + 1, n, p)
      BY <3>1, <3>3 DEF LastSealed
    <3> QED
      BY <1>0, <3>1, <3>2, <3>4
  <2>2. CASE p # path
    <3>1. TurnOf(items, k + 1).path # p /\ u[p] = t[p]
      BY <1>1, <2>2 DEF path
    <3>2. \A n \in 1 .. k : LastSealed(items, k + 1, n, p) => LastSealed(items, k, n, p)
      <4>1. \A n \in 1 .. k : \A m \in n + 1 .. k : m \in n + 1 .. k + 1
        OBVIOUS
      <4> QED
        BY <4>1 DEF LastSealed
    <3>3. ~ LastSealed(items, k + 1, k + 1, p)
      BY <3>1 DEF LastSealed
    <3> QED
      BY <1>0, <2>0, <3>1, <3>2, <3>3
  <2> QED
    BY <2>1, <2>2
<1> QED
  BY <1>3, <1>4 DEF Sealing

(* At the end each directory has the metadata of the last entry for it.     *)
LastDirectory(p) ==
  LET dirs == {s \in DOMAIN planned.plan : planned.plan[s].path = p /\ planned.plan[s].kind = "dir"}
  IN  IF dirs = {} \/ ~options.restore THEN 0
      ELSE planned.plan[CHOOSE s \in dirs : \A t \in dirs : t <= s].index

(* Of those for one path the last is the last to be sealed, since they are  *)
(* equally deep.                                                            *)
LEMMA SealingEnds ==
  ASSUME PlanInv, NEW q, Sorted(q, DirSlots, Ascending(DirSlots)),
         NEW items, items = [n \in DOMAIN q |-> planned.plan[q[n]]],
         NEW t, IsTree(t), NEW N \in SUBSET Paths, NEW E, NEW k, Sealing(t, N, E, items, k),
         k = IF options.restore THEN Len(q) ELSE 0, NEW p \in N \ E
  PROVE  t[p] = [kind |-> "dir", by |-> LastDirectory(p)]
<1> DEFINE dirs == {s \in DOMAIN planned.plan : planned.plan[s].path = p /\ planned.plan[s].kind = "dir"}
           order == DeepestFirst(items)
<1>1. /\ t[p].kind = "dir" /\ t[p] \in Node
      /\ (\A n \in 1 .. k : TurnOf(items, n).path # p) => t[p].by = 0
      /\ \A n \in 1 .. k : LastSealed(items, k, n, p) => t[p].by = TurnOf(items, n).index
  BY DEF Sealing, IsTree
<1>2. /\ q \in Seq(DirSlots) /\ Len(q) \in Nat /\ DOMAIN q = 1 .. Len(q) /\ DirSlots \subseteq Nat
      /\ \A n \in DOMAIN q : q[n] \in DirSlots
      /\ \A s \in DirSlots : \E n \in DOMAIN q : q[n] = s
      /\ \A m, n \in DOMAIN q : m < n => q[m] < q[n]
  <2>1. q \in Seq(DirSlots)
    BY DEF Sorted
  <2>2. DirSlots \subseteq Nat
    BY PlannedFacts DEF DirSlots
  <2>3. /\ \A n \in DOMAIN q : q[n] \in DirSlots
        /\ \A s \in DirSlots : \E n \in DOMAIN q : q[n] = s
        /\ \A m, n \in DOMAIN q : m < n => q[m] \in Ascending(DirSlots)[q[n]]
    BY DEF Sorted
  <2>4. \A m, n \in DOMAIN q : m < n => q[m] < q[n]
    BY <2>3 DEF Ascending
  <2> QED
    BY <2>1, <2>2, <2>3, <2>4
<1>3. \A n \in DOMAIN q : items[n] = planned.plan[q[n]] /\ q[n] \in DOMAIN planned.plan /\ items[n].kind = "dir"
                          /\ items[n].path \in Paths
  <2>1. \A s \in DirSlots : s \in DOMAIN planned.plan /\ planned.plan[s].kind = "dir" /\ planned.plan[s].path \in Paths
    BY PlannedFacts DEF DirSlots
  <2> QED
    BY <1>2, <2>1
<1>4. items \in Seq({planned.plan[s] : s \in DirSlots}) /\ DOMAIN items = DOMAIN q /\ Len(items) = Len(q)
  BY <1>2
<1>5. Cardinality(DOMAIN items) = Len(q)
  BY <1>2, <1>4, CountUpto
<1>6. /\ DOMAIN order = DOMAIN q /\ \A n \in DOMAIN q : order[n] \in DOMAIN q
      /\ \A m \in DOMAIN q : \E n \in DOMAIN q : order[n] = m
      /\ \A m, n \in DOMAIN q : m < n => order[m] \in Deeper(items)[order[n]]
  <2>1. Sorted(order, DOMAIN items, Deeper(items))
    BY <1>3, <1>4, DeepestFirstSorts
  <2> HIDE DEF order
  <2> QED
    BY <1>2, <1>4, <1>5, <2>1 DEF Sorted
<1>7. \A n \in DOMAIN q : TurnOf(items, n) = items[order[n]]
  BY DEF TurnOf
<1> HIDE DEF order
<1>8. CASE dirs = {} \/ ~ options.restore
  <2>1. LastDirectory(p) = 0
    BY <1>8 DEF LastDirectory
  <2>2. \A n \in 1 .. k : TurnOf(items, n).path # p
    <3>1. CASE ~ options.restore
      <4>1. k = 0
        BY <3>1
      <4> QED
        BY <4>1
    <3>2. CASE options.restore /\ dirs = {}
      <4>1. 1 .. k = DOMAIN q
        BY <1>2, <3>2
      <4>2. \A m \in DOMAIN q : items[m].path # p
        BY <1>3, <3>2
      <4>3. ASSUME NEW n \in DOMAIN q PROVE TurnOf(items, n).path # p
        <5>1. TurnOf(items, n) = items[order[n]] /\ order[n] \in DOMAIN q
          BY <1>6, <1>7
        <5> QED
          BY ONLY <4>2, <5>1
      <4> QED
        BY ONLY <4>1, <4>3
    <3> QED
      BY <1>8, <3>1, <3>2
  <2> QED
    BY <1>1, <2>1, <2>2 DEF Node
<1>9. CASE dirs # {} /\ options.restore
  <2>1. k = Len(q) /\ 1 .. k = DOMAIN q
    BY <1>2, <1>9
  <2>2. PICK s \in dirs : LastDirectory(p) = planned.plan[s].index /\ \A r \in dirs : r <= s
    <3>1. dirs \subseteq Nat /\ IsFiniteSet(dirs)
      <4>1. DOMAIN planned.plan = 1 .. Len(planned.plan) /\ Len(planned.plan) \in Nat /\ dirs \subseteq DOMAIN planned.plan
        BY PlannedFacts
      <4>2. IsFiniteSet(DOMAIN planned.plan)
        BY <4>1, CountUpto
      <4> QED
        BY <4>1, <4>2, FS_Subset
    <3>2. \E s \in dirs : \A r \in dirs : r <= s
      <4> HIDE DEF dirs
      <4> QED
        BY <1>9, <3>1, MaxFacts
    <3>3. LastDirectory(p) = planned.plan[CHOOSE s \in dirs : \A r \in dirs : r <= s].index
      BY <1>9 DEF LastDirectory
    <3> HIDE DEF dirs
    <3> QED
      BY <3>2, <3>3
  <2>3. s \in DirSlots /\ planned.plan[s].path = p
    BY DEF DirSlots
  <2>4. PICK m \in DOMAIN q : q[m] = s
    BY <1>2, <2>3
  <2>5. PICK n \in DOMAIN q : order[n] = m
    BY <1>6
  <2>6. TurnOf(items, n) = planned.plan[s]
    BY <1>3, <1>7, <2>4, <2>5
  <2>7. ASSUME NEW r \in n + 1 .. k, TurnOf(items, r).path = p PROVE FALSE
    <3>1. r \in DOMAIN q /\ n < r
      BY <1>2, <2>1
    <3>2. order[r] \in DOMAIN q /\ m \in Deeper(items)[order[r]] /\ items[order[r]].path = p
      BY <1>6, <1>7, <2>5, <2>7, <3>1
    <3>3. PICK l \in DOMAIN q : l = order[r]
      BY <3>2
    <3>4. items[m].path = p /\ items[l].path = p /\ m \in Deeper(items)[l]
      BY <1>3, <2>3, <2>4, <3>2, <3>3
    <3>5. m < l
      <4>1. Len(items[m].path) > Len(items[l].path) \/ (Len(items[m].path) = Len(items[l].path) /\ m < l)
        BY <1>4, <3>4 DEF Deeper
      <4>2. Len(p) \in Nat
        BY PathFacts
      <4> QED
        BY <3>4, <4>1, <4>2
    <3>6. q[l] \in dirs
      BY <1>3, <3>4
    <3>7. q[m] < q[l] /\ q[l] <= q[m]
      BY <1>2, <2>2, <2>4, <3>5, <3>6
    <3>8. q[m] \in Nat /\ q[l] \in Nat
      BY <1>2
    <3> QED
      BY <3>7, <3>8
  <2>8. LastSealed(items, k, n, p)
    BY <2>3, <2>6, <2>7 DEF LastSealed
  <2>9. t[p].by = planned.plan[s].index
    BY <1>1, <2>1, <2>6, <2>8
  <2> QED
    BY <1>1, <2>2, <2>9 DEF Node
<1> QED
  BY <1>8, <1>9

(* Elsewhere stands the one entry that is restored there, or what was there *)
(* before.                                                                  *)
Given(p) == {s \in Ordinary : PathAt(s) = p /\ Free(p) /\ Makes(s)}
Elsewhere(p) ==
  IF Given(p) = {} THEN before[p]
  ELSE LET s == CHOOSE s \in Given(p) : TRUE IN [kind |-> planned.plan[s].kind, by |-> planned.plan[s].index]

(* That is the outcome of the entry for it.                                 *)
LEMMA FinalElsewhere ==
  ASSUME PlanInv, phase \notin {"plan", "err"}, NEW t, NEW p, Final(t, p)
  PROVE  t[p] = Elsewhere(p)
<1>1. CASE Unclaimed(p)
  <2>1. Given(p) = {}
    BY <1>1 DEF Unclaimed, Given
  <2> QED
    BY <1>1, <2>1 DEF Final, Elsewhere
<1>2. CASE ~ Unclaimed(p)
  <2>1. PICK s \in Ordinary : PathAt(s) = p
    BY <1>2 DEF Unclaimed
  <2>2. t[p] = Outcome(s)
    BY <2>1 DEF Final
  <2>3. \A r \in Given(p) : r = s
    BY <2>1, EntriesAreAlone DEF Alone, Given
  <2>4. CASE s \in Given(p)
    <3>1. (CHOOSE r \in Given(p) : TRUE) = s
      BY <2>3, <2>4
    <3>2. Elsewhere(p) = [kind |-> planned.plan[s].kind, by |-> planned.plan[s].index]
      BY <2>4, <3>1 DEF Elsewhere
    <3>3. Free(PathAt(s)) /\ Makes(s)
      BY <2>1, <2>4 DEF Given
    <3> QED
      BY <2>2, <3>2, <3>3 DEF Outcome
  <2>5. CASE s \notin Given(p)
    <3>1. Given(p) = {}
      BY <2>3, <2>5
    <3>2. ~ (Free(PathAt(s)) /\ Makes(s))
      BY <2>1, <2>5 DEF Given
    <3> QED
      BY <2>1, <2>2, <3>1, <3>2 DEF Outcome, Elsewhere
  <2> QED
    BY <2>4, <2>5
<1> QED
  BY <1>1, <1>2

-----------------------------------------------------------------------------
(* None of this depends on anything but the destination while the plan      *)
(* stays.                                                                   *)
LEMMA KnownStays ==
  ASSUME UNCHANGED <<archive, options, before, planned, format>>, NEW N, NEW st, Known(tree', N, st)
  PROVE  Known(tree, N, st)'
<1>1. Ordinary' = Ordinary /\ States' = States
  BY DEF Ordinary, States
<1>2. \A s : Outcome(s)' = Outcome(s)
  BY DEF Outcome, Free, Makes, PathAt
<1>3. ASSUME NEW t, NEW s, NEW state PROVE Stands(t, s, state)' <=> Stands(t, s, state)
  BY <1>2 DEF Stands, Waits, Opens, Begins, Free, PathAt
<1>4. \A p : Unclaimed(p)' <=> Unclaimed(p)
  BY <1>1 DEF Unclaimed, PathAt
<1>5. ASSUME NEW t PROVE Holds(t, N, st)' <=> Holds(t, N, st)
  BY <1>1, <1>3, <1>4 DEF Holds, PathAt
<1>6. ASSUME NEW t PROVE Known(t, N, st)' <=> Known(t, N, st)
  BY <1>1, <1>5 DEF Known
<1>7. PICK u : u = tree'
  OBVIOUS
<1>8. Known(u, N, st)'
  BY <1>6, <1>7
<1> QED
  BY <1>7, <1>8 DEF Known, Holds, Stands, Waits, Opens, Begins

(* The slots of a kind are all of them, in the order of the plan.           *)
LEMMA SlotsSort ==
  ASSUME PlanInv, NEW kind
  PROVE  /\ Sorted(SlotsOf(kind), {s \in DOMAIN planned.plan : planned.plan[s].kind = kind},
                   Ascending({s \in DOMAIN planned.plan : planned.plan[s].kind = kind}))
         /\ Len(SlotsOf(kind)) \in Nat /\ DOMAIN SlotsOf(kind) = 1 .. Len(SlotsOf(kind))
         /\ \A n \in 1 .. Len(SlotsOf(kind)) :
              /\ SlotsOf(kind)[n] \in DOMAIN planned.plan /\ planned.plan[SlotsOf(kind)[n]].kind = kind
              /\ ItemsOf(kind)[n] = planned.plan[SlotsOf(kind)[n]]
              /\ kind # "dir" => SlotsOf(kind)[n] \in Ordinary /\ ItemsOf(kind)[n].path = PathAt(SlotsOf(kind)[n])
         /\ \A s \in DOMAIN planned.plan : planned.plan[s].kind = kind => \E n \in 1 .. Len(SlotsOf(kind)) : SlotsOf(kind)[n] = s
         /\ \A m, n \in 1 .. Len(SlotsOf(kind)) : SlotsOf(kind)[m] = SlotsOf(kind)[n] => m = n
<1> DEFINE S == {s \in DOMAIN planned.plan : planned.plan[s].kind = kind}
           q == SlotsOf(kind)
<1>1. DOMAIN planned.plan = 1 .. Len(planned.plan) /\ Len(planned.plan) \in Nat /\ S \subseteq DOMAIN planned.plan
  BY PlannedFacts
<1>2. S \in SUBSET Nat /\ IsFiniteSet(S)
  <2>1. IsFiniteSet(DOMAIN planned.plan)
    BY <1>1, CountUpto
  <2> HIDE DEF S
  <2> QED
    BY <1>1, <2>1, FS_Subset
<1>3. Sorted(q, S, Ascending(S))
  BY <1>2, InOrderAscending DEF SlotsOf
<1>4. \A n \in DOMAIN q : ItemsOf(kind)[n] = planned.plan[q[n]]
  BY DEF ItemsOf
<1> HIDE DEF q, S
<1>5. /\ q \in Seq(S) /\ DOMAIN q = 1 .. Len(q) /\ Len(q) \in Nat
      /\ \A n \in DOMAIN q : q[n] \in S
      /\ \A s \in S : \E n \in DOMAIN q : q[n] = s
      /\ \A m, n \in DOMAIN q : m < n => q[m] \in Ascending(S)[q[n]]
  BY <1>3 DEF Sorted
<1>6. \A m, n \in DOMAIN q : m < n => q[m] < q[n]
  BY <1>5 DEF Ascending
<1>7. \A m, n \in DOMAIN q : q[m] = q[n] => m = n
  <2> TAKE m, n \in DOMAIN q
  <2> HAVE q[m] = q[n]
  <2>0. q[m] \in S /\ q[n] \in S
    BY <1>5
  <2>3. m \in 1 .. Len(q) /\ n \in 1 .. Len(q)
    BY <1>5
  <2>4. q[m] \in Nat /\ q[n] \in Nat
    BY <1>2, <2>0
  <2>1. m \in Nat /\ n \in Nat /\ q[m] \in Nat /\ q[n] \in Nat
    BY <2>3, <2>4
  <2>2. ~ (m < n) /\ ~ (n < m)
    BY <1>6, <2>1
  <2> QED
    BY <2>1, <2>2
<1>8. \A n \in DOMAIN q : q[n] \in DOMAIN planned.plan /\ planned.plan[q[n]].kind = kind
  BY <1>5 DEF S
<1>9. \A s \in DOMAIN planned.plan : planned.plan[s].kind = kind => \E n \in DOMAIN q : q[n] = s
  BY <1>5 DEF S
<1>10. \A n \in DOMAIN q : kind # "dir" => q[n] \in Ordinary /\ ItemsOf(kind)[n].path = PathAt(q[n])
  BY <1>4, <1>8 DEF Ordinary, PathAt
<1> QED
  BY <1>3, <1>4, <1>5, <1>7, <1>8, <1>9, <1>10 DEF q, S

(* The plan is no longer than the archive.                                  *)
LEMMA PlanIsShort ==
  ASSUME PlanInv, phase \notin {"plan", "err"}
  PROVE  Len(planned.plan) \in Nat /\ Len(planned.plan) <= MaxEntries
<1> DEFINE D == DOMAIN planned.plan
           A == DOMAIN archive
           f == [s \in D |-> planned.plan[s].index]
<1>1. /\ D = 1 .. Len(planned.plan) /\ Len(planned.plan) \in Nat
      /\ \A s \in D : planned.plan[s].index \in A
  BY PlannedFacts
<1>2. A = 1 .. Len(archive) /\ Len(archive) \in Nat /\ Len(archive) <= MaxEntries
  BY DEF PlanInv, IsArchive
<1>3. IsFiniteSet(D) /\ Cardinality(D) = Len(planned.plan) /\ IsFiniteSet(A) /\ Cardinality(A) = Len(archive)
  BY <1>1, <1>2, CountUpto
<1>4. \A s, r \in D : planned.plan[s].index = planned.plan[r].index => s = r
  BY UniqueIndex
<1>5. f \in Injection(D, A)
  BY <1>1, <1>4 DEF Injection, IsInjective
<1> HIDE DEF f, D, A
<1>6. Cardinality(D) <= Cardinality(A)
  BY <1>3, <1>5, FS_Injection
<1>7. MaxEntries \in Nat
  BY BoundsAssumption
<1> QED
  BY <1>1, <1>2, <1>3, <1>6, <1>7

(* What can be planned.                                                     *)
LEMMA PlannedKinds ==
  ASSUME PlanInv, phase \notin {"plan", "err"}, NEW s \in DOMAIN planned.plan
  PROVE  /\ planned.plan[s].kind \in {"dir", "file", "link", "hard", "special"}
         /\ format # "tar" => planned.plan[s].kind \in {"dir", "file", "link"}
<1> DEFINE i == planned.plan[s].index
<1>1. IsArchive(archive) /\ IsOptions(options) /\ planned \in Plans(archive, options)
  BY PlannedFacts DEF PlanInv
<1>2. i \in InPlace(archive, options) /\ planned.plan[s].kind = archive[i].kind
  BY <1>1, PlansFacts
<1> HIDE DEF i
<1>3. i \in DOMAIN archive /\ Len(archive[i].name) > StripDepth(archive, options) /\ archive[i].kind \notin {"opaque", "anti"}
  BY <1>2 DEF InPlace
<1>4. archive[i].kind # "root"
  <2>1. StripDepth(archive, options) \in Nat
    BY <1>1, <1>3, PathOfFacts
  <2>2. archive[i].kind = "root" => archive[i].name = <<>>
    BY <1>1, <1>3 DEF IsArchive
  <2> QED
    BY <1>3, <2>1, <2>2
<1>5. archive[i].kind \in Kinds(format)
  BY <1>3 DEF PlanInv
<1> QED
  BY <1>2, <1>3, <1>4, <1>5 DEF Kinds

(* A file or a link is only made where no directory stands.                 *)
LEMMA CreatableFacts ==
  /\ \A t, p : OfZip!Creatable(t, p) => t[p].kind # "dir"
  /\ \A t, p : OfTar!Creatable(t, p) => t[p].kind # "dir"
  /\ \A t, p : OfSevenZ!Creatable(t, p) => t[p].kind # "dir"
BY DEF OfZip!Creatable, OfTar!Creatable, OfSevenZ!Creatable

(* What is left when the directories have their metadata, but at E.         *)
Settled(t, N, E) ==
  \A p \in Paths : p \notin E =>
    t[p] = IF p \in N THEN [kind |-> "dir", by |-> LastDirectory(p)] ELSE Elsewhere(p)

(* It is when the last directory of the plan has its.                       *)
LEMMA SealingSettles ==
  ASSUME PlanInv, phase \notin {"plan", "err"}, NEW q, Sorted(q, DirSlots, Ascending(DirSlots)),
         NEW items, items = [n \in DOMAIN q |-> planned.plan[q[n]]],
         NEW t, IsTree(t), NEW N \in SUBSET Paths, NEW E, NEW k, Sealing(t, N, E, items, k),
         k = IF options.restore THEN Len(q) ELSE 0
  PROVE  Settled(t, N, E)
<1> SUFFICES ASSUME NEW p \in Paths, p \notin E
             PROVE  t[p] = IF p \in N THEN [kind |-> "dir", by |-> LastDirectory(p)] ELSE Elsewhere(p)
  BY DEF Settled
<1>1. CASE p \in N
  <2>1. p \in N \ E
    BY <1>1
  <2>2. t[p] = [kind |-> "dir", by |-> LastDirectory(p)]
    BY <2>1, SealingEnds
  <2> QED
    BY <1>1, <2>2
<1>2. CASE p \notin N
  <2>1. Final(t, p)
    BY <1>2 DEF Sealing
  <2> QED
    BY <1>2, <2>1, FinalElsewhere
<1> QED
  BY <1>1, <1>2

(* These depend on the plan and the destination alone, too.                 *)
LEMMA SealingStays ==
  ASSUME UNCHANGED <<archive, options, before, planned, format>>
  PROVE  /\ \A N, E, items, k : Sealing(tree', N, E, items, k) => Sealing(tree, N, E, items, k)'
         /\ \A N, E : Settled(tree', N, E) => Settled(tree, N, E)'
         /\ \A kind : SlotsOf(kind)' = SlotsOf(kind) /\ ItemsOf(kind)' = ItemsOf(kind)
         /\ Ordinary' = Ordinary
<1>1. Ordinary' = Ordinary
  BY DEF Ordinary
<1>2. \A s : Outcome(s)' = Outcome(s)
  BY DEF Outcome, Free, Makes, PathAt
<1>3. \A p : Unclaimed(p)' <=> Unclaimed(p)
  BY <1>1 DEF Unclaimed, PathAt
<1>4. ASSUME NEW t, NEW p PROVE Final(t, p)' <=> Final(t, p)
  BY <1>1, <1>2, <1>3 DEF Final, PathAt
<1>5. \A p : Elsewhere(p)' = Elsewhere(p)
  <2>1. \A p : Given(p)' = Given(p)
    BY <1>1 DEF Given, Free, Makes, PathAt
  <2> QED
    BY <2>1 DEF Elsewhere
<1>6. \A p : LastDirectory(p)' = LastDirectory(p)
  BY DEF LastDirectory
<1>7. PICK u : u = tree'
  OBVIOUS
<1>8. ASSUME NEW N, NEW E, NEW items, NEW k, Sealing(tree', N, E, items, k) PROVE Sealing(tree, N, E, items, k)'
  <2>1. Sealing(u, N, E, items, k)
    BY <1>7, <1>8
  <2>2. Sealing(u, N, E, items, k)'
    BY <1>4, <2>1 DEF Sealing
  <2> QED
    BY <1>7, <2>2 DEF Sealing, Final
<1>9. ASSUME NEW N, NEW E, Settled(tree', N, E) PROVE Settled(tree, N, E)'
  BY <1>5, <1>6, <1>9 DEF Settled
<1>10. \A kind : SlotsOf(kind)' = SlotsOf(kind) /\ ItemsOf(kind)' = ItemsOf(kind)
  BY SlotsStay
<1> QED
  BY <1>1, <1>8, <1>9, <1>10

(* At first all waits,                                                      *)
AllWait == [s \in Ordinary |-> "todo"]

(* and nothing has been made.                                               *)
LEMMA WaitsAtFirst ==
  ASSUME PlanInv', tree' = before', NEW st, st = AllWait'
  PROVE  Known(tree, {}, st)'
<1>1. st \in States' /\ \A s \in Ordinary' : st[s] = "todo"
  BY DEF States, AllWait
<1>2. IsTree(tree)'
  BY DEF PlanInv, IsDestination, IsTree, Node
<1>3. \A s \in Ordinary' : Stands(tree, s, "todo")'
  BY DEF Stands, Waits
<1>4. \A s \in Ordinary' : Stands(tree, s, st[s])'
  BY <1>1, <1>3
<1>5. Holds(tree, {}, st)'
  BY <1>4 DEF Holds
<1> QED
  BY <1>1, <1>2, <1>5 DEF Known

(* What is not to be restored can be counted as done.                       *)
LEMMA NothingElseIsMade ==
  ASSUME NEW t, NEW N, NEW st, Known(t, N, st), \A s \in Ordinary : st[s] = "done" \/ (st[s] = "todo" /\ ~ Makes(s))
  PROVE  Known(t, N, [s \in Ordinary |-> "done"])
<1> DEFINE v == [s \in Ordinary |-> "done"]
<1>1. v \in States /\ \A s \in Ordinary : v[s] = "done"
  BY DEF States
<1>2. \A s \in Ordinary : Waits(t, s) /\ ~ Makes(s) => t[PathAt(s)] = Outcome(s)
  BY DEF Waits, Outcome
<1>3. ASSUME NEW s \in Ordinary PROVE IF PathAt(s) \in N THEN v[s] # "partial" ELSE Stands(t, s, v[s])
  <2>1. IF PathAt(s) \in N THEN st[s] # "partial" ELSE Stands(t, s, st[s])
    BY DEF Known, Holds
  <2>2. Stands(t, s, st[s]) => Stands(t, s, "done")
    BY <1>2 DEF Stands
  <2> QED
    BY <1>1, <2>1, <2>2
<1> HIDE DEF v
<1>4. Holds(t, N, v)
  BY <1>3 DEF Known, Holds
<1> QED
  BY <1>1, <1>4 DEF Known, v

(* The directories that the first entries of a plan need.                   *)
NeededAt(s) == IF planned.plan[s].kind = "dir" THEN Ancestry(PathAt(s)) ELSE Above(PathAt(s))
NeededTo(n) == UNION {NeededAt(s) : s \in 1 .. n}

(* They grow with each, and in the end are all.                             *)
LEMMA NeededGrows ==
  ASSUME PlanInv
  PROVE  /\ NeededTo(0) = {}
         /\ \A n \in Nat : NeededTo(n + 1) = NeededTo(n) \cup NeededAt(n + 1)
         /\ NeededTo(Len(planned.plan)) = Needed(planned.plan)
         /\ Needed(planned.plan) \subseteq Paths
<1>1. DOMAIN planned.plan = 1 .. Len(planned.plan) /\ \A s \in DOMAIN planned.plan : planned.plan[s].path \in Paths
  BY PlannedFacts
<1>2. NeededTo(0) = {}
  BY DEF NeededTo
<1>3. ASSUME NEW n \in Nat PROVE NeededTo(n + 1) = NeededTo(n) \cup NeededAt(n + 1)
  <2>1. \A s : s \in 1 .. n + 1 <=> s \in 1 .. n \/ s = n + 1
    OBVIOUS
  <2> HIDE DEF NeededAt
  <2> QED
    BY <2>1 DEF NeededTo
<1>4. NeededTo(Len(planned.plan)) = Needed(planned.plan)
  BY <1>1 DEF NeededTo, Needed, NeededAt, PathAt
<1>5. \A s \in DOMAIN planned.plan : NeededAt(s) \subseteq Paths
  BY <1>1, PathFacts DEF NeededAt, PathAt, Above
<1>6. Needed(planned.plan) \subseteq Paths
  BY <1>1, <1>4, <1>5 DEF NeededTo
<1> QED
  BY <1>2, <1>3, <1>4, <1>6
=============================================================================
