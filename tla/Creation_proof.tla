-------------------------- MODULE Creation_proof ---------------------------
(***************************************************************************)
(* Proofs about Creation, for any files, inputs and options and any        *)
(* number of workers.                                                      *)
(***************************************************************************)
EXTENDS Creation, Collections_proof

-----------------------------------------------------------------------------
(* Names in their order.                                                    *)

(* m comes before n at k: they agree up to there, and there m ends or is    *)
(* less.                                                                    *)
LessAt(m, n, k) ==
  /\ k - 1 <= Len(m) /\ \A j \in 1 .. k - 1 : m[j] = n[j]
  /\ k = Len(m) + 1 \/ (k <= Len(m) /\ m[k] < n[k])

(* A name is less than another where they differ first.                     *)
LEMMA LessNameAt ==
  ASSUME NEW m \in Seq(Nat), NEW n \in Seq(Nat)
  PROVE  LessName(m, n) <=> \E k \in 1 .. Len(n) : LessAt(m, n, k)
<1>0. Len(m) \in Nat /\ Len(n) \in Nat /\ DOMAIN m = 1 .. Len(m) /\ DOMAIN n = 1 .. Len(n)
  OBVIOUS
<1>1. IsStrictPrefix(m, n) <=> Len(m) < Len(n) /\ \A j \in 1 .. Len(m) : m[j] = n[j]
  <2>1. IsPrefix(m, n) <=> Len(m) <= Len(n) /\ \A j \in 1 .. Len(m) : m[j] = n[j]
    <3>1. ASSUME Len(m) <= Len(n)
          PROVE  SubSeq(m, 1, Len(m)) = SubSeq(n, 1, Len(m)) <=> \A j \in 1 .. Len(m) : m[j] = n[j]
      BY <1>0, <3>1
    <3> QED
      BY <3>1 DEF IsPrefix
  <2>2. Len(m) = Len(n) /\ (\A j \in 1 .. Len(m) : m[j] = n[j]) => m = n
    BY <1>0
  <2>3. IsStrictPrefix(m, n) <=> Len(m) <= Len(n) /\ (\A j \in 1 .. Len(m) : m[j] = n[j]) /\ m # n
    BY <2>1 DEF IsStrictPrefix
  <2>4. Len(m) < Len(n) => m # n
    BY <1>0
  <2>5. Len(m) < Len(n) <=> Len(m) <= Len(n) /\ Len(m) # Len(n)
    OBVIOUS
  <2> QED
    BY <2>2, <2>3, <2>4, <2>5
<1>2. ASSUME IsStrictPrefix(m, n) PROVE \E k \in 1 .. Len(n) : LessAt(m, n, k)
  <2>1. Len(m) + 1 \in 1 .. Len(n) /\ Len(m) + 1 - 1 = Len(m)
    BY <1>0, <1>1, <1>2
  <2>2. LessAt(m, n, Len(m) + 1)
    BY <1>0, <1>1, <1>2, <2>1 DEF LessAt
  <2> QED
    BY <2>1, <2>2
<1>3. ASSUME NEW k \in DOMAIN m \cap DOMAIN n, m[k] < n[k], \A j \in 1 .. k - 1 : m[j] = n[j]
      PROVE  LessAt(m, n, k) /\ k \in 1 .. Len(n)
  BY <1>0, <1>3 DEF LessAt
<1>4. ASSUME NEW k \in 1 .. Len(n), LessAt(m, n, k) PROVE LessName(m, n)
  <2>1. CASE k = Len(m) + 1
    BY <1>0, <1>1, <1>4, <2>1 DEF LessAt, LessName
  <2>2. CASE k <= Len(m) /\ m[k] < n[k]
    BY SMTT(40), <1>0, <1>4, <2>2 DEF LessAt, LessName
  <2> QED
    BY <1>4, <2>1, <2>2 DEF LessAt
<1> QED
  BY <1>2, <1>3, <1>4 DEF LessName

(* It is a strict order of the names, and of two one is less.               *)
LEMMA LessNameOrders ==
  ASSUME NEW m \in Seq(Nat), NEW n \in Seq(Nat), NEW o \in Seq(Nat)
  PROVE  /\ ~LessName(m, m)
         /\ m # n => LessName(m, n) \/ LessName(n, m)
         /\ LessName(m, n) /\ LessName(n, o) => LessName(m, o)
         /\ LessName(m, n) => ~LessName(n, m)
<1>0. /\ Len(m) \in Nat /\ Len(n) \in Nat /\ DOMAIN m = 1 .. Len(m) /\ DOMAIN n = 1 .. Len(n)
      /\ \A k \in 1 .. Len(m) : m[k] \in Nat
      /\ \A k \in 1 .. Len(n) : n[k] \in Nat
      /\ \A k \in 1 .. Len(o) : o[k] \in Nat
      /\ Len(o) \in Nat
  OBVIOUS
<1>1. \A s \in Seq(Nat) : ~LessName(s, s)
  <2> SUFFICES ASSUME NEW s \in Seq(Nat), NEW k \in 1 .. Len(s), LessAt(s, s, k) PROVE FALSE
    BY LessNameAt
  <2>1. s[k] \in Nat
    OBVIOUS
  <2> QED
    BY <2>1 DEF LessAt
<1>2. ASSUME m # n PROVE LessName(m, n) \/ LessName(n, m)
  <2> DEFINE D == {k \in Nat \ {0} : k > Len(m) \/ k > Len(n) \/ m[k] # n[k]}
  <2>1. Len(m) + Len(n) + 1 \in D /\ D \in SUBSET Nat
    BY <1>0
  <2>2. PICK k \in D : \A j \in D : k <= j
    <3> HIDE DEF D
    <3> QED
      BY <2>1, LeastNat
  <2>3. /\ k \in Nat \ {0} /\ (k > Len(m) \/ k > Len(n) \/ m[k] # n[k])
        /\ \A j \in 1 .. k - 1 : j <= Len(m) /\ j <= Len(n) /\ m[j] = n[j]
    BY <1>0, <2>2
  <2> HIDE DEF D
  <2>4. k - 1 <= Len(m) /\ k - 1 <= Len(n)
    BY <1>0, <2>3
  <2>5. ~(k > Len(m) /\ k > Len(n))
    <3> SUFFICES ASSUME k > Len(m), k > Len(n) PROVE FALSE
      OBVIOUS
    <3>1. Len(m) = k - 1 /\ Len(n) = k - 1
      <4>1. Len(m) \in Nat /\ Len(n) \in Nat /\ k \in Nat
        BY <2>3
      <4> QED
        BY ONLY <2>4, <4>1, k > Len(m), k > Len(n)
    <3>2. \A j \in 1 .. Len(m) : m[j] = n[j]
      BY <2>3, <3>1
    <3> QED
      BY <1>2, <3>1, <3>2, SameSequence
  <2>6. (LessAt(m, n, k) /\ k \in 1 .. Len(n)) \/ (LessAt(n, m, k) /\ k \in 1 .. Len(m))
    <3>1. k \in Nat \ {0} /\ Len(m) \in Nat /\ Len(n) \in Nat
      BY <1>0, <2>3
    <3>a. \A a, b, c \in Nat : ~(c > a /\ c > b) /\ c - 1 <= a /\ c - 1 <= b /\ c # 0 =>
            (c > a => c = a + 1 /\ c \in 1 .. b) /\ (c > b => c = b + 1 /\ c \in 1 .. a)
      OBVIOUS
    <3>b. /\ k > Len(m) => k = Len(m) + 1 /\ k \in 1 .. Len(n)
          /\ k > Len(n) => k = Len(n) + 1 /\ k \in 1 .. Len(m)
      BY <2>4, <2>5, <3>1, <3>a
    <3>2. CASE k > Len(m)
      <4>1. k = Len(m) + 1 /\ k \in 1 .. Len(n)
        BY <3>b, <3>2
      <4>2. LessAt(m, n, k)
        BY <2>3, <2>4, <4>1 DEF LessAt
      <4> QED
        BY <4>1, <4>2
    <3>3. CASE k > Len(n)
      <4>1. k = Len(n) + 1 /\ k \in 1 .. Len(m)
        BY <3>b, <3>3
      <4>2. \A j \in 1 .. k - 1 : n[j] = m[j]
        BY <2>3
      <4>3. LessAt(n, m, k)
        BY ONLY <2>4, <4>1, <4>2 DEF LessAt
      <4> QED
        BY <4>1, <4>3
    <3>4. CASE k <= Len(m) /\ k <= Len(n)
      <4>1. m[k] \in Nat /\ n[k] \in Nat /\ m[k] # n[k] /\ k \in 1 .. Len(m) /\ k \in 1 .. Len(n)
        BY <1>0, <2>3, <3>1, <3>4
      <4>2. m[k] < n[k] \/ n[k] < m[k]
        BY <4>1
      <4> QED
        BY <2>3, <2>4, <3>4, <4>1, <4>2 DEF LessAt
    <3> QED
      BY <3>1, <3>2, <3>3, <3>4
  <2> QED
    BY <2>6, LessNameAt
<1>3. ASSUME LessName(m, n), LessName(n, o) PROVE LessName(m, o)
  <2>1. PICK k \in 1 .. Len(n) : LessAt(m, n, k)
    BY <1>3, LessNameAt
  <2>2. PICK l \in 1 .. Len(o) : LessAt(n, o, l)
    BY <1>3, LessNameAt
  <2>3. CASE k <= l
    <3>1. k <= Len(m) => m[k] \in Nat /\ n[k] \in Nat /\ o[k] \in Nat
      BY <1>0, <2>2, <2>3
    <3>2. \A j \in 1 .. k - 1 : m[j] = n[j] /\ n[j] = o[j]
      BY SMTT(40), <2>1, <2>2, <2>3 DEF LessAt
    <3>3. k <= Len(m) => m[k] < n[k]
      BY <1>0, <2>1 DEF LessAt
    <3>4. k <= Len(m) => n[k] = o[k] \/ n[k] < o[k]
      <4>1. k < l => n[k] = o[k]
        BY <2>2 DEF LessAt
      <4>2. k = l => n[k] < o[k]
        BY <2>2 DEF LessAt
      <4> QED
        BY <2>3, <4>1, <4>2
    <3>5. k - 1 <= Len(m) /\ (k = Len(m) + 1 \/ k <= Len(m))
      BY <2>1 DEF LessAt
    <3>6. k \in 1 .. Len(o)
      BY <1>0, <2>1, <2>2, <2>3
    <3>7. k <= Len(m) => m[k] < o[k]
      BY SMTT(40), <3>1, <3>3, <3>4
    <3>8. LessAt(m, o, k)
      BY <3>2, <3>5, <3>7 DEF LessAt
    <3> QED
      BY <3>6, <3>8, LessNameAt
  <2>4. CASE l < k
    <3>1. LessAt(m, o, l)
      BY SMTT(40), <1>0, <2>1, <2>2, <2>4 DEF LessAt
    <3> QED
      BY <3>1, LessNameAt
  <2> QED
    BY <2>3, <2>4
<1>4. LessName(m, n) => ~LessName(n, m)
  <2> SUFFICES ASSUME LessName(m, n), LessName(n, m) PROVE FALSE
    OBVIOUS
  <2>1. PICK k \in 1 .. Len(n) : LessAt(m, n, k)
    BY LessNameAt
  <2>2. PICK l \in 1 .. Len(m) : LessAt(n, m, l)
    BY LessNameAt
  <2> QED
    BY SMTT(40), <1>0, <2>1, <2>2 DEF LessAt
<1> QED
  BY <1>1, <1>2, <1>3, <1>4

-----------------------------------------------------------------------------
(* What collect lists.                                                      *)

IsWorld == disk \in [Paths -> Node] /\ inputs \in Seq(Seq(Nat))

Kinds == {"none", "file", "dir", "link", "special"}
SourceRecord == [input : Nat, path : Paths, name : Seq(Nat), kind : Kinds, size : Nat]

(* It is finite, of the form that was said, and there is one source for     *)
(* each name that an input gives.                                           *)
LEMMA FoundFacts ==
  ASSUME IsWorld
  PROVE  /\ IsFiniteSet(Found) /\ Found \subseteq SourceRecord
         /\ \A s \in Found : s.kind = "file" => s.size = disk[s.path].len
         /\ \A s, t \in Found : s.input = t.input /\ s.name = t.name => s = t
<1>0. /\ disk \in [Paths -> Node] /\ inputs \in Seq(Seq(Nat)) /\ IsFiniteSet(Paths) /\ Paths \subseteq Seq(Nat)
      /\ DOMAIN inputs = 1 .. Len(inputs) /\ Len(inputs) \in Nat
  BY PathsAssumption DEF IsWorld
<1>1. \A k \in Kept : /\ k = <<k[1], k[2]>> /\ k[1] \in DOMAIN inputs /\ k[2] \in Paths
                      /\ IsPrefix(inputs[k[1]], k[2]) /\ inputs[k[1]] # <<>>
  BY DEF Kept, All, Reached
<1>2. IsFiniteSet(Found)
  <2>1. Kept \subseteq (1 .. Len(inputs)) \X Paths
    <3> SUFFICES ASSUME NEW k \in Kept PROVE k \in (1 .. Len(inputs)) \X Paths
      OBVIOUS
    <3>1. k = <<k[1], k[2]>> /\ k[1] \in 1 .. Len(inputs) /\ k[2] \in Paths
      BY <1>0, <1>1
    <3> QED
      BY ONLY <3>1
  <2>2. IsFiniteSet((1 .. Len(inputs)) \X Paths)
    <3>1. IsFiniteSet(1 .. Len(inputs)) /\ IsFiniteSet(Paths)
      BY <1>0, FS_Interval
    <3> QED
      BY ONLY <3>1, FS_Product, Zenon
  <2>3. IsFiniteSet(Kept)
    BY <2>1, <2>2, FS_Subset
  <2> DEFINE f == [s \in Kept |-> Source(s[1], s[2])]
  <2>4. f = [s \in Kept |-> f[s]] /\ \A s \in Kept : f[s] = Source(s[1], s[2])
    OBVIOUS
  <2> HIDE DEF f
  <2>5. f \in Surjection(Kept, Found)
    <3>1. f \in [Kept -> Found]
      BY <2>4 DEF Found
    <3>2. \A t \in Found : \E s \in Kept : f[s] = t
      BY <2>4 DEF Found
    <3> QED
      BY <3>1, <3>2 DEF Surjection
  <2> QED
    BY <2>3, <2>5, FS_Surjection
<1>3. ASSUME NEW i \in DOMAIN inputs, NEW p \in Paths, IsPrefix(inputs[i], p), inputs[i] # <<>>
      PROVE  Source(i, p) \in SourceRecord
  <2>1. SubSeq(p, Len(inputs[i]), Len(p)) \in Seq(Nat)
    <3>1. inputs[i] \in Seq(Nat) /\ p \in Seq(Nat) /\ Len(inputs[i]) \in Nat \ {0}
      BY <1>0, <1>3
    <3> QED
      BY <3>1
  <2>2. disk[p] \in Node
    BY <1>0
  <2> QED
    BY <1>0, <2>1, <2>2 DEF Source, SourceRecord, KindOf, Kinds, Node
<1>4. ASSUME NEW i \in DOMAIN inputs, NEW p \in Paths, NEW q \in Paths, IsPrefix(inputs[i], p), IsPrefix(inputs[i], q),
             inputs[i] # <<>>, SubSeq(p, Len(inputs[i]), Len(p)) = SubSeq(q, Len(inputs[i]), Len(q))
      PROVE  p = q
  <2>1. PICK b : b = inputs[i]
    OBVIOUS
  <2>2. b \in Seq(Nat) /\ p \in Seq(Nat) /\ q \in Seq(Nat) /\ b # <<>>
    BY <1>0, <1>4, <2>1
  <2>3. PICK c : c = Len(b)
    OBVIOUS
  <2>4. c \in Nat \ {0} /\ Len(p) \in Nat /\ Len(q) \in Nat
    BY <2>2, <2>3
  <2>5. c <= Len(p) /\ c <= Len(q) /\ \A k \in 1 .. c : p[k] = b[k] /\ q[k] = b[k]
    <3>1. Len(b) <= Len(p) /\ SubSeq(b, 1, Len(b)) = SubSeq(p, 1, Len(b))
          /\ Len(b) <= Len(q) /\ SubSeq(b, 1, Len(b)) = SubSeq(q, 1, Len(b))
      BY <1>4, <2>1 DEF IsPrefix
    <3>2. \A r \in Seq(Nat) : c <= Len(r) => \A k \in 1 .. c : SubSeq(r, 1, c)[k] = r[k]
      BY <2>4
    <3> QED
      BY <2>2, <2>3, <2>4, <3>1, <3>2
  <2>6. \A r \in Seq(Nat) : c <= Len(r) => /\ Len(SubSeq(r, c, Len(r))) = Len(r) - c + 1
                                           /\ \A k \in c .. Len(r) : SubSeq(r, c, Len(r))[k - c + 1] = r[k]
    BY <2>4
  <2>7. SubSeq(p, c, Len(p)) = SubSeq(q, c, Len(q))
    BY <1>4, <2>1, <2>3
  <2>8. Len(p) = Len(q)
    <3>1. Len(p) - c + 1 = Len(q) - c + 1
      BY <2>2, <2>5, <2>6, <2>7
    <3> QED
      BY <2>4, <3>1
  <2>9. \A k \in 1 .. Len(p) : p[k] = q[k]
    <3> SUFFICES ASSUME NEW k \in 1 .. Len(p) PROVE p[k] = q[k]
      OBVIOUS
    <3>1. CASE k <= c
      BY <2>4, <2>5, <3>1
    <3>2. CASE k > c
      <4>1. k \in c .. Len(p) /\ k \in c .. Len(q)
        BY <2>4, <2>8, <3>2
      <4> QED
        BY ZenonT(40), <2>2, <2>5, <2>6, <2>7, <4>1
    <3> QED
      BY <2>4, <3>1, <3>2
  <2> QED
    BY <2>2, <2>8, <2>9, SameSequence
<1>5. \A s \in Found : \E k \in Kept : s = Source(k[1], k[2])
  BY DEF Found
<1>6. ASSUME NEW s \in Found, NEW t \in Found, s.input = t.input, s.name = t.name PROVE s = t
  <2>1. PICK k \in Kept, l \in Kept : s = Source(k[1], k[2]) /\ t = Source(l[1], l[2])
    BY <1>5
  <2>2. k[1] = l[1] /\ SubSeq(k[2], Len(inputs[k[1]]), Len(k[2])) = SubSeq(l[2], Len(inputs[k[1]]), Len(l[2]))
    BY <1>6, <2>1 DEF Source
  <2>3. k[2] = l[2]
    BY <1>1, <1>4, <2>2
  <2> QED
    BY <2>1, <2>2, <2>3
<1>7. \A s \in Found : s.kind = "file" => s.size = disk[s.path].len
  <2> SUFFICES ASSUME NEW s \in Found, s.kind = "file" PROVE s.size = disk[s.path].len
    OBVIOUS
  <2>1. PICK k \in Kept : s = Source(k[1], k[2])
    BY <1>5
  <2>2. s.path = k[2] /\ s.kind = KindOf(k[2]) /\ s.size = IF KindOf(k[2]) = "file" THEN disk[k[2]].len ELSE 0
    BY <2>1 DEF Source
  <2> QED
    BY <2>2
<1>8. Found \subseteq SourceRecord
  BY <1>1, <1>3, <1>5
<1> QED
  BY <1>2, <1>6, <1>7, <1>8

(* The order of the list.                                                   *)
BeforeIn(S) == [s \in S |-> {t \in S : Earlier(t, s)}]

(* The list holds every source once, in that order.                         *)
LEMMA CollectedFacts ==
  ASSUME IsWorld
  PROVE  Sorted(Collected, Found, BeforeIn(Found))
<1> DEFINE R == BeforeIn(Found)
<1>0. IsFiniteSet(Found) /\ Found \subseteq SourceRecord /\ \A s, t \in Found : s.input = t.input /\ s.name = t.name => s = t
  BY FoundFacts
<1>1. \A s \in Found : s.input \in Nat /\ s.name \in Seq(Nat)
  BY <1>0 DEF SourceRecord
<1>2. \A s \in Found : ~Earlier(s, s)
  BY <1>1, LessNameOrders DEF Earlier
<1>3. \A s, t \in Found : s # t => Earlier(s, t) \/ Earlier(t, s)
  <2> TAKE s, t \in Found
  <2>1. s.name # t.name => LessName(s.name, t.name) \/ LessName(t.name, s.name)
    BY <1>1, LessNameOrders
  <2>2. s.name = t.name /\ s # t => s.input # t.input
    BY <1>0
  <2>3. s.input # t.input => s.input < t.input \/ t.input < s.input
    BY <1>1
  <2> QED
    BY <2>1, <2>2, <2>3 DEF Earlier
<1>4. \A s, t, u \in Found : Earlier(s, t) /\ Earlier(t, u) => Earlier(s, u)
  <2> TAKE s, t, u \in Found
  <2>1. s.name \in Seq(Nat) /\ t.name \in Seq(Nat) /\ u.name \in Seq(Nat) /\ s.input \in Nat /\ t.input \in Nat /\ u.input \in Nat
    BY <1>1
  <2>2. LessName(s.name, t.name) /\ LessName(t.name, u.name) => LessName(s.name, u.name)
    BY <2>1, LessNameOrders
  <2>3. s.input < t.input /\ t.input < u.input => s.input < u.input
    BY <2>1
  <2> QED
    BY <2>2, <2>3 DEF Earlier
<1>5. Orders(R, Found)
  BY <1>2, <1>3, <1>4 DEF Orders, BeforeIn
<1>6. \A s \in Found : Rank(R, s) = Cardinality({t \in Found : Earlier(t, s)})
  BY DEF Rank, BeforeIn
<1>7. Collected = [n \in 1 .. Cardinality(Found) |-> CHOOSE x \in Found : Cardinality({y \in Found : Earlier(y, x)}) = n - 1]
  BY DEF Collected, InOrder
<1> HIDE DEF R
<1>8. \A n \in 1 .. Cardinality(Found) : Collected[n] \in Found /\ Cardinality({y \in Found : Earlier(y, Collected[n])}) = n - 1
  <2> TAKE n \in 1 .. Cardinality(Found)
  <2>1. PICK s \in Found : Rank(R, s) = n - 1
    BY <1>0, <1>5, RankExists
  <2>2. \E x \in Found : Cardinality({y \in Found : Earlier(y, x)}) = n - 1
    BY <1>6, <2>1
  <2> QED
    BY <1>7, <2>2
<1>9. \A n \in 1 .. Cardinality(Found) : Rank(R, Collected[n]) = n - 1
  BY <1>6, <1>8
<1>10. Collected \in [1 .. Cardinality(Found) -> Found]
  BY <1>7, <1>8
<1> QED
  BY <1>0, <1>5, <1>9, <1>10, RankedIsSorted DEF R

-----------------------------------------------------------------------------
(* The list and the entries, whatever the format, E being what its entries  *)
(* can be.                                                                  *)
Answers(e, s) == e.name = s.name /\ (e.kind = s.kind \/ (e.kind = "hard" /\ s.kind = "file"))

InNameOrder == \A j, k \in DOMAIN sources : j < k => ~LessName(sources[k].name, sources[j].name)
SizesHold ==
  \A k \in DOMAIN sources : sources[k].kind = "file" /\ sources[k].path \notin changed =>
    sources[k].size = disk[sources[k].path].len

ListInv(E) ==
  /\ IsWorld
  /\ phase = "begin" => sources = <<>> /\ at = 1 /\ entries = <<>> /\ body = <<>> /\ changed = {}
  /\ sources \in Seq(SourceRecord) /\ at \in 1 .. Len(sources) + 1
  /\ entries \in Seq(E) /\ Len(entries) = at - 1
  /\ \A k \in 1 .. Len(entries) : Answers(entries[k], sources[k])
  /\ InNameOrder
  /\ SizesHold

Enters(e) == phase # "begin" /\ at <= Len(sources) /\ Answers(e, Now) /\ \E c, n : Finish(e, c, n)
Idles == UNCHANGED <<world, disk, changed, sources, at, entries>> /\ (phase' # "begin" \/ UNCHANGED <<phase, body>>)

(* What any step of any format does to them.                                *)
ListStep(E) ==
  \/ phase' # "begin" /\ \E l : List(l)
  \/ phase' # "begin" /\ \E e \in E : Enters(e)
  \/ Change
  \/ Idles

(* The list is in the order of the names, and has the lengths of the disk.  *)
LEMMA CollectedIsList ==
  ASSUME IsWorld
  PROVE  /\ Collected \in Seq(SourceRecord)
         /\ \A j, k \in DOMAIN Collected : j < k => ~LessName(Collected[k].name, Collected[j].name)
         /\ \A k \in DOMAIN Collected : Collected[k].kind = "file" => Collected[k].size = disk[Collected[k].path].len
<1>1. /\ Collected \in Seq(Found) /\ \A n \in DOMAIN Collected : Collected[n] \in Found
      /\ \A m, n \in DOMAIN Collected : m < n => Collected[m] \in BeforeIn(Found)[Collected[n]]
  BY CollectedFacts DEF Sorted
<1>2. Found \subseteq SourceRecord /\ \A s \in Found : s.kind = "file" => s.size = disk[s.path].len
  BY FoundFacts
<1>3. ASSUME NEW j \in DOMAIN Collected, NEW k \in DOMAIN Collected, j < k
      PROVE  ~LessName(Collected[k].name, Collected[j].name)
  <2>1. Earlier(Collected[j], Collected[k])
    BY <1>1, <1>3 DEF BeforeIn
  <2>2. Collected[j].name \in Seq(Nat) /\ Collected[k].name \in Seq(Nat)
    BY <1>1, <1>2 DEF SourceRecord
  <2> QED
    BY <2>1, <2>2, LessNameOrders DEF Earlier
<1> QED
  BY <1>1, <1>2, <1>3

(* Every step keeps them as they are to be.                                 *)
LEMMA ListInvKept ==
  ASSUME NEW E, ListInv(E), ListStep(E)
  PROVE  ListInv(E)'
<1>0. /\ IsWorld /\ sources \in Seq(SourceRecord) /\ at \in 1 .. Len(sources) + 1
      /\ entries \in Seq(E) /\ Len(entries) = at - 1 /\ InNameOrder /\ SizesHold
      /\ \A k \in 1 .. Len(entries) : Answers(entries[k], sources[k])
  BY DEF ListInv
<1>1. CASE phase' # "begin" /\ \E l : List(l)
  <2>1. UNCHANGED <<inputs, options, disk, changed, at, body, entries>> /\ sources' = Collected /\ phase = "begin"
    BY <1>1 DEF List, world
  <2>2. at = 1 /\ entries = <<>> /\ changed = {}
    BY <2>1 DEF ListInv
  <2>3. /\ sources' \in Seq(SourceRecord)
        /\ \A j, k \in DOMAIN sources' : j < k => ~LessName(sources'[k].name, sources'[j].name)
        /\ \A k \in DOMAIN sources' : sources'[k].kind = "file" => sources'[k].size = disk[sources'[k].path].len
    BY <1>0, <2>1, CollectedIsList
  <2>4. InNameOrder' /\ SizesHold'
    BY <2>1, <2>3 DEF InNameOrder, SizesHold
  <2>5. at' \in 1 .. Len(sources') + 1 /\ entries' \in Seq(E) /\ Len(entries') = at' - 1
    BY <2>1, <2>2, <2>3
  <2>6. \A k \in 1 .. Len(entries') : Answers(entries'[k], sources'[k])
    BY <2>1, <2>2
  <2> QED
    BY <1>0, <1>1, <2>1, <2>3, <2>4, <2>5, <2>6 DEF ListInv, IsWorld
<1>2. CASE phase' # "begin" /\ \E e \in E : Enters(e)
  <2>1. PICK e \in E : /\ at <= Len(sources) /\ Answers(e, sources[at])
                       /\ entries' = Append(entries, e) /\ at' = at + 1
                       /\ UNCHANGED <<inputs, options, disk, changed, sources>>
    BY <1>2 DEF Enters, Finish, world, Now
  <2>2. entries' \in Seq(E) /\ Len(entries') = at' - 1 /\ at' \in 1 .. Len(sources') + 1
    BY <1>0, <2>1
  <2>3. \A k \in 1 .. Len(entries') : Answers(entries'[k], sources'[k])
    <3> SUFFICES ASSUME NEW k \in 1 .. Len(entries') PROVE Answers(entries'[k], sources'[k])
      OBVIOUS
    <3>1. sources' = sources
      BY <2>1
    <3>2. CASE k = at
      <4>1. entries'[k] = e
        BY <1>0, <2>1, <3>2
      <4> QED
        BY <2>1, <3>1, <3>2, <4>1
    <3>3. CASE k # at
      <4>1. k \in 1 .. Len(entries) /\ entries'[k] = entries[k]
        BY <1>0, <2>1, <3>3
      <4> QED
        BY <1>0, <3>1, <4>1
    <3> QED
      BY <3>2, <3>3
  <2> QED
    BY <1>0, <1>2, <2>1, <2>2, <2>3 DEF ListInv, IsWorld, InNameOrder, SizesHold
<1>3. CASE Change
  <2>1. PICK p \in {s.path : s \in ToSet(sources)} \ changed :
          /\ \E f \in [kind : {disk[p].kind}, len : Lengths] \cup [kind : {"none"}, len : {disk[p].len}] :
               disk' = [disk EXCEPT ![p].kind = f.kind, ![p].len = f.len]
          /\ changed' = changed \cup {p}
    BY <1>3 DEF Change
  <2>2. /\ UNCHANGED <<inputs, options, phase, sources, at, entries, body>> /\ phase # "begin"
    BY <1>3 DEF Change, world
  <2>a. \A k \in DOMAIN sources : sources[k].path \in Paths
    <3>1. \A k \in DOMAIN sources : sources[k] \in SourceRecord
      BY <1>0
    <3> QED
      BY ONLY <3>1 DEF SourceRecord
  <2>3. p \in Paths
    <3>1. PICK s \in ToSet(sources) : p = s.path
      BY <2>1
    <3>2. PICK k \in DOMAIN sources : s = sources[k]
      BY <3>1 DEF ToSet
    <3> QED
      BY <2>a, <3>1, <3>2
  <2>4. disk \in [Paths -> Node]
    BY <1>0 DEF IsWorld
  <2>5. PICK f : /\ f.kind \in {disk[p].kind, "none"} /\ f.len \in Nat
                 /\ disk' = [disk EXCEPT ![p].kind = f.kind, ![p].len = f.len]
    BY <2>1, <2>3, <2>4, LengthsAssumption DEF Node
  <2>6. disk' \in [Paths -> Node] /\ \A q \in Paths : q # p => disk'[q] = disk[q]
    BY ZenonT(40), <2>3, <2>4, <2>5 DEF Node
  <2>7. SizesHold'
    <3> SUFFICES ASSUME NEW k \in DOMAIN sources, sources[k].kind = "file", sources[k].path \notin changed'
                 PROVE  sources[k].size = disk'[sources[k].path].len
      BY <2>2 DEF SizesHold
    <3>1. sources[k].path \in Paths
      BY <2>a
    <3>2. sources[k].size = disk[sources[k].path].len
      BY <1>0, <2>1 DEF SizesHold
    <3> QED
      BY <2>1, <2>6, <3>1, <3>2
  <2> QED
    BY <1>0, <2>2, <2>6, <2>7 DEF ListInv, IsWorld, InNameOrder
<1>4. CASE Idles
  BY <1>4 DEF Idles, ListInv, IsWorld, InNameOrder, SizesHold, world
<1> QED
  BY <1>1, <1>2, <1>3, <1>4 DEF ListStep

-----------------------------------------------------------------------------
(* What TarCreate takes over from Sources is what Sources says.             *)
LEMMA OfTarSources ==
  /\ OfTar!Now = Now /\ OfTar!Collected = Collected /\ OfTar!svars = svars /\ OfTar!world = world /\ OfTar!report = report
  /\ \A p, a, b : OfTar!Units(p, a, b) = Units(p, a, b)
  /\ \A p, a : OfTar!Unit(p, a) = Unit(p, a)
  /\ \A p : OfTar!Openable(p) <=> Openable(p)
  /\ \A k, d : OfTar!Entry(k, d) = Entry(k, d)
  /\ \A l : OfTar!List(l) <=> List(l)
  /\ \A k : OfTar!Turn(k) <=> Turn(k)
  /\ \A e, c, n : OfTar!Finish(e, c, n) <=> Finish(e, c, n)
  /\ (OfTar!Fail <=> Fail) /\ (OfTar!CannotCollect <=> CannotCollect) /\ (OfTar!WriteFails <=> WriteFails)
  /\ (OfTar!Change <=> Change) /\ (OfTar!WriteDirectory <=> WriteDirectory) /\ (OfTar!WriteSymlink <=> WriteSymlink)
  /\ (OfTar!SymlinkGone <=> SymlinkGone) /\ (OfTar!Close <=> Close)
<1> USE DEF OfTar!world, world, OfTar!report, report, OfTar!Now, Now, OfTar!Unit, Unit, OfTar!Units, Units, OfTar!Openable, Openable, OfTar!Entry, Entry
<1>1. \A p : OfTar!Followed(p) <=> Followed(p)
  BY DEF OfTar!Followed, Followed
<1>2. \A p : OfTar!KindOf(p) = KindOf(p)
  BY <1>1 DEF OfTar!KindOf, KindOf
<1>3. OfTar!Kept = Kept /\ OfTar!Specials = Specials /\ (OfTar!Uncollectable <=> Uncollectable)
  BY DEF OfTar!Followed, Followed, OfTar!Reached, Reached, OfTar!IsPrefix, IsPrefix, OfTar!All, All, OfTar!Specials, Specials,
         OfTar!Dropped, Dropped, OfTar!Kept, Kept, OfTar!Uncollectable, Uncollectable
<1>4. \A i, p : OfTar!Source(i, p) = Source(i, p)
  BY <1>2 DEF OfTar!Source, Source
<1>5. OfTar!Found = Found
  BY <1>3, <1>4 DEF OfTar!Found, Found
<1>7. OfTar!Collected = Collected
  BY <1>5 DEF OfTar!Collected, Collected, OfTar!InOrder, InOrder, OfTar!Cardinality, Cardinality, OfTar!Earlier, Earlier, OfTar!LessName, LessName,
         OfTar!IsStrictPrefix, IsStrictPrefix, OfTar!IsPrefix, IsPrefix
<1>8. \A l : OfTar!List(l) <=> List(l)
  BY <1>3, <1>7 DEF OfTar!List, List, OfTar!Total, Total, OfTar!MapThenSumSet, MapThenSumSet, OfTar!MapThenFoldSet, MapThenFoldSet,
         OfTar!Cardinality, Cardinality
<1>9. /\ \A k : OfTar!Turn(k) <=> Turn(k)
      /\ \A e, c, n : OfTar!Finish(e, c, n) <=> Finish(e, c, n)
      /\ OfTar!Fail <=> Fail
  BY DEF OfTar!Turn, Turn, OfTar!Finish, Finish, OfTar!Fail, Fail
<1>10. (OfTar!CannotCollect <=> CannotCollect) /\ (OfTar!WriteFails <=> WriteFails) /\ (OfTar!SymlinkGone <=> SymlinkGone)
  BY <1>3, <1>9 DEF OfTar!CannotCollect, CannotCollect, OfTar!WriteFails, WriteFails, OfTar!SymlinkGone, SymlinkGone
<1>11. (OfTar!WriteDirectory <=> WriteDirectory) /\ (OfTar!WriteSymlink <=> WriteSymlink)
  BY <1>9 DEF OfTar!WriteDirectory, WriteDirectory, OfTar!WriteSymlink, WriteSymlink
<1>12. (OfTar!Change <=> Change) /\ (OfTar!Close <=> Close)
  BY DEF OfTar!Change, Change, OfTar!ToSet, ToSet, OfTar!Cardinality, Cardinality, OfTar!Close, Close
<1>13. OfTar!svars = svars
  BY DEF OfTar!svars, svars
<1> QED
  BY <1>7, <1>8, <1>9, <1>10, <1>11, <1>12, <1>13

(* What SevenZCreate takes over from Sources is what Sources says.          *)
LEMMA OfSevenZSources ==
  /\ OfSevenZ!Now = Now /\ OfSevenZ!Collected = Collected /\ OfSevenZ!svars = svars /\ OfSevenZ!world = world /\ OfSevenZ!report = report
  /\ \A p, a, b : OfSevenZ!Units(p, a, b) = Units(p, a, b)
  /\ \A p, a : OfSevenZ!Unit(p, a) = Unit(p, a)
  /\ \A p : OfSevenZ!Openable(p) <=> Openable(p)
  /\ \A k, d : OfSevenZ!Entry(k, d) = Entry(k, d)
  /\ \A l : OfSevenZ!List(l) <=> List(l)
  /\ \A k : OfSevenZ!Turn(k) <=> Turn(k)
  /\ \A e, c, n : OfSevenZ!Finish(e, c, n) <=> Finish(e, c, n)
  /\ (OfSevenZ!Fail <=> Fail) /\ (OfSevenZ!CannotCollect <=> CannotCollect) /\ (OfSevenZ!WriteFails <=> WriteFails)
  /\ (OfSevenZ!Change <=> Change) /\ (OfSevenZ!WriteDirectory <=> WriteDirectory) /\ (OfSevenZ!WriteSymlink <=> WriteSymlink)
  /\ (OfSevenZ!SymlinkGone <=> SymlinkGone) /\ (OfSevenZ!Close <=> Close)
<1> USE DEF OfSevenZ!world, world, OfSevenZ!report, report, OfSevenZ!Now, Now, OfSevenZ!Unit, Unit, OfSevenZ!Units, Units, OfSevenZ!Openable, Openable, OfSevenZ!Entry, Entry
<1>1. \A p : OfSevenZ!Followed(p) <=> Followed(p)
  BY DEF OfSevenZ!Followed, Followed
<1>2. \A p : OfSevenZ!KindOf(p) = KindOf(p)
  BY <1>1 DEF OfSevenZ!KindOf, KindOf
<1>3. OfSevenZ!Kept = Kept /\ OfSevenZ!Specials = Specials /\ (OfSevenZ!Uncollectable <=> Uncollectable)
  BY DEF OfSevenZ!Followed, Followed, OfSevenZ!Reached, Reached, OfSevenZ!IsPrefix, IsPrefix, OfSevenZ!All, All, OfSevenZ!Specials, Specials,
         OfSevenZ!Dropped, Dropped, OfSevenZ!Kept, Kept, OfSevenZ!Uncollectable, Uncollectable
<1>4. \A i, p : OfSevenZ!Source(i, p) = Source(i, p)
  BY <1>2 DEF OfSevenZ!Source, Source
<1>5. OfSevenZ!Found = Found
  BY <1>3, <1>4 DEF OfSevenZ!Found, Found
<1>7. OfSevenZ!Collected = Collected
  BY <1>5 DEF OfSevenZ!Collected, Collected, OfSevenZ!InOrder, InOrder, OfSevenZ!Cardinality, Cardinality, OfSevenZ!Earlier, Earlier, OfSevenZ!LessName, LessName,
         OfSevenZ!IsStrictPrefix, IsStrictPrefix, OfSevenZ!IsPrefix, IsPrefix
<1>8. \A l : OfSevenZ!List(l) <=> List(l)
  BY <1>3, <1>7 DEF OfSevenZ!List, List, OfSevenZ!Total, Total, OfSevenZ!MapThenSumSet, MapThenSumSet, OfSevenZ!MapThenFoldSet, MapThenFoldSet,
         OfSevenZ!Cardinality, Cardinality
<1>9. /\ \A k : OfSevenZ!Turn(k) <=> Turn(k)
      /\ \A e, c, n : OfSevenZ!Finish(e, c, n) <=> Finish(e, c, n)
      /\ OfSevenZ!Fail <=> Fail
  BY DEF OfSevenZ!Turn, Turn, OfSevenZ!Finish, Finish, OfSevenZ!Fail, Fail
<1>10. (OfSevenZ!CannotCollect <=> CannotCollect) /\ (OfSevenZ!WriteFails <=> WriteFails) /\ (OfSevenZ!SymlinkGone <=> SymlinkGone)
  BY <1>3, <1>9 DEF OfSevenZ!CannotCollect, CannotCollect, OfSevenZ!WriteFails, WriteFails, OfSevenZ!SymlinkGone, SymlinkGone
<1>11. (OfSevenZ!WriteDirectory <=> WriteDirectory) /\ (OfSevenZ!WriteSymlink <=> WriteSymlink)
  BY <1>9 DEF OfSevenZ!WriteDirectory, WriteDirectory, OfSevenZ!WriteSymlink, WriteSymlink
<1>12. (OfSevenZ!Change <=> Change) /\ (OfSevenZ!Close <=> Close)
  BY DEF OfSevenZ!Change, Change, OfSevenZ!ToSet, ToSet, OfSevenZ!Cardinality, Cardinality, OfSevenZ!Close, Close
<1>13. OfSevenZ!svars = svars
  BY DEF OfSevenZ!svars, svars
<1> QED
  BY <1>7, <1>8, <1>9, <1>10, <1>11, <1>12, <1>13

(* What ZipCreate takes over from Sources is what Sources says.             *)
LEMMA OfZipSources ==
  /\ OfZip!Now = Now /\ OfZip!Collected = Collected /\ OfZip!svars = svars /\ OfZip!world = world /\ OfZip!report = report
  /\ \A p, a, b : OfZip!Units(p, a, b) = Units(p, a, b)
  /\ \A p, a : OfZip!Unit(p, a) = Unit(p, a)
  /\ \A p : OfZip!Openable(p) <=> Openable(p)
  /\ \A k, d : OfZip!Entry(k, d) = Entry(k, d)
  /\ \A l : OfZip!List(l) <=> List(l)
  /\ \A k : OfZip!Turn(k) <=> Turn(k)
  /\ \A e, c, n : OfZip!Finish(e, c, n) <=> Finish(e, c, n)
  /\ (OfZip!Fail <=> Fail) /\ (OfZip!CannotCollect <=> CannotCollect) /\ (OfZip!WriteFails <=> WriteFails)
  /\ (OfZip!Change <=> Change) /\ (OfZip!WriteDirectory <=> WriteDirectory) /\ (OfZip!WriteSymlink <=> WriteSymlink)
  /\ (OfZip!SymlinkGone <=> SymlinkGone) /\ (OfZip!Close <=> Close)
<1> USE DEF OfZip!world, world, OfZip!report, report, OfZip!Now, Now, OfZip!Unit, Unit, OfZip!Units, Units, OfZip!Openable, Openable, OfZip!Entry, Entry
<1>1. \A p : OfZip!Followed(p) <=> Followed(p)
  BY DEF OfZip!Followed, Followed
<1>2. \A p : OfZip!KindOf(p) = KindOf(p)
  BY <1>1 DEF OfZip!KindOf, KindOf
<1>3. OfZip!Kept = Kept /\ OfZip!Specials = Specials /\ (OfZip!Uncollectable <=> Uncollectable)
  BY DEF OfZip!Followed, Followed, OfZip!Reached, Reached, OfZip!IsPrefix, IsPrefix, OfZip!All, All, OfZip!Specials, Specials,
         OfZip!Dropped, Dropped, OfZip!Kept, Kept, OfZip!Uncollectable, Uncollectable
<1>4. \A i, p : OfZip!Source(i, p) = Source(i, p)
  BY <1>2 DEF OfZip!Source, Source
<1>5. OfZip!Found = Found
  BY <1>3, <1>4 DEF OfZip!Found, Found
<1>7. OfZip!Collected = Collected
  BY <1>5 DEF OfZip!Collected, Collected, OfZip!InOrder, InOrder, OfZip!Cardinality, Cardinality, OfZip!Earlier, Earlier, OfZip!LessName, LessName,
         OfZip!IsStrictPrefix, IsStrictPrefix, OfZip!IsPrefix, IsPrefix
<1>8. \A l : OfZip!List(l) <=> List(l)
  BY <1>3, <1>7 DEF OfZip!List, List, OfZip!Total, Total, OfZip!MapThenSumSet, MapThenSumSet, OfZip!MapThenFoldSet, MapThenFoldSet,
         OfZip!Cardinality, Cardinality
<1>9. /\ \A k : OfZip!Turn(k) <=> Turn(k)
      /\ \A e, c, n : OfZip!Finish(e, c, n) <=> Finish(e, c, n)
      /\ OfZip!Fail <=> Fail
  BY DEF OfZip!Turn, Turn, OfZip!Finish, Finish, OfZip!Fail, Fail
<1>10. (OfZip!CannotCollect <=> CannotCollect) /\ (OfZip!WriteFails <=> WriteFails) /\ (OfZip!SymlinkGone <=> SymlinkGone)
  BY <1>3, <1>9 DEF OfZip!CannotCollect, CannotCollect, OfZip!WriteFails, WriteFails, OfZip!SymlinkGone, SymlinkGone
<1>11. (OfZip!WriteDirectory <=> WriteDirectory) /\ (OfZip!WriteSymlink <=> WriteSymlink)
  BY <1>9 DEF OfZip!WriteDirectory, WriteDirectory, OfZip!WriteSymlink, WriteSymlink
<1>12. (OfZip!Change <=> Change) /\ (OfZip!Close <=> Close)
  BY DEF OfZip!Change, Change, OfZip!ToSet, ToSet, OfZip!Cardinality, Cardinality, OfZip!Close, Close
<1>13. OfZip!svars = svars
  BY DEF OfZip!svars, svars
<1> QED
  BY <1>7, <1>8, <1>9, <1>10, <1>11, <1>12, <1>13

-----------------------------------------------------------------------------
(* Sequences of any kind can be laid end to end in any order of the steps.  *)
LEMMA Concats ==
  ASSUME NEW B
  PROVE  /\ \A s, t \in Seq(B) : s \o t \in Seq(B) /\ Len(s \o t) = Len(s) + Len(t)
         /\ \A s \in Seq(B) : s \o <<>> = s /\ <<>> \o s = s
         /\ \A s, t, u \in Seq(B) : (s \o t) \o u = s \o (t \o u)
         /\ \A s \in Seq(B) : s # <<>> => Len(s) \in Nat \ {0}
         /\ <<>> \in Seq(B)
<1>1. \A s, t \in Seq(B) : s \o t \in Seq(B) /\ Len(s \o t) = Len(s) + Len(t)
  BY ConcatProperties
<1>2. \A s \in Seq(B) : s \o <<>> = s /\ <<>> \o s = s
  BY ConcatEmptySeq
<1>3. \A s, t, u \in Seq(B) : (s \o t) \o u = s \o (t \o u)
  BY ConcatAssociative
<1> QED
  BY <1>1, <1>2, <1>3, EmptySeq

Grouped(o, l, g, p) ==
  /\ ((o \o l) \o g) \o p = (o \o l) \o (g \o p)
  /\ ((o \o (l \o g)) \o <<>>) \o p = (o \o l) \o (g \o p)
  /\ (((o \o (l \o g)) \o <<>>) \o <<>>) \o p = (o \o l) \o (g \o p)

(* Four in a row, grouped one way or another.                               *)
LEMMA FourInARow ==
  ASSUME NEW B, NEW o \in Seq(B), NEW l \in Seq(B), NEW g \in Seq(B), NEW p \in Seq(B)
  PROVE  Grouped(o, l, g, p)
<1>1. /\ o \o l \in Seq(B) /\ l \o g \in Seq(B) /\ g \o p \in Seq(B) /\ o \o (l \o g) \in Seq(B)
      /\ (o \o l) \o g \in Seq(B)
  BY Concats
<1>a. /\ \A s \in Seq(B) : s \o <<>> = s
      /\ \A s, t, u \in Seq(B) : (s \o t) \o u = s \o (t \o u)
  BY Concats
<1>2. (o \o l) \o g = o \o (l \o g)
  BY SMTT(40), <1>a
<1>3. (o \o (l \o g)) \o <<>> = o \o (l \o g)
  BY <1>1, <1>a
<1>4. PICK x \in Seq(B) : x = o \o l
  BY <1>1
<1>5. (x \o g) \o p = x \o (g \o p)
  BY SMTT(40), <1>a
<1> QED
  BY <1>2, <1>3, <1>4, <1>5 DEF Grouped

-----------------------------------------------------------------------------
(* Tar: the sink.                                                           *)
Token == (Paths \X Nat) \cup ({"header"} \X Nat) \cup {<<"zero">>, <<"end">>}

Flow == out \o EndToEnd(queued) \o filling \o pending

SinkInv ==
  /\ out \in Seq(Token) /\ filling \in Seq(Token) /\ pending \in Seq(Token)
  /\ queued \in Seq(Seq(Token))
  /\ streaming \in BOOLEAN
  /\ options.wrapper = "plain" => filling = <<>> /\ queued = <<>>
  /\ options.wrapper = "staged" => queued = <<>> /\ (streaming => filling = <<>>)
  /\ OfTar!HeldIsBounded

(* Whatever the sink does with what is on its way, the order stays, and     *)
(* nothing is lost.                                                         *)
LEMMA PushKeepsFlow ==
  ASSUME SinkInv, OfTar!Push
  PROVE  SinkInv' /\ Flow' = Flow
<1> DEFINE S == Seq(Token)
           L == EndToEnd(queued)
<1>0. /\ out \in S /\ filling \in S /\ pending \in S /\ queued \in Seq(S) /\ streaming \in BOOLEAN
      /\ L \in S /\ EndToEnd(<<>>) = <<>>
      /\ \A s \in S : EndToEnd(Append(queued, s)) = L \o s
      /\ <<>> \in S /\ <<>> \in Seq(S)
  BY SMTT(40), EndToEndFacts DEF SinkInv
<1>1. /\ Len(queued) < Threads
      /\ options.wrapper = "split" => Len(filling) < Piece
      /\ options.wrapper = "staged" => Len(filling) <= Held
      /\ options.wrapper = "plain" => filling = <<>> /\ queued = <<>>
      /\ options.wrapper = "staged" => queued = <<>> /\ (streaming => filling = <<>>)
  BY DEF SinkInv, OfTar!HeldIsBounded
<1>2. options' = options
  BY DEF OfTar!Push, OfTar!svars, OfTar!world
<1>3. Len(<<>>) = 0 /\ Threads \in Nat \ {0} /\ Piece \in Nat \ {0} /\ Held \in Nat
  BY ThreadsAssumption, TarAssumption
<1>4. /\ \A s, t \in S : s \o t \in S /\ Len(s \o t) = Len(s) + Len(t)
      /\ \A s \in S : s \o <<>> = s /\ <<>> \o s = s
      /\ \A s, t, u \in S : (s \o t) \o u = s \o (t \o u)
  BY Concats
<1>5. Flow = ((out \o L) \o filling) \o pending
  BY DEF Flow
<1>6. Flow' = ((out' \o EndToEnd(queued')) \o filling') \o pending'
  BY DEF Flow
<1>7. SinkInv' <=> /\ out' \in S /\ filling' \in S /\ pending' \in S /\ queued' \in Seq(S) /\ streaming' \in BOOLEAN
                   /\ options'.wrapper = "plain" => filling' = <<>> /\ queued' = <<>>
                   /\ options'.wrapper = "staged" => queued' = <<>> /\ (streaming' => filling' = <<>>)
                   /\ Len(queued') < Threads
                   /\ options'.wrapper = "split" => Len(filling') < Piece
                   /\ options'.wrapper = "staged" => Len(filling') <= Held
  BY DEF SinkInv, OfTar!HeldIsBounded
<1> HIDE DEF S, L
<1>8. CASE OfTar!Plain
  <2>1. /\ options.wrapper = "plain" /\ out' = out \o pending /\ pending' = <<>>
        /\ filling' = filling /\ queued' = queued /\ streaming' = streaming
    BY <1>8 DEF OfTar!Plain
  <2>2. filling = <<>> /\ queued = <<>> /\ L = <<>>
    BY <1>0, <1>1, <2>1 DEF L
  <2>3. Flow' = Flow
    BY <1>0, <1>4, <1>5, <1>6, <2>1, <2>2
  <2>4. SinkInv'
    BY <1>0, <1>1, <1>2, <1>4, <1>7, <2>1, <2>2
  <2> QED
    BY <2>3, <2>4
<1>9. CASE OfTar!Split
  <2> DEFINE T == OfTar!Taking
             P1 == SubSeq(pending, 1, T)
             P2 == SubSeq(pending, T + 1, Len(pending))
             G == filling \o P1
  <2>1. options.wrapper = "split" /\ pending' = P2 /\ streaming' = streaming
    BY <1>9 DEF OfTar!Split
  <2>2. T \in 0 .. Len(pending)
    <3>1. Len(pending) \in Nat /\ Len(filling) \in Nat /\ Len(filling) < Piece
      BY <1>0, <1>1, <2>1 DEF S
    <3> QED
      BY <1>3, <3>1 DEF OfTar!Taking, OfTar!Room
  <2>3. P1 \in S /\ P2 \in S /\ P1 \o P2 = pending
    <3>1. SubSeq(pending, 1, Len(pending)) = pending
      BY <1>0, SubSeqFull DEF S
    <3>2. P1 \o P2 = SubSeq(pending, 1, Len(pending))
      <4>1. Len(pending) \in Nat
        BY <1>0 DEF S
      <4>2. 1 \in 1 .. Len(pending) + 1 /\ T \in 1 - 1 .. Len(pending) /\ Len(pending) \in T .. Len(pending)
        BY <2>2, <4>1
      <4> HIDE DEF T
      <4> QED
        BY <1>0, <4>2, ConcatAdjacentSubSeq DEF S
    <3>3. P1 \in S /\ P2 \in S
      <4> HIDE DEF T
      <4> QED
        BY SMTT(40), <1>0, <2>2 DEF S
    <3> QED
      BY <3>1, <3>2, <3>3
  <2>4. OfTar!FullerBy = G
    BY DEF OfTar!FullerBy
  <2>5. \/ Len(G) < Piece /\ filling' = G /\ queued' = queued /\ out' = out
        \/ filling' = <<>> /\ Len(queued) + 1 < Threads /\ queued' = Append(queued, G) /\ out' = out
        \/ filling' = <<>> /\ queued' = <<>> /\ out' = out \o EndToEnd(Append(queued, G))
    <3>1. OfTar!FlattenSeq(Append(queued, OfTar!FullerBy)) = EndToEnd(Append(queued, OfTar!FullerBy))
      BY DEF OfTar!FlattenSeq, EndToEnd, Flatten
    <3> QED
      BY <1>9, <2>4, <3>1 DEF OfTar!Split
  <2> HIDE DEF T, P1, P2
  <2>6. G \in S /\ G \o P2 = filling \o pending
    <3>1. filling \in S /\ P1 \in S /\ P2 \in S /\ P1 \o P2 = pending
      BY <1>0, <2>3
    <3> QED
      BY ONLY <3>1, <1>4 DEF G
  <2> HIDE DEF G
  <2>7. EndToEnd(Append(queued, G)) = L \o G /\ Append(queued, G) \in Seq(S) /\ Len(Append(queued, G)) = Len(queued) + 1
    <3>1. queued \in Seq(S) /\ \A s \in S : EndToEnd(Append(queued, s)) = L \o s
      BY <1>0
    <3> QED
      BY ONLY <2>6, <3>1
  <2>8. /\ ((out \o L) \o filling) \o pending = (out \o L) \o (filling \o pending)
        /\ ((out \o L) \o G) \o P2 = (out \o L) \o (G \o P2)
        /\ ((out \o (L \o G)) \o <<>>) \o P2 = (out \o L) \o (G \o P2)
        /\ (((out \o (L \o G)) \o <<>>) \o <<>>) \o P2 = (out \o L) \o (G \o P2)
    <3>1. out \in S /\ L \in S /\ G \in S /\ P2 \in S /\ filling \in S /\ pending \in S
      BY <1>0, <2>3, <2>6
    <3>2. Grouped(out, L, filling, pending) /\ Grouped(out, L, G, P2)
      BY ONLY <3>1, FourInARow DEF S
    <3> QED
      BY <3>2 DEF Grouped
  <2>9. CASE Len(G) < Piece /\ filling' = G /\ queued' = queued /\ out' = out
    <3>1. Flow' = ((out \o L) \o G) \o P2
      BY <1>6, <2>1, <2>9 DEF L
    <3>2. Flow' = Flow
      BY ONLY <1>5, <2>6, <2>8, <3>1
    <3> QED
      BY <1>0, <1>1, <1>2, <1>7, <2>1, <2>3, <2>6, <2>9, <3>2
  <2>10. CASE filling' = <<>> /\ Len(queued) + 1 < Threads /\ queued' = Append(queued, G) /\ out' = out
    <3>1. Flow' = ((out \o (L \o G)) \o <<>>) \o P2
      BY <1>6, <2>1, <2>7, <2>10
    <3>2. Flow' = Flow
      BY ONLY <1>5, <2>6, <2>8, <3>1
    <3>3. out' \in S /\ filling' \in S /\ pending' \in S /\ queued' \in Seq(S) /\ streaming' \in BOOLEAN
      BY <1>0, <2>1, <2>3, <2>7, <2>10
    <3>4. Len(queued') < Threads /\ Len(filling') < Piece
      BY ONLY <1>3, <2>7, <2>10
    <3> QED
      BY ONLY <1>2, <1>7, <2>1, <3>2, <3>3, <3>4
  <2>11. CASE filling' = <<>> /\ queued' = <<>> /\ out' = out \o EndToEnd(Append(queued, G))
    <3>1. Flow' = (((out \o (L \o G)) \o <<>>) \o <<>>) \o P2
      BY <1>0, <1>6, <2>1, <2>7, <2>11
    <3>2. Flow' = Flow
      BY ONLY <1>5, <2>6, <2>8, <3>1
    <3>3. out' \in S
      <4>1. L \o G \in S
        BY <1>0, <1>4, <2>6
      <4>2. out \in S
        BY <1>0
      <4> QED
        BY ONLY <1>4, <2>7, <2>11, <4>1, <4>2
    <3>4. filling' \in S /\ pending' \in S /\ queued' \in Seq(S) /\ streaming' \in BOOLEAN
      BY <1>0, <2>1, <2>3, <2>11
    <3>5. Len(queued') < Threads /\ Len(filling') < Piece
      BY ONLY <1>3, <2>11
    <3> QED
      BY ONLY <1>2, <1>7, <2>1, <3>2, <3>3, <3>4, <3>5
  <2> QED
    BY <2>5, <2>9, <2>10, <2>11
<1>10. CASE OfTar!Staged
  <2>1. options.wrapper = "staged" /\ pending' = <<>> /\ queued' = queued /\ queued = <<>> /\ L = <<>>
    BY <1>0, <1>1, <1>10 DEF OfTar!Staged, L
  <2>2. \/ streaming /\ filling = <<>> /\ out' = out \o pending /\ filling' = filling /\ streaming' = streaming
        \/ /\ ~streaming /\ Len(filling) + Len(pending) <= Held
           /\ filling' = filling \o pending /\ streaming' = streaming /\ out' = out
        \/ ~streaming /\ filling' = <<>> /\ streaming' = TRUE /\ out' = (out \o filling) \o pending
    BY <1>1, <1>10, <2>1 DEF OfTar!Staged
  <2>a. out \in S /\ filling \in S /\ pending \in S /\ <<>> \in S /\ EndToEnd(<<>>) = <<>>
    BY <1>0
  <2>b. out \o filling \in S /\ out \o pending \in S /\ filling \o pending \in S /\ (out \o filling) \o pending \in S
    BY ONLY <1>4, <2>a
  <2>c. (out \o filling) \o pending = out \o (filling \o pending) /\ out \o <<>> = out
    BY ONLY <1>4, <2>a
  <2>3. Flow = (out \o filling) \o pending
    BY ONLY <1>5, <2>1, <2>c
  <2>d. out' \in S /\ filling' \in S
    BY ONLY <2>2, <2>a, <2>b
  <2>4. Flow' = out' \o filling'
    <3>1. out' \o filling' \in S
      BY ONLY <1>4, <2>d
    <3>2. out' \o <<>> = out' /\ (out' \o filling') \o <<>> = out' \o filling'
      BY ONLY <1>4, <2>d, <3>1
    <3> QED
      BY ONLY <1>6, <2>1, <2>a, <3>2
  <2>5. Flow' = Flow
    <3>1. CASE streaming /\ filling = <<>> /\ out' = out \o pending /\ filling' = filling
      <4>1. (out \o pending) \o <<>> = out \o pending
        BY ONLY <1>4, <2>b
      <4> QED
        BY ONLY <2>3, <2>4, <2>c, <3>1, <4>1
    <3>2. CASE filling' = filling \o pending /\ out' = out
      BY ONLY <2>3, <2>4, <2>c, <3>2
    <3>3. CASE filling' = <<>> /\ out' = (out \o filling) \o pending
      <4>1. ((out \o filling) \o pending) \o <<>> = (out \o filling) \o pending
        BY ONLY <1>4, <2>b
      <4> QED
        BY ONLY <2>3, <2>4, <3>3, <4>1
    <3> QED
      BY ONLY <2>2, <3>1, <3>2, <3>3
  <2>6. Len(filling') <= Held /\ streaming' \in BOOLEAN /\ (streaming' => filling' = <<>>)
    <3>1. Len(filling \o pending) = Len(filling) + Len(pending)
      BY ONLY <1>4, <2>a
    <3>2. Len(filling) <= Held /\ streaming \in BOOLEAN
      BY <1>0, <1>1, <2>1
    <3>3. streaming' \in BOOLEAN /\ (streaming' => filling' = <<>>)
      <4>1. streaming' = TRUE \/ streaming' = streaming
        BY <2>2
      <4>3. streaming' = TRUE => filling' = <<>> \/ streaming' = streaming
        BY <2>2
      <4>4. streaming => filling' = <<>>
        BY <2>2
      <4>5. CASE streaming' = TRUE
        BY <4>3, <4>4, <4>5
      <4>6. CASE streaming' = streaming
        BY <3>2, <4>4, <4>6
      <4> QED
        BY <4>1, <4>5, <4>6
    <3>4. CASE filling' = filling
      BY ONLY <3>2, <3>3, <3>4
    <3>5. CASE Len(filling) + Len(pending) <= Held /\ filling' = filling \o pending
      BY ONLY <3>1, <3>3, <3>5
    <3>6. CASE filling' = <<>>
      BY ONLY <1>3, <3>3, <3>6
    <3> QED
      BY ONLY <2>2, <3>4, <3>5, <3>6
  <2>7. pending' \in S /\ queued' \in Seq(S) /\ Len(queued') < Threads /\ queued' = <<>>
    BY <1>0, <1>1, <2>1
  <2> QED
    BY ONLY <1>2, <1>7, <2>1, <2>5, <2>6, <2>7, <2>d
<1> QED
  BY <1>8, <1>9, <1>10 DEF OfTar!Push

-----------------------------------------------------------------------------
(* Tar: the steps, and what they do to the list.                            *)

TarEntry ==
  [kind : {"dir", "link", "file"}, name : Seq(Nat), body : Seq(Token)]
    \cup [kind : {"hard"}, name : Seq(Nat), body : {<<>>}, to : Seq(Nat)]

tarSink == <<filling, queued, streaming, out>>
Sparse(s) == options.sparse /\ s.size >= SparseMinimum
Head1(k) == <<<<"header", k>>>>

TarBegins ==
  /\ phase = "begin" /\ phase' = "writing" /\ \E l : List(l)
  /\ links' = OfTar!FindHardLinks /\ UNCHANGED <<pending, tarSink>>
TarHard(e) ==
  /\ phase = "writing" /\ Now.kind = "file" /\ at \in DOMAIN links
  /\ e = [kind |-> "hard", name |-> Now.name, body |-> <<>>, to |-> links[at]] /\ pending' = Head1(at)
TarOther(e) ==
  /\ phase = "writing" /\ Now.kind \in {"dir", "link"} /\ pending' = Head1(at)
  /\ e = Entry(Now.kind, IF Now.kind = "dir" THEN <<>> ELSE Units(Now.path, 0, 1))
TarSparse(e) ==
  /\ phase = "writing" /\ Now.kind = "file" /\ at \notin DOMAIN links /\ Sparse(Now)
  /\ e = Entry("file", Units(Now.path, 0, disk[Now.path].len))
  /\ pending' = Head1(at) \o Units(Now.path, 0, disk[Now.path].len)
TarFile(e) ==
  /\ phase = "body" /\ (Len(body) = Now.size \/ Len(body) >= disk[Now.path].len)
  /\ e = Entry("file", body \o OfTar!Padding) /\ pending' = OfTar!Padding
TarEnters(e) ==
  /\ at <= Len(sources) /\ pending = <<>> /\ phase' = "writing" /\ \E c, n : Finish(e, c, n)
  /\ UNCHANGED <<links, tarSink>>
  /\ TarHard(e) \/ TarOther(e) \/ TarSparse(e) \/ TarFile(e)
TarStarts ==
  /\ phase = "writing" /\ phase' = "body" /\ pending = <<>> /\ pending' = Head1(at)
  /\ at <= Len(sources) /\ Now.kind = "file" /\ at \notin DOMAIN links /\ ~Sparse(Now)
  /\ UNCHANGED <<world, disk, changed, sources, at, body, entries, links, tarSink>>
TarCopies ==
  /\ phase = "body" /\ phase' = "body" /\ pending = <<>>
  /\ Len(body) < Now.size /\ body' = Append(body, Unit(Now.path, Len(body)))
  /\ pending' = <<Unit(Now.path, Len(body))>>
  /\ UNCHANGED <<world, disk, changed, sources, at, entries, links, tarSink>>
TarPushes == phase # "begin" /\ OfTar!Push
TarEnds ==
  /\ phase = "writing" /\ phase' = "ending" /\ pending = <<>> /\ pending' = <<<<"end">>>> /\ at > Len(sources)
  /\ UNCHANGED <<world, disk, changed, sources, at, body, entries, links, tarSink>>
TarFinishes ==
  /\ phase = "ending" /\ phase' = "done" /\ pending = <<>> /\ pending' = <<>>
  /\ out' = (out \o EndToEnd(queued)) \o filling /\ filling' = <<>> /\ queued' = <<>>
  /\ UNCHANGED <<world, disk, changed, sources, at, body, entries, links, streaming>>
TarFails ==
  /\ phase' = "failed"
  /\ UNCHANGED <<world, disk, changed, sources, at, body, entries, links, pending, tarSink>>
TarChanges == Change /\ UNCHANGED <<links, pending, tarSink>>

(* Every step is one of these.                                              *)
LEMMA TarSteps ==
  ASSUME OfTar!Next, phase = "body" => at <= Len(sources)
  PROVE  \/ TarBegins \/ (\E e : TarEnters(e)) \/ TarStarts \/ TarCopies \/ TarPushes \/ TarEnds
         \/ TarFinishes \/ TarFails \/ TarChanges
<1> USE DEF tarSink, OfTar!sink
<1>1. /\ OfTar!Now = Now /\ (OfTar!Fail => Fail)
      /\ \A e, c, n : OfTar!Finish(e, c, n) => Finish(e, c, n)
      /\ \A k : OfTar!Turn(k) => Turn(k)
      /\ \A p, a, b : OfTar!Units(p, a, b) = Units(p, a, b)
      /\ \A k, d : OfTar!Entry(k, d) = Entry(k, d)
  BY OfTarSources
<1>2. Fail => phase' = "failed" /\ UNCHANGED <<world, disk, changed, sources, at, body, entries>>
  BY DEF Fail
<1>3. CASE OfTar!TBegin
  <2>1. \E l : List(l) /\ phase' = "writing"
    BY <1>3, OfTarSources DEF OfTar!TBegin, OfTar!Begin
  <2>2. phase = "begin"
    BY <2>1 DEF List
  <2> QED
    BY <1>1, <1>3, <2>1, <2>2 DEF OfTar!TBegin, TarBegins
<1>4. CASE OfTar!WriteHardLink
  <2> DEFINE e == [kind |-> "hard", name |-> Now.name, body |-> <<>>, to |-> links[at]]
  <2>1. /\ Finish(e, "hardlinks", 0) /\ phase' = phase /\ phase = "writing" /\ pending = <<>>
        /\ Turn("file") /\ at \in DOMAIN links /\ pending' = Head1(at) /\ UNCHANGED <<links, tarSink>>
    BY <1>1, <1>4 DEF OfTar!WriteHardLink, OfTar!Ready, OfTar!Linked, OfTar!Emit, OfTar!HeaderOf, Head1
  <2>2. TarEnters(e)
    BY <2>1 DEF TarEnters, TarHard, Turn, Now
  <2> QED
    BY <2>2
<1>5. CASE OfTar!WriteOther
  <2>1. /\ WriteDirectory \/ WriteSymlink
        /\ phase = "writing" /\ pending = <<>> /\ pending' = Head1(at) /\ UNCHANGED <<links, tarSink>>
    BY <1>1, <1>5, OfTarSources DEF OfTar!WriteOther, OfTar!Ready, OfTar!Emit, OfTar!HeaderOf, Head1
  <2>2. CASE WriteDirectory
    <3>1. TarEnters(Entry("dir", <<>>))
      BY <2>1, <2>2 DEF WriteDirectory, TarEnters, TarOther, Turn, Now
    <3> QED
      BY <3>1
  <2>3. CASE WriteSymlink
    <3>1. TarEnters(Entry("link", Units(Now.path, 0, 1)))
      BY <2>1, <2>3 DEF WriteSymlink, TarEnters, TarOther, Turn, Now
    <3> QED
      BY <3>1
  <2> QED
    BY <2>1, <2>2, <2>3
<1>6. CASE OfTar!WriteSparse
  <2> DEFINE d == Units(Now.path, 0, disk[Now.path].len)
  <2>1. /\ Finish(Entry("file", d), "files", Len(d)) /\ phase' = phase /\ phase = "writing" /\ pending = <<>>
        /\ Turn("file") /\ at \notin DOMAIN links /\ Sparse(Now)
        /\ pending' = Head1(at) \o d /\ UNCHANGED <<links, tarSink>>
    BY SMTT(40), <1>1, <1>6
       DEF OfTar!WriteSparse, OfTar!Ready, OfTar!Linked, OfTar!Emit, OfTar!HeaderOf, Head1, Sparse
  <2>2. TarEnters(Entry("file", d))
    BY <2>1 DEF TarEnters, TarSparse, Turn, Now
  <2> QED
    BY SMTT(40), <2>2
<1>7. CASE OfTar!Unopenable
  BY <1>1, <1>2, <1>7 DEF OfTar!Unopenable, TarFails
<1>8. CASE OfTar!StartFile
  BY <1>1, <1>8
     DEF OfTar!world, world, OfTar!StartFile, OfTar!Ready, OfTar!Linked, OfTar!Emit, OfTar!HeaderOf, Head1, Sparse, TarStarts, Turn, Now
<1>9. CASE OfTar!Copy
  BY <1>1, <1>9 DEF OfTar!world, world, OfTar!Unit, Unit, OfTar!Copy, OfTar!Emit, TarCopies
<1>10. CASE OfTar!EndFile
  <2> DEFINE e == Entry("file", body \o OfTar!Padding)
  <2>1. /\ Finish(e, "files", Now.size) /\ phase' = "writing" /\ phase = "body" /\ pending = <<>>
        /\ Len(body) = Now.size \/ Len(body) >= disk[Now.path].len
        /\ pending' = OfTar!Padding /\ UNCHANGED <<links, tarSink>>
    BY <1>1, <1>10 DEF OfTar!EndFile, OfTar!Emit
  <2>2. at <= Len(sources) => TarEnters(e)
    BY <2>1 DEF TarEnters, TarFile
  <2> QED
    BY <2>1, <2>2
<1>11. CASE OfTar!Push
  BY <1>11 DEF TarPushes, OfTar!Push
<1>12. CASE OfTar!WriteEnd
  BY <1>1, <1>12 DEF OfTar!world, world, OfTar!WriteEnd, OfTar!Ready, OfTar!Emit, OfTar!End, TarEnds
<1>13. CASE OfTar!FinishSink
  <2>1. OfTar!FlattenSeq(queued) = EndToEnd(queued)
    BY DEF OfTar!FlattenSeq, EndToEnd, Flatten
  <2> QED
    BY <1>1, <1>13, <2>1 DEF OfTar!world, world, OfTar!FinishSink, OfTar!Remainder, TarFinishes
<1>14. CASE OfTar!Others /\ UNCHANGED <<links, pending, tarSink>>
  <2>1. OfTar!Refuse \/ CannotCollect \/ SymlinkGone \/ WriteFails => Fail
    BY OfTarSources DEF OfTar!Refuse, CannotCollect, SymlinkGone, WriteFails
  <2>2. OfTar!Others => Fail \/ Change
    BY <2>1, OfTarSources DEF OfTar!Others
  <2> QED
    BY <1>2, <1>14, <2>2 DEF TarFails, TarChanges
<1> QED
  BY <1>1, <1>3, <1>4, <1>5, <1>6, <1>7, <1>8, <1>9, <1>10, <1>11, <1>12, <1>13, <1>14 DEF OfTar!Next

-----------------------------------------------------------------------------
(* Tar: the stream.                                                         *)

Part(k, e) == Head1(k) \o (IF e.kind = "file" THEN e.body ELSE <<>>)
StreamOf(es) == EndToEnd([k \in DOMAIN es |-> Part(k, es[k])])

(* The stream of the entries grows with each of them.                       *)
LEMMA StreamGrows ==
  ASSUME NEW es \in Seq(TarEntry), NEW e \in TarEntry
  PROVE  /\ StreamOf(es) \in Seq(Token) /\ Part(Len(es) + 1, e) \in Seq(Token)
         /\ StreamOf(Append(es, e)) = StreamOf(es) \o Part(Len(es) + 1, e)
         /\ StreamOf(<<>>) = <<>>
<1> DEFINE n == Len(es)
           ps == [k \in DOMAIN es |-> Part(k, es[k])]
           qs == [k \in DOMAIN Append(es, e) |-> Part(k, Append(es, e)[k])]
<1>1. \A k \in Nat, x \in TarEntry : Part(k, x) \in Seq(Token)
  <2> TAKE k \in Nat, x \in TarEntry
  <2>1. Head1(k) \in Seq(Token)
    BY DEF Head1, Token
  <2>2. (IF x.kind = "file" THEN x.body ELSE <<>>) \in Seq(Token)
    BY DEF TarEntry
  <2> QED
    BY <2>1, <2>2, Concats DEF Part
<1>2. n \in Nat /\ DOMAIN es = 1 .. n /\ \A k \in 1 .. n : es[k] \in TarEntry
  OBVIOUS
<1>3. ps \in Seq(Seq(Token)) /\ Len(ps) = n /\ \A k \in 1 .. n : ps[k] = Part(k, es[k])
  <2>1. ps \in [1 .. n -> Seq(Token)]
    BY <1>1, <1>2
  <2> QED
    BY <1>2, <2>1
<1>4. /\ DOMAIN Append(es, e) = 1 .. n + 1
      /\ \A k \in 1 .. n + 1 : Append(es, e)[k] = IF k = n + 1 THEN e ELSE es[k]
  OBVIOUS
<1>5. qs = Append(ps, Part(n + 1, e))
  <2> DEFINE rs == Append(ps, Part(n + 1, e))
  <2>1. Part(n + 1, e) \in Seq(Token)
    BY <1>1, <1>2
  <2>2. rs \in Seq(Seq(Token)) /\ Len(rs) = n + 1 /\ rs[n + 1] = Part(n + 1, e) /\ \A k \in 1 .. n : rs[k] = ps[k]
    <3> HIDE DEF ps
    <3> QED
      BY <1>2, <1>3, <2>1, AppendProperties
  <2>3. qs = [k \in 1 .. n + 1 |-> Part(k, IF k = n + 1 THEN e ELSE es[k])]
    BY <1>4
  <2>4. \A k \in 1 .. n + 1 : Part(k, IF k = n + 1 THEN e ELSE es[k]) \in Seq(Token)
    <3> TAKE k \in 1 .. n + 1
    <3>1. k \in Nat /\ (IF k = n + 1 THEN e ELSE es[k]) \in TarEntry
      BY <1>2
    <3> QED
      BY ONLY <1>1, <3>1
  <2>5. qs \in Seq(Seq(Token)) /\ Len(qs) = n + 1
    <3>1. qs \in [1 .. n + 1 -> Seq(Token)] /\ n + 1 \in Nat
      BY <1>2, <2>3, <2>4
    <3> HIDE DEF qs
    <3> QED
      BY ONLY <3>1
  <2>6. \A k \in 1 .. n + 1 : qs[k] = rs[k]
    <3> TAKE k \in 1 .. n + 1
    <3>1. qs[k] = Part(k, IF k = n + 1 THEN e ELSE es[k])
      BY <2>3
    <3>2. CASE k = n + 1
      BY <2>2, <3>1, <3>2
    <3>3. CASE k # n + 1
      <4>1. k \in 1 .. n
        BY <1>2, <3>3
      <4> QED
        BY <1>3, <2>2, <3>1, <3>3, <4>1
    <3> QED
      BY <3>2, <3>3
  <2> HIDE DEF qs, rs
  <2>7. qs = rs
    BY ONLY <2>2, <2>5, <2>6, SameSequence
  <2> QED
    BY <2>7 DEF rs
<1>6. EndToEnd(ps) \in Seq(Token) /\ EndToEnd(<<>>) = <<>> /\ EndToEnd(Append(ps, Part(n + 1, e))) = EndToEnd(ps) \o Part(n + 1, e)
  <2>1. Part(n + 1, e) \in Seq(Token)
    BY <1>1, <1>2
  <2> HIDE DEF ps
  <2> QED
    BY <1>3, <2>1, EndToEndFacts
<1>7. StreamOf(<<>>) = EndToEnd(<<>>)
  <2>1. [k \in DOMAIN <<>> |-> Part(k, <<>>[k])] = <<>>
    OBVIOUS
  <2> QED
    BY <2>1 DEF StreamOf
<1>8. StreamOf(es) = EndToEnd(ps) /\ StreamOf(Append(es, e)) = EndToEnd(qs)
  BY DEF StreamOf
<1>9. Part(n + 1, e) \in Seq(Token)
  BY <1>1, <1>2
<1> QED
  BY ONLY <1>5, <1>6, <1>7, <1>8, <1>9

(* The units of a file, one after another.                                  *)
LEMMA UnitsFacts ==
  ASSUME NEW p \in Paths, NEW n \in Nat
  PROVE  /\ Units(p, 0, n) \in Seq(Token) /\ Len(Units(p, 0, n)) = n
         /\ Append(Units(p, 0, n), Unit(p, n)) = Units(p, 0, n + 1)
         /\ Units(p, 0, 0) = <<>>
         /\ Unit(p, n) \in Token
<1>1. \A k \in Nat : Unit(p, k) \in Token
  BY DEF Unit, Token
<1>2. \A m \in Nat : Units(p, 0, m) = [k \in 1 .. m |-> Unit(p, k - 1)]
  <2> TAKE m \in Nat
  <2>1. m - 0 = m /\ \A k \in 1 .. m : 0 + k - 1 = k - 1
    OBVIOUS
  <2> QED
    BY <2>1 DEF Units
<1>3. \A m \in Nat : Units(p, 0, m) \in Seq(Token) /\ Len(Units(p, 0, m)) = m
  <2> TAKE m \in Nat
  <2>1. [k \in 1 .. m |-> Unit(p, k - 1)] \in [1 .. m -> Token]
    BY <1>1
  <2> QED
    BY <1>2, <2>1
<1>4. Append(Units(p, 0, n), Unit(p, n)) = Units(p, 0, n + 1)
  <2> DEFINE s == Append(Units(p, 0, n), Unit(p, n))
             t == Units(p, 0, n + 1)
  <2>1. s \in Seq(Token) /\ Len(s) = n + 1 /\ s[n + 1] = Unit(p, n) /\ \A k \in 1 .. n : s[k] = Units(p, 0, n)[k]
    <3>1. \A u \in Seq(Token), w \in Token :
            /\ Append(u, w) \in Seq(Token) /\ Len(Append(u, w)) = Len(u) + 1 /\ Append(u, w)[Len(u) + 1] = w
            /\ \A k \in 1 .. Len(u) : Append(u, w)[k] = u[k]
      BY AppendProperties
    <3>2. Units(p, 0, n) \in Seq(Token) /\ Len(Units(p, 0, n)) = n /\ Unit(p, n) \in Token
      BY <1>1, <1>3
    <3> QED
      BY ONLY <3>1, <3>2
  <2>2. t \in Seq(Token) /\ Len(t) = n + 1
    BY <1>3
  <2>3. \A k \in 1 .. n + 1 : t[k] = Unit(p, k - 1)
    BY <1>2
  <2>4. \A k \in 1 .. n : Units(p, 0, n)[k] = Unit(p, k - 1)
    BY <1>2
  <2> HIDE DEF s, t
  <2>5. \A k \in 1 .. n + 1 : s[k] = t[k]
    <3> TAKE k \in 1 .. n + 1
    <3>1. CASE k = n + 1
      <4>1. k - 1 = n
        BY <3>1
      <4> QED
        BY <2>1, <2>3, <3>1, <4>1
    <3>2. CASE k # n + 1
      <4>1. k \in 1 .. n
        BY <3>2
      <4> QED
        BY <2>1, <2>3, <2>4, <4>1
    <3> QED
      BY <3>1, <3>2
  <2>6. s = t
    BY ONLY <2>1, <2>2, <2>5, SameSequence
  <2> QED
    BY <2>6 DEF s, t
<1>5. Units(p, 0, 0) = <<>>
  BY <1>3
<1> QED
  BY <1>1, <1>3, <1>4, <1>5

-----------------------------------------------------------------------------
(* Tar: the invariant.                                                      *)

Copying ==
  /\ at <= Len(sources) /\ Now.kind = "file" /\ at \notin DOMAIN links /\ ~Sparse(Now)
  /\ Len(body) <= Now.size /\ body = Units(Now.path, 0, Len(body))
PhaseInv ==
  /\ phase \in {"begin", "writing", "body", "ending", "done", "failed"}
  /\ body \in Seq(Token)
  /\ phase \in {"begin", "writing", "ending", "done"} => body = <<>>
  /\ phase = "body" => Copying
  /\ phase = "begin" => links = <<>> /\ pending = <<>> /\ filling = <<>> /\ queued = <<>> /\ out = <<>>
  /\ phase = "done" => pending = <<>> /\ filling = <<>> /\ queued = <<>>

PointsBack(k) ==
  \E j \in 1 .. k - 1 : /\ j \notin DOMAIN links /\ sources[j].kind = "file" /\ sources[j].name = links[k]
                        /\ disk[sources[j].path].id = disk[sources[k].path].id
LinkInv ==
  /\ DOMAIN links \subseteq DOMAIN sources
  /\ \A k \in DOMAIN links : links[k] \in Seq(Nat) /\ sources[k].kind = "file" /\ PointsBack(k)
  /\ \A k \in 1 .. Len(entries) :
       /\ entries[k].kind = "hard" <=> k \in DOMAIN links
       /\ entries[k].kind = "hard" => entries[k].to = links[k]

Wanted ==
  (StreamOf(entries) \o (IF phase = "body" THEN Head1(at) \o body ELSE <<>>))
    \o (IF phase \in {"ending", "done"} THEN <<<<"end">>>> ELSE <<>>)
StreamInv == phase \notin {"begin", "failed"} => Flow = Wanted

HoldsInv == \A k \in 1 .. Len(entries) : entries[k].kind = "file" => OfTar!Holds(entries[k], sources[k])

TarInv == ListInv(TarEntry) /\ SinkInv /\ PhaseInv /\ LinkInv /\ StreamInv /\ HoldsInv

(* The source whose turn it is.                                             *)
LEMMA NowFacts ==
  ASSUME NEW E, ListInv(E), at <= Len(sources)
  PROVE  /\ Now \in SourceRecord /\ Now.path \in Paths /\ Now.name \in Seq(Nat) /\ Now.kind \in Kinds
         /\ Now.size \in Nat /\ disk[Now.path].len \in Nat
         /\ at \in Nat \ {0} /\ at \in 1 .. Len(sources) /\ at = Len(entries) + 1 /\ phase # "begin"
         /\ Now.kind = "file" /\ Now.path \notin changed => Now.size = disk[Now.path].len
<1>1. /\ sources \in Seq(SourceRecord) /\ at \in 1 .. Len(sources) + 1 /\ Len(entries) = at - 1
      /\ disk \in [Paths -> Node] /\ (phase = "begin" => sources = <<>> /\ at = 1) /\ SizesHold
  BY DEF ListInv, IsWorld
<1>2. at \in 1 .. Len(sources) /\ at \in DOMAIN sources
  BY <1>1
<1>3. Now \in SourceRecord
  BY <1>1, <1>2 DEF Now
<1>4. Now.path \in Paths /\ Now.name \in Seq(Nat) /\ Now.kind \in Kinds /\ Now.size \in Nat
  BY <1>3 DEF SourceRecord
<1>5. disk[Now.path].len \in Nat
  BY <1>1, <1>4 DEF Node
<1>6. phase # "begin"
  BY <1>1
<1>7. at \in Nat \ {0} /\ at = Len(entries) + 1
  BY <1>1
<1>8. Now.kind = "file" /\ Now.path \notin changed => Now.size = disk[Now.path].len
  BY <1>1, <1>2 DEF SizesHold, Now
<1> QED
  BY <1>2, <1>3, <1>4, <1>5, <1>6, <1>7, <1>8

(* What others change, and what they cannot.                                *)
LEMMA ChangeFacts ==
  ASSUME NEW E, ListInv(E), Change
  PROVE  /\ phase \notin {"begin", "done", "failed"} /\ UNCHANGED <<inputs, options, phase, sources, at, body, entries, totals, summary, processed, finished>>
         /\ changed \subseteq changed' /\ \A p \in Paths : disk'[p].id = disk[p].id
<1>1. PICK p \in {s.path : s \in ToSet(sources)} :
        /\ \E f : disk' = [disk EXCEPT ![p].kind = f.kind, ![p].len = f.len]
        /\ changed' = changed \cup {p}
  BY DEF Change
<1>2. PICK f : disk' = [disk EXCEPT ![p].kind = f.kind, ![p].len = f.len]
  BY <1>1
<1>3. disk \in [Paths -> Node]
  BY DEF ListInv, IsWorld
<1>4. \A q \in Paths : disk'[q].id = disk[q].id
  BY <1>2, <1>3 DEF Node
<1> QED
  BY <1>1, <1>4 DEF Change, world, report

(* Zeros, in any number.                                                    *)
LEMMA ZerosFacts ==
  ASSUME NEW n \in Nat
  PROVE  OfTar!Zeros(n) \in Seq(Token) /\ Len(OfTar!Zeros(n)) = n
<1>1. OfTar!Zeros(n) = [k \in 1 .. n |-> <<"zero">>]
  BY DEF OfTar!Zeros, OfTar!Zero
<1>2. [k \in 1 .. n |-> <<"zero">>] \in [1 .. n -> Token]
  BY DEF Token
<1> QED
  BY <1>1, <1>2

(* What enters the archive is an entry, and the one of its source.          *)
LEMMA TarEntersEntry ==
  ASSUME ListInv(TarEntry), PhaseInv, LinkInv, NEW e, TarEnters(e)
  PROVE  /\ e \in TarEntry /\ Enters(e) /\ pending' \in Seq(Token)
         /\ phase = "writing" => pending' = Part(at, e)
         /\ phase = "body" => /\ OfTar!Padding \in Seq(Token) /\ pending' = OfTar!Padding
                              /\ Part(at, e) = Head1(at) \o (body \o OfTar!Padding)
<1>0. at <= Len(sources) /\ \E c, n : Finish(e, c, n)
  BY DEF TarEnters
<1>1. /\ Now.path \in Paths /\ Now.name \in Seq(Nat) /\ Now.size \in Nat /\ disk[Now.path].len \in Nat
      /\ at \in Nat \ {0} /\ phase # "begin"
  BY <1>0, NowFacts
<1>2. Head1(at) \in Seq(Token) /\ Head1(at) \o <<>> = Head1(at) /\ <<>> \in Seq(Token)
  <2>1. Head1(at) \in Seq(Token)
    BY <1>1 DEF Head1, Token
  <2> QED
    BY <2>1, Concats
<1>3. CASE TarHard(e)
  <2>1. e = [kind |-> "hard", name |-> Now.name, body |-> <<>>, to |-> links[at]] /\ links[at] \in Seq(Nat)
    BY <1>3 DEF TarHard, LinkInv
  <2>2. e \in TarEntry /\ e.kind = "hard" /\ e.name = Now.name
    BY <1>1, <2>1 DEF TarEntry
  <2>3. pending' = Head1(at) /\ Now.kind = "file" /\ phase = "writing"
    BY <1>3 DEF TarHard
  <2> QED
    BY <1>0, <1>1, <1>2, <2>2, <2>3 DEF Enters, Answers, Part
<1>4. CASE TarOther(e)
  <2>1. /\ e = [kind |-> Now.kind, name |-> Now.name, body |-> IF Now.kind = "dir" THEN <<>> ELSE Units(Now.path, 0, 1)]
        /\ Now.kind \in {"dir", "link"} /\ pending' = Head1(at) /\ phase = "writing"
    BY <1>4 DEF TarOther, Entry
  <2>2. Units(Now.path, 0, 1) \in Seq(Token)
    BY <1>1, UnitsFacts
  <2>3. e \in TarEntry /\ e.kind = Now.kind /\ e.name = Now.name /\ e.kind # "file"
    BY <1>1, <1>2, <2>1, <2>2 DEF TarEntry
  <2> QED
    BY <1>0, <1>1, <1>2, <2>1, <2>3 DEF Enters, Answers, Part
<1>5. CASE TarSparse(e)
  <2> DEFINE d == Units(Now.path, 0, disk[Now.path].len)
  <2>1. /\ e = [kind |-> "file", name |-> Now.name, body |-> d] /\ Now.kind = "file" /\ phase = "writing"
        /\ pending' = Head1(at) \o d
    BY <1>5 DEF TarSparse, Entry
  <2>2. d \in Seq(Token)
    BY <1>1, UnitsFacts
  <2> HIDE DEF d
  <2>3. e \in TarEntry /\ e.kind = Now.kind /\ e.name = Now.name /\ e.kind = "file" /\ e.body = d
    BY <1>1, <2>1, <2>2 DEF TarEntry
  <2>4. pending' \in Seq(Token)
    BY <1>2, <2>1, <2>2, Concats
  <2> QED
    BY <1>0, <1>1, <2>1, <2>3, <2>4 DEF Enters, Answers, Part
<1>6. CASE TarFile(e)
  <2>1. /\ e = [kind |-> "file", name |-> Now.name, body |-> body \o OfTar!Padding] /\ phase = "body"
        /\ pending' = OfTar!Padding
    BY <1>6 DEF TarFile, Entry
  <2>2. body \in Seq(Token) /\ Len(body) \in Nat /\ Len(body) <= Now.size /\ Now.kind = "file"
    BY <2>1 DEF PhaseInv, Copying
  <2>3. OfTar!Padding \in Seq(Token)
    <3>1. Now.size - Len(body) \in Nat
      BY <1>1, <2>2
    <3>2. OfTar!Padding = OfTar!Zeros(Now.size - Len(body))
      BY OfTarSources DEF OfTar!Padding
    <3> QED
      BY <3>1, <3>2, ZerosFacts
  <2>4. body \o OfTar!Padding \in Seq(Token)
    BY <2>2, <2>3, Concats
  <2>5. e \in TarEntry /\ e.kind = Now.kind /\ e.name = Now.name /\ e.kind = "file" /\ e.body = body \o OfTar!Padding
    BY <1>1, <2>1, <2>2, <2>4 DEF TarEntry
  <2> QED
    BY <1>0, <1>1, <2>1, <2>3, <2>5 DEF Enters, Answers, Part
<1> QED
  BY <1>3, <1>4, <1>5, <1>6 DEF TarEnters

(* So the list and its entries are kept.                                    *)
LEMMA TarKeepsList ==
  ASSUME TarInv, OfTar!Next
  PROVE  ListInv(TarEntry)'
<1>1. ListInv(TarEntry) /\ PhaseInv /\ LinkInv
  BY DEF TarInv
<1>2. phase = "body" => at <= Len(sources)
  BY <1>1 DEF PhaseInv, Copying
<1>3. ListStep(TarEntry)
  <2>1. CASE TarBegins
    BY <2>1 DEF TarBegins, ListStep
  <2>2. ASSUME NEW e, TarEnters(e) PROVE ListStep(TarEntry)
    <3>1. e \in TarEntry /\ Enters(e) /\ phase' = "writing"
      BY <1>1, <2>2, TarEntersEntry DEF TarEnters
    <3> QED
      BY <3>1 DEF ListStep
  <2>3. CASE TarStarts \/ TarCopies \/ TarEnds \/ TarFinishes \/ TarFails
    BY <2>3 DEF TarStarts, TarCopies, TarEnds, TarFinishes, TarFails, ListStep, Idles
  <2>4. CASE TarPushes
    BY <2>4 DEF TarPushes, OfTar!Push, OfTar!svars, OfTar!world, world, ListStep, Idles
  <2>5. CASE TarChanges
    BY <2>5 DEF TarChanges, ListStep
  <2> QED
    BY <1>2, <2>1, <2>2, <2>3, <2>4, <2>5, TarSteps
<1> QED
  BY <1>1, <1>3, ListInvKept

(* The sink, when nothing is pushed: something new is on its way, or what   *)
(* was there stays.                                                         *)
LEMMA SinkKept ==
  ASSUME SinkInv, UNCHANGED <<options, tarSink>>, pending' \in Seq(Token)
  PROVE  /\ SinkInv'
         /\ pending = <<>> => Flow \in Seq(Token) /\ Flow' = Flow \o pending'
         /\ pending' = pending => Flow' = Flow
<1>1. options' = options /\ filling' = filling /\ queued' = queued /\ streaming' = streaming /\ out' = out
  BY DEF tarSink
<1>2. SinkInv'
  BY <1>1 DEF SinkInv, OfTar!HeldIsBounded
<1> DEFINE X == (out \o EndToEnd(queued)) \o filling
<1>3. X \in Seq(Token)
  <2>1. out \in Seq(Token) /\ EndToEnd(queued) \in Seq(Token) /\ filling \in Seq(Token)
    BY EndToEndFacts DEF SinkInv
  <2> QED
    BY <2>1, Concats
<1>4. Flow = X \o pending /\ Flow' = X \o pending'
  BY <1>1 DEF Flow
<1> HIDE DEF X
<1>5. pending = <<>> => Flow = X
  BY <1>3, <1>4, Concats
<1> QED
  BY <1>2, <1>3, <1>4, <1>5

(* How far the archive is, the sink and the stream are kept by every step.  *)
LEMMA TarKeepsStream ==
  ASSUME TarInv, OfTar!Next
  PROVE  PhaseInv' /\ SinkInv' /\ StreamInv'
<1>0. ListInv(TarEntry) /\ PhaseInv /\ LinkInv /\ SinkInv /\ StreamInv
  BY DEF TarInv
<1>1. phase = "body" => at <= Len(sources)
  BY <1>0 DEF PhaseInv, Copying
<1> DEFINE St == StreamOf(entries)
           H == Head1(at)
<1>2. St \in Seq(Token) /\ entries \in Seq(TarEntry) /\ at = Len(entries) + 1 /\ at \in Nat \ {0} /\ StreamOf(<<>>) = <<>>
  <2>1. entries \in Seq(TarEntry) /\ Len(entries) = at - 1 /\ at \in 1 .. Len(sources) + 1 /\ Len(sources) \in Nat
    BY <1>0 DEF ListInv
  <2>2. at = Len(entries) + 1 /\ at \in Nat \ {0}
    BY <2>1
  <2>3. [kind |-> "dir", name |-> <<>>, body |-> <<>>] \in TarEntry
    BY DEF TarEntry
  <2> QED
    BY <2>1, <2>2, <2>3, StreamGrows
<1>3. \A e \in TarEntry : StreamOf(Append(entries, e)) = St \o Part(at, e)
  BY <1>2, StreamGrows
<1>4. H \in Seq(Token) /\ body \in Seq(Token) /\ <<>> \in Seq(Token) /\ pending \in Seq(Token)
  <2>1. H \in Seq(Token)
    BY <1>2 DEF Head1, Token
  <2> QED
    BY <1>0, <2>1, Concats DEF PhaseInv, SinkInv
<1>5. /\ \A s, t \in Seq(Token) : s \o t \in Seq(Token)
      /\ \A s \in Seq(Token) : s \o <<>> = s /\ <<>> \o s = s
      /\ \A s, t, u \in Seq(Token) : (s \o t) \o u = s \o (t \o u)
  BY Concats
<1> HIDE DEF St, H
<1>6. phase = "writing" => Wanted = St
  <2>1. phase = "writing" => Wanted = (St \o <<>>) \o <<>>
    BY DEF Wanted, St
  <2>2. (St \o <<>>) \o <<>> = St
    BY ONLY <1>2, <1>5
  <2> QED
    BY <2>1, <2>2
<1>7. phase = "body" => Wanted = St \o (H \o body) /\ H \o body \in Seq(Token) /\ St \o (H \o body) \in Seq(Token)
  <2>1. phase = "body" => Wanted = (St \o (H \o body)) \o <<>>
    BY DEF Wanted, St, H
  <2>2. H \o body \in Seq(Token)
    BY ONLY <1>4, <1>5
  <2>3. St \o (H \o body) \in Seq(Token)
    BY ONLY <1>2, <1>5, <2>2
  <2>4. (St \o (H \o body)) \o <<>> = St \o (H \o body)
    BY ONLY <1>5, <2>3
  <2> QED
    BY <2>1, <2>2, <2>3, <2>4
<1>8. CASE TarBegins
  <2>1. /\ phase = "begin" /\ phase' = "writing" /\ UNCHANGED <<options, entries, body, at>> /\ entries = <<>> /\ body = <<>>
        /\ pending = <<>> /\ filling = <<>> /\ queued = <<>> /\ out = <<>> /\ UNCHANGED <<pending, filling, queued, streaming, out>>
    BY <1>0, <1>8 DEF TarBegins, List, PhaseInv, ListInv, tarSink, world
  <2>2. PhaseInv'
    BY <1>0, <2>1 DEF PhaseInv
  <2>3. SinkInv' /\ Flow' = Flow
    BY <1>0, <1>4, <2>1, SinkKept DEF tarSink
  <2>4. Flow = <<>>
    <3>1. Flow = ((<<>> \o EndToEnd(<<>>)) \o <<>>) \o <<>>
      BY <2>1 DEF Flow
    <3>2. EndToEnd(<<>>) = <<>>
      BY DEF EndToEnd
    <3> QED
      BY ONLY <1>4, <1>5, <3>1, <3>2
  <2>5. Wanted' = (StreamOf(<<>>) \o <<>>) \o <<>>
    BY <2>1 DEF Wanted
  <2>6. (StreamOf(<<>>) \o <<>>) \o <<>> = <<>>
    BY ONLY <1>2, <1>4, <1>5
  <2> QED
    BY <2>2, <2>3, <2>4, <2>5, <2>6 DEF StreamInv
<1>9. ASSUME NEW e, TarEnters(e) PROVE PhaseInv' /\ SinkInv' /\ StreamInv'
  <2>1. /\ e \in TarEntry /\ pending' \in Seq(Token)
        /\ phase = "writing" => pending' = Part(at, e)
        /\ phase = "body" => /\ OfTar!Padding \in Seq(Token) /\ pending' = OfTar!Padding
                             /\ Part(at, e) = H \o (body \o OfTar!Padding)
    BY <1>0, <1>9, TarEntersEntry DEF H
  <2>2. /\ phase' = "writing" /\ pending = <<>> /\ UNCHANGED <<options, tarSink>>
        /\ entries' = Append(entries, e) \/ \E x : entries' = Append(entries, x)
        /\ body' = <<>> /\ phase \in {"writing", "body"}
    BY <1>9 DEF TarEnters, Finish, world, TarHard, TarOther, TarSparse, TarFile
  <2>3. entries' = Append(entries, e)
    BY <1>9 DEF TarEnters, Finish
  <2>4. SinkInv' /\ Flow' = Flow \o pending'
    BY <1>0, <2>1, <2>2, SinkKept
  <2>5. PhaseInv'
    BY <1>4, <2>2 DEF PhaseInv
  <2>6. Wanted' = StreamOf(entries')
    <3>1. Wanted' = (StreamOf(entries') \o <<>>) \o <<>>
      BY <2>2 DEF Wanted
    <3>2. StreamOf(entries') \in Seq(Token)
      <4>1. Append(entries, e) \in Seq(TarEntry)
        BY <1>2, <2>1
      <4> QED
        BY <2>1, <2>3, <4>1, StreamGrows
    <3> QED
      BY ONLY <1>5, <3>1, <3>2
  <2>7. StreamOf(entries') = St \o Part(at, e)
    BY <1>3, <2>1, <2>3
  <2>8. Flow \o pending' = St \o Part(at, e)
    <3>1. CASE phase = "writing"
      BY <1>0, <1>6, <2>1, <3>1 DEF StreamInv
    <3>2. CASE phase = "body"
      <4>1. Flow = St \o (H \o body)
        BY <1>0, <1>7, <3>2 DEF StreamInv
      <4> DEFINE P == OfTar!Padding
      <4>2. P \in Seq(Token) /\ pending' = P /\ Part(at, e) = H \o (body \o P)
        BY <2>1, <3>2
      <4> HIDE DEF P
      <4>3. (H \o body) \o P = H \o (body \o P)
        BY ONLY SMTT(40), <1>4, <1>5, <4>2
      <4>4. H \o body \in Seq(Token)
        BY <1>7, <3>2
      <4>5. (St \o (H \o body)) \o P = St \o ((H \o body) \o P)
        BY ONLY ZenonT(40), <1>2, <1>5, <4>2, <4>4
      <4> QED
        BY <4>1, <4>2, <4>3, <4>5
    <3> QED
      BY <2>2, <3>1, <3>2
  <2> QED
    BY <2>4, <2>5, <2>6, <2>7, <2>8 DEF StreamInv
<1>10. CASE TarStarts
  <2>1. /\ phase = "writing" /\ phase' = "body" /\ pending = <<>> /\ pending' = H /\ UNCHANGED <<options, tarSink>>
        /\ body = <<>> /\ UNCHANGED <<body, entries, at, sources, links>>
    BY <1>0, <1>10 DEF TarStarts, H, world, PhaseInv
  <2>2. SinkInv' /\ Flow' = Flow \o H
    BY <1>0, <1>4, <2>1, SinkKept
  <2>3. PhaseInv'
    <3>1. Copying'
      <4>1. at <= Len(sources) /\ Now.kind = "file" /\ at \notin DOMAIN links /\ ~Sparse(Now) /\ Now' = Now
        BY <1>10, <2>1 DEF TarStarts, Now
      <4>2. Now.path \in Paths /\ Now.size \in Nat
        BY <1>0, <4>1, NowFacts
      <4>3. Units(Now.path, 0, 0) = <<>> /\ Len(body) = 0
        BY <2>1, <4>2, UnitsFacts
      <4>4. Units(Now.path, 0, Len(body))' = <<>>
        <5>1. Units(Now'.path, 0, Len(body')) = <<>>
          BY <2>1, <4>1, <4>3
        <5> QED
          BY <5>1 DEF Units, Unit
      <4>5. ~Sparse(Now)'
        BY <2>1, <4>1 DEF Sparse
      <4> QED
        BY <2>1, <4>1, <4>2, <4>3, <4>4, <4>5 DEF Copying
    <3> QED
      BY <1>4, <2>1, <3>1 DEF PhaseInv
  <2>4. Wanted' = (St \o (H \o <<>>)) \o <<>>
    BY <2>1 DEF Wanted, St, H
  <2>5. Flow \o H = (St \o (H \o <<>>)) \o <<>>
    <3>1. Flow = St
      BY <1>0, <1>6, <2>1 DEF StreamInv
    <3>2. St \o H \in Seq(Token) /\ H \o <<>> = H
      BY ONLY <1>2, <1>4, <1>5
    <3>3. (St \o H) \o <<>> = St \o H
      BY ONLY <1>5, <3>2
    <3> QED
      BY <3>1, <3>2, <3>3
  <2> QED
    BY <2>2, <2>3, <2>4, <2>5 DEF StreamInv
<1>11. CASE TarCopies
  <2> DEFINE u == Unit(Now.path, Len(body))
  <2>1. /\ phase = "body" /\ phase' = "body" /\ pending = <<>> /\ pending' = <<u>> /\ UNCHANGED <<options, tarSink>>
        /\ Len(body) < Now.size /\ body' = Append(body, u) /\ UNCHANGED <<entries, at, sources, links>>
    BY <1>11 DEF TarCopies, world
  <2>2. Copying
    BY <1>0, <2>1 DEF PhaseInv
  <2>3. Now.path \in Paths /\ Now.size \in Nat /\ Len(body) \in Nat
    BY <1>0, <1>1, <1>4, <2>1, NowFacts
  <2>4. /\ u \in Token /\ Append(Units(Now.path, 0, Len(body)), u) = Units(Now.path, 0, Len(body) + 1)
    BY <2>3, UnitsFacts
  <2> HIDE DEF u
  <2>5. body' \in Seq(Token) /\ Len(body') = Len(body) + 1 /\ body' = Units(Now.path, 0, Len(body')) /\ <<u>> \in Seq(Token)
        /\ body' = body \o <<u>>
    <3>1. body' \in Seq(Token) /\ Len(body') = Len(body) + 1 /\ body' = body \o <<u>>
      BY <1>4, <2>1, <2>4, AppendProperties, AppendIsConcat
    <3>2. body' = Units(Now.path, 0, Len(body) + 1)
      <4>1. body = Units(Now.path, 0, Len(body))
        BY <2>2 DEF Copying
      <4> QED
        BY <2>1, <2>4, <4>1
    <3>3. <<u>> \in Seq(Token)
      BY <2>4
    <3> QED
      BY <3>1, <3>2, <3>3
  <2>6. PhaseInv'
    <3>1. Now' = Now
      BY <2>1 DEF Now
    <3>2. Units(Now.path, 0, Len(body))' = Units(Now.path, 0, Len(body'))
      BY <3>1 DEF Units, Unit
    <3>3. Sparse(Now)' <=> Sparse(Now)
      BY <2>1, <3>1 DEF Sparse
    <3>4. body' = Units(Now.path, 0, Len(body))'
      BY <2>5, <3>2
    <3>5. Len(body') <= Now.size
      BY <2>1, <2>3, <2>5
    <3>6. Copying'
      BY <2>1, <2>2, <3>1, <3>3, <3>4, <3>5 DEF Copying
    <3> QED
      BY <2>1, <2>5, <3>6 DEF PhaseInv
  <2>7. SinkInv' /\ Flow' = Flow \o <<u>>
    BY <1>0, <2>1, <2>5, SinkKept
  <2>8. Wanted' = (St \o (H \o (body \o <<u>>))) \o <<>>
    BY <2>1, <2>5 DEF Wanted, St, H
  <2>9. Flow \o <<u>> = (St \o (H \o (body \o <<u>>))) \o <<>>
    <3>1. PICK w : w = <<u>>
      OBVIOUS
    <3>2. w \in Seq(Token) /\ Flow = St \o (H \o body) /\ H \o body \in Seq(Token)
      BY <1>0, <1>7, <2>1, <2>5, <3>1 DEF StreamInv
    <3>3. (H \o body) \o w = H \o (body \o w)
      BY ONLY SMTT(40), <1>4, <1>5, <3>2
    <3>4. (St \o (H \o body)) \o w = St \o ((H \o body) \o w)
      BY ONLY ZenonT(80), <1>2, <1>5, <3>2
    <3>5. (H \o body) \o w \in Seq(Token)
      BY ONLY <1>5, <3>2
    <3>6. St \o ((H \o body) \o w) \in Seq(Token)
      BY ONLY <1>2, <1>5, <3>5
    <3>7. (St \o ((H \o body) \o w)) \o <<>> = St \o ((H \o body) \o w)
      BY ONLY <1>5, <3>6
    <3> QED
      BY ONLY <3>1, <3>2, <3>3, <3>4, <3>7
  <2> QED
    BY <2>6, <2>7, <2>8, <2>9 DEF StreamInv
<1>12. CASE TarPushes
  <2>1. UNCHANGED <<options, phase, at, body, entries, sources, links>> /\ phase \in {"writing", "body", "ending"}
    BY <1>12 DEF TarPushes, OfTar!Push, OfTar!svars, OfTar!world
  <2>2. SinkInv' /\ Flow' = Flow
    BY <1>0, <1>12, PushKeepsFlow DEF TarPushes
  <2>3. Wanted' = Wanted
    BY <2>1 DEF Wanted
  <2>4. PhaseInv'
    <3>1. Copying' <=> Copying
      BY <2>1 DEF Copying, Now, Sparse, Units, Unit
    <3> QED
      BY <1>0, <2>1, <3>1 DEF PhaseInv
  <2> QED
    BY <1>0, <2>1, <2>2, <2>3, <2>4 DEF StreamInv
<1>13. CASE TarEnds
  <2>1. /\ phase = "writing" /\ phase' = "ending" /\ pending = <<>> /\ UNCHANGED <<options, tarSink>>
        /\ body = <<>> /\ UNCHANGED <<body, entries, at>>
    BY <1>0, <1>13 DEF TarEnds, world, PhaseInv
  <2>2. PICK w : w = <<<<"end">>>>
    OBVIOUS
  <2>3. w \in Seq(Token) /\ pending' = w
    BY <1>13, <2>2 DEF Token, TarEnds
  <2>4. SinkInv' /\ Flow' = Flow \o w
    BY <1>0, <2>1, <2>3, SinkKept
  <2>5. PhaseInv'
    BY <1>4, <2>1 DEF PhaseInv
  <2>6. Wanted' = (St \o <<>>) \o w
    BY <2>1, <2>2 DEF Wanted, St
  <2>7. St \o <<>> = St
    BY ONLY <1>2, <1>5
  <2>8. Flow = St
    BY <1>0, <1>6, <2>1 DEF StreamInv
  <2> QED
    BY <2>4, <2>5, <2>6, <2>7, <2>8 DEF StreamInv
<1>14. CASE TarFinishes
  <2>1. /\ phase = "ending" /\ phase' = "done" /\ pending = <<>> /\ pending' = <<>> /\ filling' = <<>> /\ queued' = <<>>
        /\ out' = (out \o EndToEnd(queued)) \o filling /\ UNCHANGED <<options, body, entries, at, streaming>> /\ body = <<>>
    BY <1>0, <1>14 DEF TarFinishes, world, PhaseInv
  <2>2. out \in Seq(Token) /\ EndToEnd(queued) \in Seq(Token) /\ filling \in Seq(Token) /\ EndToEnd(<<>>) = <<>>
    BY <1>0, EndToEndFacts DEF SinkInv
  <2>3. out' \in Seq(Token)
    <3>1. out \o EndToEnd(queued) \in Seq(Token)
      BY ONLY <1>5, <2>2
    <3>2. (out \o EndToEnd(queued)) \o filling \in Seq(Token)
      BY ONLY <1>5, <2>2, <3>1
    <3> QED
      BY <2>1, <3>2
  <2>4. Flow = out' \o <<>>
    BY <2>1 DEF Flow
  <2>5. Flow' = ((out' \o <<>>) \o <<>>) \o <<>>
    BY <2>1, <2>2 DEF Flow
  <2>6. Flow' = Flow
    <3>1. out' \o <<>> = out'
      BY ONLY <1>5, <2>3
    <3> QED
      BY ONLY <2>4, <2>5, <3>1
  <2>7. Wanted' = Wanted
    BY <2>1 DEF Wanted
  <2>8. SinkInv'
    <3>1. Len(<<>>) = 0 /\ <<>> \in Seq(Token) /\ <<>> \in Seq(Seq(Token)) /\ Threads \in Nat \ {0} /\ Piece \in Nat \ {0} /\ Held \in Nat
      BY ThreadsAssumption, TarAssumption
    <3>2. streaming' \in BOOLEAN
      BY <1>0, <2>1 DEF SinkInv
    <3> QED
      BY <2>1, <2>3, <3>1, <3>2 DEF SinkInv, OfTar!HeldIsBounded
  <2>9. PhaseInv'
    BY <1>4, <2>1 DEF PhaseInv
  <2> QED
    BY <1>0, <2>1, <2>6, <2>7, <2>8, <2>9 DEF StreamInv
<1>15. CASE TarFails
  <2>1. phase' = "failed" /\ UNCHANGED <<options, body, pending, tarSink>>
    BY <1>15 DEF TarFails, world
  <2>2. SinkInv'
    BY <1>0, <1>4, <2>1, SinkKept
  <2> QED
    BY <1>0, <2>1, <2>2 DEF PhaseInv, StreamInv
<1>16. CASE TarChanges
  <2>1. UNCHANGED <<options, phase, at, body, entries, sources, links, pending, tarSink>> /\ phase \notin {"begin", "done", "failed"}
    BY <1>0, <1>16, ChangeFacts DEF TarChanges
  <2>2. SinkInv' /\ Flow' = Flow
    BY <1>0, <1>4, <2>1, SinkKept
  <2>3. Wanted' = Wanted
    BY <2>1 DEF Wanted
  <2>4. PhaseInv'
    <3>1. Copying' <=> Copying
      BY SMTT(40), <2>1 DEF Copying, Now, Sparse, Units, Unit
    <3> QED
      BY <1>0, <2>1, <3>1 DEF PhaseInv, tarSink
  <2> QED
    BY <1>0, <2>1, <2>2, <2>3, <2>4 DEF StreamInv
<1> QED
  BY <1>1, <1>8, <1>9, <1>10, <1>11, <1>12, <1>13, <1>14, <1>15, <1>16, TarSteps

(* Of the names of one file all but the first lead back to it.              *)
LEMMA LinksFound ==
  ASSUME IsWorld
  PROVE  /\ DOMAIN OfTar!FindHardLinks \subseteq DOMAIN Collected
         /\ \A k \in DOMAIN OfTar!FindHardLinks :
              /\ OfTar!FindHardLinks[k] \in Seq(Nat) /\ Collected[k].kind = "file"
              /\ \E j \in 1 .. k - 1 :
                   /\ j \notin DOMAIN OfTar!FindHardLinks /\ Collected[j].kind = "file"
                   /\ Collected[j].name = OfTar!FindHardLinks[k]
                   /\ disk[Collected[j].path].id = disk[Collected[k].path].id
<1> DEFINE Has(k) == /\ Collected[k].kind = "file" /\ disk[Collected[k].path].kind = "file"
                     /\ disk[Collected[k].path].id # 0
           Same(j, k) == disk[Collected[j].path].id = disk[Collected[k].path].id
           Ns(k) == {j \in DOMAIN Collected : Has(j) /\ Has(k) /\ Same(j, k)}
           F == OfTar!FindHardLinks
<1>1. F = [k \in {k \in DOMAIN Collected : Has(k) /\ k # Min(Ns(k))} |-> Collected[Min(Ns(k))].name]
  <2>1. OfTar!Collected = Collected
    BY OfTarSources
  <2>2. \A k : OfTar!Names(k) = Ns(k)
    BY <2>1 DEF OfTar!Names, OfTar!HasNames, OfTar!SameFile
  <2>3. \A k : OfTar!HasNames(k) <=> Has(k)
    BY <2>1 DEF OfTar!HasNames
  <2>4. \A S : OfTar!Min(S) = Min(S)
    BY DEF OfTar!Min, Min
  <2>5. F = [k \in {k \in DOMAIN Collected : OfTar!HasNames(k) /\ k # Min(OfTar!Names(k))} |->
              Collected[Min(OfTar!Names(k))].name]
    BY <2>1, <2>4 DEF OfTar!FindHardLinks
  <2> HIDE DEF Has, Ns, F
  <2>6. {k \in DOMAIN Collected : OfTar!HasNames(k) /\ k # Min(OfTar!Names(k))}
          = {k \in DOMAIN Collected : Has(k) /\ k # Min(Ns(k))}
    BY <2>2, <2>3
  <2> QED
    BY <2>2, <2>5, <2>6
<1>2. Collected \in Seq(SourceRecord) /\ \A k \in DOMAIN Collected : k \in Nat \ {0} /\ Collected[k] \in SourceRecord
  BY SMTT(40), CollectedIsList
<1>3. ASSUME NEW k \in DOMAIN Collected, Has(k)
      PROVE  /\ Min(Ns(k)) \in Ns(k) /\ Min(Ns(k)) <= k
             /\ Ns(Min(Ns(k))) = Ns(k)
  <2>1. Ns(k) \in SUBSET Nat /\ k \in Ns(k)
    BY <1>2, <1>3
  <2>2. Min(Ns(k)) \in Ns(k) /\ Min(Ns(k)) <= k
    <3> HIDE DEF Ns
    <3> QED
      BY <2>1, MinFacts
  <2>3. \A j \in Ns(k) : Ns(j) = Ns(k)
    BY SMTT(40)
  <2> QED
    BY <2>2, <2>3
<1>4. DOMAIN F = {k \in DOMAIN Collected : Has(k) /\ k # Min(Ns(k))} /\ \A k \in DOMAIN F : F[k] = Collected[Min(Ns(k))].name
  BY <1>1
<1> HIDE DEF F
<1>5. ASSUME NEW k \in DOMAIN F
      PROVE  /\ F[k] \in Seq(Nat) /\ Collected[k].kind = "file"
             /\ \E j \in 1 .. k - 1 :
                  /\ j \notin DOMAIN F /\ Collected[j].kind = "file" /\ Collected[j].name = F[k]
                  /\ disk[Collected[j].path].id = disk[Collected[k].path].id
  <2>1. k \in DOMAIN Collected /\ Has(k) /\ k # Min(Ns(k)) /\ F[k] = Collected[Min(Ns(k))].name
    BY <1>4, <1>5
  <2>2. PICK j : j = Min(Ns(k))
    OBVIOUS
  <2>3. j \in Ns(k) /\ j <= k /\ Ns(j) = Ns(k) /\ j # k /\ F[k] = Collected[j].name
    <3>1. Min(Ns(k)) \in Ns(k) /\ Min(Ns(k)) <= k /\ Ns(Min(Ns(k))) = Ns(k)
      BY <1>3, <2>1
    <3> HIDE DEF Ns
    <3> QED
      BY SMTT(40), <2>1, <2>2, <3>1
  <2>4. j \in DOMAIN Collected /\ Has(j) /\ Same(j, k)
    BY <2>3
  <2>5. j \in 1 .. k - 1
    <3>1. j \in Nat \ {0} /\ k \in Nat \ {0}
      BY <1>2, <2>1, <2>4
    <3> QED
      BY SMTT(40), <2>3, <3>1
  <2>6. j \notin DOMAIN F
    <3>1. j = Min(Ns(j))
      <4> HIDE DEF Ns
      <4> QED
        BY <2>2, <2>3
    <3> HIDE DEF Ns
    <3> QED
      BY <1>4, <3>1
  <2>7. Collected[j].name \in Seq(Nat)
    BY <1>2, <2>4 DEF SourceRecord
  <2> QED
    BY SMTT(40), <2>1, <2>3, <2>4, <2>5, <2>6, <2>7
<1> QED
  BY <1>4, <1>5 DEF F

(* The links are kept as they were found, and the entries follow them.      *)
LEMMA TarKeepsLinks ==
  ASSUME TarInv, OfTar!Next
  PROVE  LinkInv'
<1>0. ListInv(TarEntry) /\ PhaseInv /\ LinkInv
  BY DEF TarInv
<1>1. phase = "body" => Copying
  BY <1>0 DEF PhaseInv
<1>2. /\ sources \in Seq(SourceRecord) /\ DOMAIN sources = 1 .. Len(sources) /\ Len(sources) \in Nat
      /\ \A k \in DOMAIN sources : sources[k].path \in Paths
      /\ Len(entries) = at - 1 /\ at \in 1 .. Len(sources) + 1 /\ entries \in Seq(TarEntry)
  <2>1. sources \in Seq(SourceRecord) /\ at \in 1 .. Len(sources) + 1 /\ entries \in Seq(TarEntry) /\ Len(entries) = at - 1
    BY <1>0 DEF ListInv
  <2>2. \A k \in DOMAIN sources : sources[k] \in SourceRecord
    BY <2>1
  <2>3. \A k \in DOMAIN sources : sources[k].path \in Paths
    BY <2>2 DEF SourceRecord
  <2> QED
    BY <2>1, <2>3
<1>3. /\ DOMAIN links \subseteq DOMAIN sources
      /\ \A k \in DOMAIN links : links[k] \in Seq(Nat) /\ sources[k].kind = "file" /\ PointsBack(k)
      /\ \A k \in 1 .. Len(entries) : /\ entries[k].kind = "hard" <=> k \in DOMAIN links
                                      /\ entries[k].kind = "hard" => entries[k].to = links[k]
  BY <1>0 DEF LinkInv
<1>4. ASSUME UNCHANGED <<sources, links>>, \A p \in Paths : disk'[p].id = disk[p].id
      PROVE  \A k \in DOMAIN links : PointsBack(k)'
  <2> SUFFICES ASSUME NEW k \in DOMAIN links PROVE PointsBack(k)'
    OBVIOUS
  <2>1. PICK j \in 1 .. k - 1 : /\ j \notin DOMAIN links /\ sources[j].kind = "file" /\ sources[j].name = links[k]
                                /\ disk[sources[j].path].id = disk[sources[k].path].id
    BY <1>3 DEF PointsBack
  <2>2. k \in DOMAIN sources /\ j \in DOMAIN sources
    BY <1>2, <1>3
  <2>3. disk'[sources[j].path].id = disk'[sources[k].path].id
    BY <1>2, <1>4, <2>1, <2>2
  <2> QED
    BY <1>4, <2>1, <2>3 DEF PointsBack
<1>5. CASE TarBegins
  <2>1. /\ links' = OfTar!FindHardLinks /\ sources' = Collected /\ disk' = disk /\ entries' = entries /\ phase = "begin"
    BY <1>5 DEF TarBegins, List
  <2>2. entries = <<>> /\ IsWorld
    BY <1>0, <2>1 DEF ListInv
  <2>3. \A k \in DOMAIN links' : links'[k] \in Seq(Nat) /\ sources'[k].kind = "file" /\ PointsBack(k)'
    BY <2>1, <2>2, LinksFound DEF PointsBack
  <2>4. DOMAIN links' \subseteq DOMAIN sources'
    BY <2>1, <2>2, LinksFound
  <2> QED
    BY <2>1, <2>2, <2>3, <2>4 DEF LinkInv
<1>6. ASSUME NEW e, TarEnters(e) PROVE LinkInv'
  <2>1. UNCHANGED <<sources, links, disk>> /\ entries' = Append(entries, e) /\ at <= Len(sources)
    BY <1>6 DEF TarEnters, Finish
  <2>2. e \in TarEntry
    BY <1>0, <1>6, TarEntersEntry
  <2>3. (e.kind = "hard" <=> at \in DOMAIN links) /\ (e.kind = "hard" => e.to = links[at])
    <3>1. CASE TarHard(e)
      BY <3>1 DEF TarHard
    <3>2. CASE TarOther(e)
      <4>1. e.kind \in {"dir", "link"} /\ e.kind = sources[at].kind
        BY <3>2 DEF TarOther, Entry, Now
      <4> QED
        BY <1>3, <4>1
    <3>3. CASE TarSparse(e)
      BY <3>3 DEF TarSparse, Entry
    <3>4. CASE TarFile(e)
      <4>1. e.kind = "file" /\ phase = "body"
        BY <3>4 DEF TarFile, Entry
      <4> QED
        BY <1>1, <4>1 DEF Copying
    <3> QED
      BY <1>6, <3>1, <3>2, <3>3, <3>4 DEF TarEnters
  <2>4. \A k \in 1 .. Len(entries') : /\ entries'[k].kind = "hard" <=> k \in DOMAIN links
                                      /\ entries'[k].kind = "hard" => entries'[k].to = links[k]
    <3> SUFFICES ASSUME NEW k \in 1 .. Len(entries')
                 PROVE  /\ entries'[k].kind = "hard" <=> k \in DOMAIN links
                        /\ entries'[k].kind = "hard" => entries'[k].to = links[k]
      OBVIOUS
    <3>1. CASE k = at
      <4>1. entries'[k] = e
        BY <1>2, <2>1, <2>2, <3>1
      <4> QED
        BY <2>3, <3>1, <4>1
    <3>2. CASE k # at
      <4>1. k \in 1 .. Len(entries) /\ entries'[k] = entries[k]
        BY <1>2, <2>1, <2>2, <3>2
      <4> QED
        BY <1>3, <4>1
    <3> QED
      BY <3>1, <3>2
  <2>5. \A k \in DOMAIN links : PointsBack(k)'
    BY <1>4, <2>1
  <2> QED
    BY <1>3, <2>1, <2>4, <2>5 DEF LinkInv
<1>7. ASSUME UNCHANGED <<sources, links, entries>>, \A p \in Paths : disk'[p].id = disk[p].id PROVE LinkInv'
  <2>1. \A k \in DOMAIN links : PointsBack(k)'
    BY <1>4, <1>7
  <2> QED
    BY <1>3, <1>7, <2>1 DEF LinkInv
<1>8. CASE TarStarts \/ TarCopies \/ TarEnds \/ TarFinishes \/ TarFails
  BY <1>7, <1>8 DEF TarStarts, TarCopies, TarEnds, TarFinishes, TarFails
<1>9. CASE TarPushes
  BY <1>7, <1>9 DEF TarPushes, OfTar!Push, OfTar!svars
<1>10. CASE TarChanges
  BY <1>0, <1>7, <1>10, ChangeFacts DEF TarChanges
<1> QED
  BY <1>1, <1>5, <1>6, <1>8, <1>9, <1>10, TarSteps DEF Copying

(* What an entry holds of its file stays true of it while others change     *)
(* the files.                                                               *)
LEMMA TarKeepsContents ==
  ASSUME TarInv, OfTar!Next
  PROVE  HoldsInv'
<1>0. ListInv(TarEntry) /\ PhaseInv /\ LinkInv /\ HoldsInv
  BY DEF TarInv
<1>1. phase = "body" => Copying
  BY <1>0 DEF PhaseInv
<1>2. Len(entries) = at - 1 /\ at \in 1 .. Len(sources) + 1 /\ entries \in Seq(TarEntry)
  BY <1>0 DEF ListInv
<1>3. ASSUME options' = options, changed \subseteq changed', NEW e, NEW s, OfTar!Holds(e, s) PROVE OfTar!Holds(e, s)'
  BY <1>3 DEF OfTar!Holds, OfTar!Units, OfTar!Unit, OfTar!Zeros, OfTar!Zero
<1>4. ASSUME UNCHANGED <<options, sources, entries>>, changed \subseteq changed' PROVE HoldsInv'
  <2> SUFFICES ASSUME NEW k \in 1 .. Len(entries), entries[k].kind = "file" PROVE OfTar!Holds(entries[k], sources[k])'
    BY <1>4 DEF HoldsInv
  <2>1. PICK e, s : e = entries[k] /\ s = sources[k]
    OBVIOUS
  <2>2. OfTar!Holds(e, s)
    BY <1>0, <2>1 DEF HoldsInv
  <2>3. OfTar!Holds(e, s)'
    BY <1>3, <1>4, <2>2
  <2>4. e = entries'[k] /\ s = sources'[k]
    BY <1>4, <2>1
  <2> QED
    BY <2>3, <2>4 DEF OfTar!Holds, OfTar!Units, OfTar!Unit, OfTar!Zeros, OfTar!Zero
<1>5. ASSUME NEW e, TarEnters(e) PROVE HoldsInv'
  <2>1. UNCHANGED <<sources, disk, changed, options>> /\ entries' = Append(entries, e) /\ at <= Len(sources)
    BY <1>5 DEF TarEnters, Finish, world
  <2>2. e \in TarEntry
    BY <1>0, <1>5, TarEntersEntry
  <2>3. /\ Now.path \in Paths /\ Now.size \in Nat /\ disk[Now.path].len \in Nat
        /\ Now.kind = "file" /\ Now.path \notin changed => Now.size = disk[Now.path].len
    BY <1>0, <2>1, NowFacts
  <2>4. ASSUME e.kind = "file" PROVE OfTar!Holds(e, Now)
    <3>1. \A p, a, b : OfTar!Units(p, a, b) = Units(p, a, b)
      BY SMTT(40), OfTarSources
    <3>2. CASE TarSparse(e)
      <4> DEFINE n == disk[Now.path].len
                 d == Units(Now.path, 0, n)
      <4>1. e.body = d /\ Sparse(Now) /\ Now.kind = "file"
        BY <3>2 DEF TarSparse, Entry
      <4>2. d \in Seq(Token) /\ Len(d) = n
        BY <2>3, UnitsFacts
      <4>3. OfTar!Zeros(0) = <<>> /\ n - n = 0
        BY <2>3, ZerosFacts
      <4>4. d \o OfTar!Zeros(n - n) = d
        BY SMTT(40), <4>2, <4>3, Concats
      <4> HIDE DEF d
      <4>5. n \in 0 .. Len(e.body) /\ e.body = Units(Now.path, 0, n) \o OfTar!Zeros(Len(e.body) - n)
        BY <2>3, <4>1, <4>2, <4>4 DEF d
      <4>6. Now.path \notin changed => Len(e.body) = Now.size
        BY <2>3, <4>1, <4>2
      <4> QED
        BY <3>1, <4>1, <4>2, <4>5, <4>6 DEF OfTar!Holds, Sparse
    <3>3. CASE TarFile(e)
      <4> DEFINE n == Len(body)
                 z == Now.size - n
      <4>1. /\ phase = "body" /\ e.body = body \o OfTar!Padding
            /\ n = Now.size \/ n >= disk[Now.path].len
        BY <3>3 DEF TarFile, Entry
      <4>2. /\ n <= Now.size /\ body = Units(Now.path, 0, n) /\ ~Sparse(Now) /\ n \in Nat /\ z \in Nat /\ body \in Seq(Token)
            /\ Now.kind = "file"
        <5>1. body \in Seq(Token) /\ n \in Nat
          BY <1>0 DEF PhaseInv
        <5> QED
          BY <1>1, <2>3, <4>1, <5>1 DEF Copying
      <4>3. OfTar!Padding = OfTar!Zeros(z)
        BY OfTarSources DEF OfTar!Padding
      <4>4. OfTar!Zeros(z) \in Seq(Token) /\ Len(OfTar!Zeros(z)) = z
        BY <4>2, ZerosFacts
      <4>5. Len(e.body) = Now.size
        <5>1. Len(body \o OfTar!Zeros(z)) = n + z
          <6>1. \A u, w \in Seq(Token) : Len(u \o w) = Len(u) + Len(w)
            BY Concats
          <6> QED
            BY <4>2, <4>4, <6>1
        <5> QED
          BY <2>3, <4>1, <4>2, <4>3, <5>1
      <4>6. e.body = Units(Now.path, 0, n) \o OfTar!Zeros(Len(e.body) - n) /\ n \in 0 .. Len(e.body)
        BY SMTT(40), <2>3, <4>1, <4>2, <4>3, <4>5
      <4>7. Now.path \notin changed => n = Len(e.body)
        BY <2>3, <4>1, <4>2, <4>5
      <4> HIDE DEF n, z
      <4> QED
        BY <3>1, <4>2, <4>5, <4>6, <4>7 DEF OfTar!Holds
    <3>4. ~TarHard(e) /\ ~TarOther(e)
      BY <2>4 DEF TarHard, TarOther, Entry
    <3> QED
      BY <1>5, <3>2, <3>3, <3>4 DEF TarEnters
  <2> SUFFICES ASSUME NEW k \in 1 .. Len(entries'), entries'[k].kind = "file" PROVE OfTar!Holds(entries[k], sources[k])'
    BY DEF HoldsInv
  <2>5. PICK x, s : x = entries'[k] /\ s = sources[k]
    OBVIOUS
  <2>6. OfTar!Holds(x, s)
    <3>1. CASE k = at
      <4>1. entries'[k] = e
        BY <1>2, <2>1, <2>2, <3>1
      <4> QED
        BY <2>4, <2>5, <3>1, <4>1 DEF Now
    <3>2. CASE k # at
      <4>1. k \in 1 .. Len(entries) /\ entries'[k] = entries[k]
        BY <1>2, <2>1, <2>2, <3>2
      <4> QED
        BY <1>0, <2>5, <4>1 DEF HoldsInv
    <3> QED
      BY <3>1, <3>2
  <2>7. OfTar!Holds(x, s)'
    BY <1>3, <2>1, <2>6
  <2>8. x = entries'[k] /\ s = sources'[k]
    BY <2>1, <2>5
  <2> QED
    BY <2>7, <2>8 DEF OfTar!Holds, OfTar!Units, OfTar!Unit, OfTar!Zeros, OfTar!Zero
<1>6. CASE TarBegins
  <2>1. entries' = <<>>
    BY <1>0, <1>6 DEF TarBegins, List, ListInv
  <2> QED
    BY <2>1 DEF HoldsInv
<1>7. CASE TarStarts \/ TarCopies \/ TarEnds \/ TarFinishes \/ TarFails
  BY <1>4, <1>7 DEF TarStarts, TarCopies, TarEnds, TarFinishes, TarFails, world
<1>8. CASE TarPushes
  BY <1>4, <1>8 DEF TarPushes, OfTar!Push, OfTar!svars, OfTar!world
<1>9. CASE TarChanges
  BY <1>0, <1>4, <1>9, ChangeFacts DEF TarChanges
<1> QED
  BY <1>1, <1>5, <1>6, <1>7, <1>8, <1>9, TarSteps DEF Copying

(* The start of any format is one of Sources.                               *)
LEMMA Starts ==
  /\ (OfTar!SInit => SInit) /\ (OfZip!SInit => SInit) /\ (OfSevenZ!SInit => SInit)
  /\ SInit => \A E : ListInv(E)
<1>1. OfTar!SInit => SInit
  BY DEF OfTar!SInit, OfTar!Empty, SInit, Empty, Of
<1>2. OfZip!SInit => SInit
  BY DEF OfZip!SInit, OfZip!Empty, SInit, Empty, Of
<1>3. OfSevenZ!SInit => SInit
  BY DEF OfSevenZ!SInit, OfSevenZ!Empty, SInit, Empty, Of
<1>4. ASSUME SInit, NEW E PROVE ListInv(E)
  <2>1. /\ sources = <<>> /\ at = 1 /\ entries = <<>> /\ body = <<>> /\ changed = {}
        /\ \E i \in Inputs : disk \in i.worlds /\ inputs \in i.inputs
    BY <1>4 DEF SInit
  <2>2. IsWorld
    BY <2>1, InputsAssumption DEF IsWorld
  <2> QED
    BY <2>1, <2>2 DEF ListInv, InNameOrder, SizesHold
<1> QED
  BY <1>1, <1>2, <1>3, <1>4

(* A tar starts as the invariant says.                                      *)
LEMMA TarStartsSo ==
  ASSUME OfTar!Init
  PROVE  TarInv
<1>1. /\ links = <<>> /\ pending = <<>> /\ filling = <<>> /\ queued = <<>> /\ streaming = FALSE /\ out = <<>>
      /\ SInit
  BY Starts DEF OfTar!Init
<1>2. ListInv(TarEntry) /\ phase = "begin" /\ entries = <<>> /\ body = <<>>
  BY <1>1, Starts DEF SInit
<1>3. SinkInv
  <2>1. Len(<<>>) = 0 /\ Threads \in Nat \ {0} /\ Piece \in Nat \ {0} /\ Held \in Nat
    BY ThreadsAssumption, TarAssumption
  <2>2. OfTar!HeldIsBounded
    BY <1>1, <2>1 DEF OfTar!HeldIsBounded
  <2>3. <<>> \in Seq(Token) /\ <<>> \in Seq(Seq(Token))
    OBVIOUS
  <2> QED
    BY <1>1, <2>2, <2>3 DEF SinkInv
<1>4. PhaseInv /\ LinkInv /\ StreamInv /\ HoldsInv
  BY <1>1, <1>2 DEF PhaseInv, LinkInv, StreamInv, HoldsInv
<1> QED
  BY <1>2, <1>3, <1>4 DEF TarInv

(* What the invariant says of a tar: what its module promises.              *)
LEMMA TarPromises ==
  ASSUME TarInv
  PROVE  /\ OfTar!TypeOK /\ OfTar!HeldIsBounded /\ OfTar!StreamIsWhole /\ OfTar!HardLinksNameTheFile
         /\ \A k \in DOMAIN entries : entries[k].kind = "file" => OfTar!Holds(entries[k], sources[k])
<1>0. /\ ListInv(TarEntry) /\ SinkInv /\ PhaseInv /\ LinkInv /\ StreamInv /\ HoldsInv
      /\ entries \in Seq(TarEntry) /\ DOMAIN entries = 1 .. Len(entries)
  <2>1. ListInv(TarEntry) /\ SinkInv /\ PhaseInv /\ LinkInv /\ StreamInv /\ HoldsInv
    BY DEF TarInv
  <2>2. entries \in Seq(TarEntry)
    BY <2>1 DEF ListInv
  <2> QED
    BY <2>1, <2>2
<1>1. OfTar!TypeOK /\ OfTar!HeldIsBounded
  BY <1>0 DEF OfTar!TypeOK, PhaseInv, LinkInv, SinkInv
<1>2. OfTar!StreamIsWhole
  <2> DEFINE flow == ((out \o OfTar!FlattenSeq(queued)) \o filling) \o pending
             whole == (OfTar!FlattenSeq(OfTar!InStream) \o OfTar!Begun)
                        \o (IF phase \in {"ending", "done"} THEN <<OfTar!End>> ELSE <<>>)
  <2>1. flow = Flow
    <3>1. OfTar!FlattenSeq(queued) = EndToEnd(queued)
      BY DEF OfTar!FlattenSeq, EndToEnd, Flatten
    <3> QED
      BY <3>1 DEF Flow
  <2>2. whole = Wanted
    <3>1. OfTar!InStream = [k \in DOMAIN entries |-> Part(k, entries[k])]
      BY DEF OfTar!InStream, OfTar!HeaderOf, Part, Head1
    <3>2. OfTar!FlattenSeq(OfTar!InStream) = StreamOf(entries)
      BY <3>1 DEF OfTar!FlattenSeq, StreamOf, EndToEnd, Flatten
    <3>3. OfTar!Begun = (IF phase = "body" THEN Head1(at) \o body ELSE <<>>) /\ OfTar!End = <<"end">>
      BY DEF OfTar!Begun, OfTar!HeaderOf, OfTar!End, Head1
    <3> QED
      BY <3>2, <3>3 DEF Wanted
  <2>3. phase = "done" => Flow = out
    <3>1. phase = "done" => Flow = ((out \o <<>>) \o <<>>) \o <<>>
      BY <1>0 DEF Flow, PhaseInv, EndToEnd
    <3>2. out \in Seq(Token)
      BY <1>0 DEF SinkInv
    <3>3. out \o <<>> = out
      BY <3>2, Concats
    <3> QED
      BY <3>1, <3>3
  <2> HIDE DEF flow, whole
  <2>4. (phase \notin {"begin", "failed"} => flow = whole) /\ (phase = "done" => out = whole)
    BY <1>0, <2>1, <2>2, <2>3 DEF StreamInv
  <2> QED
    BY <2>4 DEF OfTar!StreamIsWhole, flow, whole
<1>3. OfTar!HardLinksNameTheFile
  <2> SUFFICES ASSUME NEW k \in DOMAIN entries, entries[k].kind = "hard"
               PROVE  \E j \in 1 .. k - 1 : /\ entries[j].kind = "file" /\ entries[j].name = entries[k].to
                                            /\ disk[sources[j].path].id = disk[sources[k].path].id
    BY DEF OfTar!HardLinksNameTheFile
  <2>1. k \in 1 .. Len(entries) /\ k \in DOMAIN links /\ entries[k].to = links[k] /\ PointsBack(k)
    BY <1>0 DEF LinkInv
  <2>2. PICK j \in 1 .. k - 1 : /\ j \notin DOMAIN links /\ sources[j].kind = "file" /\ sources[j].name = links[k]
                                /\ disk[sources[j].path].id = disk[sources[k].path].id
    BY <2>1 DEF PointsBack
  <2>3. j \in 1 .. Len(entries)
    BY <1>0, <2>1
  <2>4. entries[j].kind # "hard" /\ Answers(entries[j], sources[j])
    BY <1>0, <2>2, <2>3 DEF LinkInv, ListInv
  <2>5. entries[j].kind = "file" /\ entries[j].name = entries[k].to
    BY <2>1, <2>2, <2>4 DEF Answers
  <2> QED
    BY <2>2, <2>5
<1>4. \A k \in DOMAIN entries : entries[k].kind = "file" => OfTar!Holds(entries[k], sources[k])
  BY <1>0 DEF HoldsInv
<1> QED
  BY <1>1, <1>2, <1>3, <1>4

(* Every step of the specification keeps it.                                *)
LEMMA TarInductive == Spec => [](format = "tar" => TarInv)
<1>1. Init => (format = "tar" => TarInv)
  BY TarStartsSo DEF Init
<1>2. (format = "tar" => TarInv) /\ [Next]_vars => (format = "tar" => TarInv)'
  <2> SUFFICES ASSUME format = "tar" => TarInv, [Next]_vars, format' = "tar" PROVE TarInv'
    OBVIOUS
  <2>1. CASE UNCHANGED vars
    <3>1. format = "tar" /\ TarInv
      BY <2>1 DEF vars
    <3>2. UNCHANGED <<svars, links, pending, filling, queued, streaming, out>>
      BY <2>1 DEF vars, tarOnly
    <3> USE <2>1, <3>1, <3>2 DEF TarInv, svars, world, report
    <3>3. ListInv(TarEntry)'
      BY DEF ListInv, IsWorld, InNameOrder, SizesHold
    <3>4. SinkInv'
      BY DEF SinkInv, OfTar!HeldIsBounded
    <3>5. PhaseInv'
      BY DEF PhaseInv, Copying, Now, Sparse, Units, Unit
    <3>6. LinkInv'
      BY DEF LinkInv, PointsBack
    <3>7. StreamInv'
      BY DEF StreamInv, Flow, Wanted
    <3>8. HoldsInv'
      BY ZenonT(40) DEF HoldsInv, OfTar!Holds, OfTar!Units, OfTar!Unit, OfTar!Zeros, OfTar!Zero
    <3> QED
      BY <3>3, <3>4, <3>5, <3>6, <3>7, <3>8
  <2>2. CASE Next
    <3>1. format = "tar" /\ OfTar!Next /\ TarInv
      BY <2>2 DEF Next
    <3> QED
      BY <3>1, TarKeepsList, TarKeepsStream, TarKeepsLinks, TarKeepsContents DEF TarInv
  <2> QED
    BY <2>1, <2>2
<1> QED
  BY <1>1, <1>2, PTL DEF Spec

(* However a tar is cut into pieces or held back, what has reached the file,*)
(* what the sink keeps and what is on its way are its entries in order, and *)
(* a finished file is all of them.                                          *)
THEOREM StreamArrivesWhole == Spec => []StreamIsWhole
<1>1. (format = "tar" => TarInv) => StreamIsWhole
  BY TarPromises DEF StreamIsWhole
<1> QED
  BY <1>1, TarInductive, PTL

(* A hard link of a tar is to an earlier entry that holds the contents of   *)
(* the same file, whatever others do to the files in the meantime.          *)
THEOREM HardLinksLeadBack == Spec => []HardLinksNameTheFile
<1>1. (format = "tar" => TarInv) => HardLinksNameTheFile
  BY TarPromises DEF HardLinksNameTheFile
<1> QED
  BY <1>1, TarInductive, PTL

-----------------------------------------------------------------------------
(* 7z: one folder.                                                          *)
SevenZEntry == [kind : {"dir", "link", "file"}, name : Seq(Nat), stream : BOOLEAN]
Folder == [data : Seq(Token), unpack : Nat, sizes : Seq(Nat)]

Before(f, k) == SumFunction(SubSeq(f.sizes, 1, k - 1))
CutUp(f) == [k \in DOMAIN f.sizes |-> SubSeq(f.data, Before(f, k) + 1, Before(f, k) + f.sizes[k])]

(* What was counted and, after it, the part b that was not yet.             *)
Sound(f, b) ==
  /\ f \in Folder /\ f.unpack = SumFunction(f.sizes)
  /\ f.sizes # <<>> => SumFunction(Front(f.sizes)) < Block
  /\ \E d \in Seq(Token) : f.data = d \o b /\ Len(d) = f.unpack

(* The folds of SevenZCreate are those sums.                                *)
LEMMA CutsAreSums ==
  /\ \A s : OfSevenZ!FoldSeq(+, 0, s) = SumFunction(s)
  /\ \A f : OfSevenZ!Cut(f) = CutUp(f)
<1>1. \A s : OfSevenZ!FoldSeq(+, 0, s) = SumFunction(s)
  BY DEF OfSevenZ!FoldSeq, OfSevenZ!FoldFunction, OfSevenZ!FoldFunctionOnSet, OfSevenZ!MapThenFoldSet,
         SumFunction, SumFunctionOnSet, FoldFunctionOnSet, MapThenFoldSet
<1> QED
  BY <1>1 DEF OfSevenZ!Cut, CutUp, Before

(* A part of the beginning of a sequence is the same when more follows.     *)
LEMMA SameBeginning ==
  ASSUME NEW B, NEW s \in Seq(B), NEW t \in Seq(B), NEW a \in Nat, NEW b \in Nat, b <= Len(s)
  PROVE  SubSeq(s \o t, a + 1, b) = SubSeq(s, a + 1, b)
<1>1. s \o t \in Seq(B) /\ Len(s \o t) = Len(s) + Len(t) /\ \A k \in 1 .. Len(s) : (s \o t)[k] = s[k]
  BY ConcatFacts
<1> DEFINE u == s \o t
<1>2. u \in Seq(B) /\ Len(u) \in Nat /\ Len(s) \in Nat /\ Len(s) <= Len(u) /\ \A k \in 1 .. Len(s) : u[k] = s[k]
  BY <1>1
<1> HIDE DEF u
<1>3. SubSeq(u, a + 1, b) = SubSeq(s, a + 1, b)
  <2>1. SubSeq(u, a + 1, b) \in Seq(B) /\ SubSeq(s, a + 1, b) \in Seq(B)
    BY <1>2
  <2>2. Len(SubSeq(u, a + 1, b)) = Len(SubSeq(s, a + 1, b))
    BY <1>2
  <2>3. \A k \in 1 .. Len(SubSeq(u, a + 1, b)) : SubSeq(u, a + 1, b)[k] = SubSeq(s, a + 1, b)[k]
    BY <1>2
  <2> QED
    BY ONLY <2>1, <2>2, <2>3, SameSequence
<1> QED
  BY <1>3 DEF u

(* The end of a sequence is what was put there.                             *)
LEMMA SameEnd ==
  ASSUME NEW B, NEW s \in Seq(B), NEW t \in Seq(B)
  PROVE  SubSeq(s \o t, Len(s) + 1, Len(s) + Len(t)) = t
<1> DEFINE u == s \o t
<1>1. /\ u \in Seq(B) /\ Len(u) = Len(s) + Len(t) /\ Len(s) \in Nat /\ Len(t) \in Nat
      /\ \A k \in 1 .. Len(t) : u[Len(s) + k] = t[k]
  BY ConcatFacts
<1> HIDE DEF u
<1> DEFINE w == SubSeq(u, Len(s) + 1, Len(s) + Len(t))
<1>2. w \in Seq(B) /\ Len(w) = Len(t) /\ \A k \in 1 .. Len(t) : w[k] = u[Len(s) + k]
  BY <1>1
<1> HIDE DEF w
<1>3. \A k \in 1 .. Len(w) : w[k] = t[k]
  BY <1>1, <1>2
<1>4. w = t
  BY ONLY <1>2, <1>3, SameSequence
<1> QED
  BY <1>4 DEF w, u

(* What a sound folder is cut into.                                         *)
LEMMA CutFacts ==
  ASSUME NEW b \in Seq(Token), NEW f, Sound(f, b)
  PROVE  /\ CutUp(f) \in Seq(Seq(Token)) /\ Len(CutUp(f)) = Len(f.sizes)
         /\ DOMAIN f.sizes = 1 .. Len(f.sizes) /\ Len(f.sizes) \in Nat
         /\ \A k \in DOMAIN f.sizes : /\ Before(f, k) \in Nat /\ f.sizes[k] \in Nat
                                      /\ Before(f, k) + f.sizes[k] \in Nat
                                      /\ Before(f, k) + f.sizes[k] <= f.unpack
<1>1. f.data \in Seq(Token) /\ f.unpack \in Nat /\ f.sizes \in Seq(Nat) /\ f.unpack = SumFunction(f.sizes)
  BY DEF Sound, Folder
<1>2. DOMAIN f.sizes = 1 .. Len(f.sizes) /\ Len(f.sizes) \in Nat
  BY <1>1
<1>3. ASSUME NEW k \in DOMAIN f.sizes
      PROVE  /\ Before(f, k) \in Nat /\ f.sizes[k] \in Nat /\ Before(f, k) + f.sizes[k] <= f.unpack
             /\ Before(f, k) + f.sizes[k] \in Nat
  <2>1. SumFunction(SubSeq(f.sizes, 1, k - 1)) \in Nat /\ SumFunction(SubSeq(f.sizes, 1, k - 1)) + f.sizes[k] <= SumFunction(f.sizes)
    BY <1>1, <1>2, SumOfFirst
  <2>2. f.sizes[k] \in Nat
    BY <1>1, <1>2
  <2> QED
    BY SMTT(40), <1>1, <2>1, <2>2 DEF Before
<1>4. \A k \in DOMAIN f.sizes : CutUp(f)[k] \in Seq(Token)
  <2> TAKE k \in DOMAIN f.sizes
  <2>1. f.unpack <= Len(f.data)
    <3>1. PICK d \in Seq(Token) : f.data = d \o b /\ Len(d) = f.unpack
      BY DEF Sound
    <3>2. Len(d \o b) = Len(d) + Len(b) /\ Len(d) \in Nat /\ Len(b) \in Nat
      BY ConcatFacts
    <3> QED
      BY <3>1, <3>2
  <2>2. \A d \in Seq(Token), x, y \in Nat : y <= Len(d) => SubSeq(d, x + 1, y) \in Seq(Token)
    OBVIOUS
  <2>3. Before(f, k) + f.sizes[k] <= Len(f.data)
    <3>1. Len(f.data) \in Nat
      BY <1>1
    <3> QED
      BY <1>1, <1>3, <2>1, <3>1
  <2> QED
    BY <1>1, <1>3, <2>2, <2>3 DEF CutUp
<1>5. CutUp(f) \in [1 .. Len(f.sizes) -> Seq(Token)]
  BY <1>2, <1>4 DEF CutUp
<1> QED
  BY <1>2, <1>3, <1>5

(* More data does not change how it is cut up.                              *)
LEMMA CutKept ==
  ASSUME NEW b \in Seq(Token), NEW f, Sound(f, b), NEW x \in Seq(Token)
  PROVE  LET g == [f EXCEPT !.data = f.data \o x]
         IN  Sound(g, b \o x) /\ CutUp(g) = CutUp(f)
<1> DEFINE g == [f EXCEPT !.data = f.data \o x]
<1>1. f.data \in Seq(Token) /\ f.unpack \in Nat /\ f.sizes \in Seq(Nat) /\ f \in Folder
  BY DEF Sound, Folder
<1>2. f.data \o x \in Seq(Token)
  BY <1>1, Concats
<1>3. PICK d \in Seq(Token) : f.data = d \o b /\ Len(d) = f.unpack
  BY DEF Sound
<1>4. g \in Folder /\ g.data = f.data \o x /\ g.unpack = f.unpack /\ g.sizes = f.sizes
  BY <1>1, <1>2 DEF Folder
<1> HIDE DEF g
<1>5. Sound(g, b \o x)
  <2>1. (d \o b) \o x = d \o (b \o x)
    BY Concats
  <2> QED
    BY <1>1, <1>3, <1>4, <2>1 DEF Sound
<1>6. f.unpack <= Len(f.data)
  <2>1. Len(d \o b) = Len(d) + Len(b) /\ Len(d) \in Nat /\ Len(b) \in Nat
    BY ConcatFacts
  <2> QED
    BY <1>3, <2>1
<1>7. \A k \in DOMAIN f.sizes : Before(g, k) = Before(f, k)
  BY <1>4 DEF Before
<1>8. ASSUME NEW k \in DOMAIN f.sizes PROVE CutUp(g)[k] = CutUp(f)[k]
  <2>1. PICK p : p = Before(f, k)
    OBVIOUS
  <2>2. PICK q : q = p + f.sizes[k]
    OBVIOUS
  <2>3. p \in Nat /\ q \in Nat /\ q <= f.unpack
    BY <2>1, <2>2, CutFacts
  <2>4. q <= Len(f.data)
    <3>1. Len(f.data) \in Nat
      BY <1>1
    <3> QED
      BY <1>1, <1>6, <2>3, <3>1
  <2>5. SubSeq(f.data \o x, p + 1, q) = SubSeq(f.data, p + 1, q)
    BY ZenonT(40), <1>1, <2>3, <2>4, SameBeginning
  <2> QED
    BY <1>4, <1>7, <2>1, <2>2, <2>5 DEF CutUp
<1>9. CutUp(g) = CutUp(f)
  BY <1>4, <1>8 DEF CutUp
<1> QED
  BY <1>5, <1>9 DEF g

(* What was not yet counted is cut off as the last part once it is.         *)
LEMMA CutGrows ==
  ASSUME NEW b \in Seq(Token), NEW f, Sound(f, b), f.unpack < Block
  PROVE  LET g == [f EXCEPT !.unpack = f.unpack + Len(b), !.sizes = Append(f.sizes, Len(b))]
         IN  Sound(g, <<>>) /\ CutUp(g) = Append(CutUp(f), b)
<1> DEFINE n == Len(b)
           ns == Append(f.sizes, n)
           g == [f EXCEPT !.unpack = f.unpack + n, !.sizes = ns]
<1>1. f.data \in Seq(Token) /\ f.unpack \in Nat /\ f.sizes \in Seq(Nat) /\ f \in Folder /\ f.unpack = SumFunction(f.sizes)
  BY DEF Sound, Folder
<1>2. /\ n \in Nat /\ ns \in Seq(Nat) /\ Len(ns) = Len(f.sizes) + 1 /\ Len(f.sizes) \in Nat
      /\ DOMAIN ns = 1 .. Len(f.sizes) + 1 /\ DOMAIN f.sizes = 1 .. Len(f.sizes)
      /\ ns[Len(f.sizes) + 1] = n /\ \A k \in 1 .. Len(f.sizes) : ns[k] = f.sizes[k]
      /\ SubSeq(ns, 1, Len(ns) - 1) = f.sizes /\ ns # <<>>
  BY SMTT(40), <1>1
<1>3. \A k \in 1 .. Len(f.sizes) + 1 : SubSeq(ns, 1, k - 1) = SubSeq(f.sizes, 1, k - 1)
  <2> TAKE k \in 1 .. Len(f.sizes) + 1
  <2> HIDE DEF ns
  <2>1. \A s \in Seq(Nat), m \in Nat : m <= Len(s) => /\ SubSeq(s, 1, m) \in Seq(Nat) /\ Len(SubSeq(s, 1, m)) = m
                                                     /\ \A j \in 1 .. m : SubSeq(s, 1, m)[j] = s[j]
    OBVIOUS
  <2>2. PICK m : m = k - 1
    OBVIOUS
  <2>3. m \in Nat /\ m <= Len(f.sizes) /\ m <= Len(ns) /\ \A j \in 1 .. m : j \in 1 .. Len(f.sizes)
    BY <1>2, <2>2
  <2>4. /\ SubSeq(ns, 1, m) \in Seq(Nat) /\ Len(SubSeq(ns, 1, m)) = m
        /\ \A j \in 1 .. m : SubSeq(ns, 1, m)[j] = ns[j]
    BY <1>2, <2>1, <2>3
  <2>5. /\ SubSeq(f.sizes, 1, m) \in Seq(Nat) /\ Len(SubSeq(f.sizes, 1, m)) = m
        /\ \A j \in 1 .. m : SubSeq(f.sizes, 1, m)[j] = f.sizes[j]
    BY <1>1, <2>1, <2>3
  <2>6. \A j \in 1 .. m : SubSeq(ns, 1, m)[j] = SubSeq(f.sizes, 1, m)[j]
    BY <1>2, <2>3, <2>4, <2>5
  <2>7. SubSeq(ns, 1, m) = SubSeq(f.sizes, 1, m)
    BY ONLY <2>4, <2>5, <2>6, SameSequence
  <2> QED
    BY <2>2, <2>7
<1>4. SumFunction(ns) = f.unpack + n
  BY <1>1, <1>2, SumOfAppend
<1>5. SubSeq(f.sizes, 1, (Len(f.sizes) + 1) - 1) = f.sizes
  BY <1>1
<1> HIDE DEF ns, n
<1>6. PICK d \in Seq(Token) : f.data = d \o b /\ Len(d) = f.unpack
  BY DEF Sound
<1>7. Len(f.data) = f.unpack + n /\ f.data \o <<>> = f.data
  <2>1. Len(d \o b) = Len(d) + Len(b)
    BY ConcatFacts
  <2>2. f.data \o <<>> = f.data
    BY <1>1, Concats
  <2> QED
    BY <1>6, <2>1, <2>2 DEF n
<1>8. g \in Folder /\ g.data = f.data /\ g.unpack = f.unpack + n /\ g.sizes = ns
  <2>1. f.unpack + n \in Nat /\ ns \in Seq(Nat)
    BY <1>1, <1>2
  <2> QED
    BY ONLY <1>1, <2>1 DEF Folder
<1> HIDE DEF g
<1>9. Sound(g, <<>>)
  BY <1>1, <1>2, <1>4, <1>7, <1>8 DEF Sound, Front
<1>10. /\ \A k \in 1 .. Len(f.sizes) : Before(g, k) = Before(f, k)
       /\ Before(g, Len(f.sizes) + 1) = f.unpack
  <2>1. \A k \in 1 .. Len(f.sizes) + 1 : Before(g, k) = SumFunction(SubSeq(f.sizes, 1, k - 1))
    BY <1>3, <1>8 DEF Before
  <2>2. PICK l : l = Len(f.sizes) + 1
    OBVIOUS
  <2>3. l \in 1 .. Len(f.sizes) + 1 /\ \A k \in 1 .. Len(f.sizes) : k \in 1 .. Len(f.sizes) + 1
    BY <1>2, <2>2
  <2>4. Before(g, l) = f.unpack
    BY <1>1, <1>5, <2>1, <2>2, <2>3
  <2>5. \A k \in 1 .. Len(f.sizes) : Before(g, k) = Before(f, k)
    BY <2>1, <2>3 DEF Before
  <2> QED
    BY <2>2, <2>4, <2>5
<1>11. /\ CutUp(f) \in Seq(Seq(Token)) /\ Len(CutUp(f)) = Len(f.sizes)
       /\ CutUp(g) \in Seq(Seq(Token)) /\ Len(CutUp(g)) = Len(f.sizes) + 1
  <2>1. <<>> \in Seq(Token)
    OBVIOUS
  <2> QED
    BY <1>2, <1>8, <1>9, <2>1, CutFacts
<1>12. \A k \in 1 .. Len(f.sizes) : CutUp(g)[k] = CutUp(f)[k]
  BY <1>2, <1>8, <1>10 DEF CutUp
<1>13. CutUp(g)[Len(f.sizes) + 1] = b
  <2>a. PICK l : l = Len(f.sizes) + 1
    OBVIOUS
  <2>b. l \in DOMAIN g.sizes /\ g.sizes[l] = n /\ Before(g, l) = f.unpack
    BY <1>2, <1>8, <1>10, <2>a
  <2>c. CutUp(g)[l] = SubSeq(f.data, f.unpack + 1, f.unpack + n)
    BY <1>8, <2>b DEF CutUp
  <2>1. CutUp(g)[Len(f.sizes) + 1] = SubSeq(f.data, f.unpack + 1, f.unpack + n)
    BY <2>a, <2>c
  <2>2. SubSeq(d \o b, Len(d) + 1, Len(d) + Len(b)) = b
    BY SameEnd
  <2> QED
    BY <1>6, <2>1, <2>2 DEF n
<1>14. CutUp(g) = Append(CutUp(f), b)
  <2> DEFINE t == Append(CutUp(f), b)
  <2>1. t \in Seq(Seq(Token)) /\ Len(t) = Len(f.sizes) + 1 /\ t[Len(f.sizes) + 1] = b /\ \A k \in 1 .. Len(f.sizes) : t[k] = CutUp(f)[k]
    BY <1>11, AppendProperties
  <2> HIDE DEF t
  <2>2. \A k \in 1 .. Len(f.sizes) + 1 : CutUp(g)[k] = t[k]
    <3> TAKE k \in 1 .. Len(f.sizes) + 1
    <3>1. Len(f.sizes) \in Nat
      BY <1>2
    <3>2. k = Len(f.sizes) + 1 \/ k \in 1 .. Len(f.sizes)
      BY ONLY <3>1
    <3> QED
      BY <1>12, <1>13, <2>1, <3>2
  <2>3. CutUp(g) = t
    BY ONLY <1>11, <2>1, <2>2, SameSequence
  <2> QED
    BY <2>3 DEF t
<1> QED
  BY <1>9, <1>14 DEF g, ns, n

-----------------------------------------------------------------------------
(* 7z: all folders.                                                         *)
ClosedStreams(fs) == EndToEnd([k \in DOMAIN fs |-> CutUp(fs[k])])
AllStreams(fs, o) == ClosedStreams(fs) \o (IF o = <<>> THEN <<>> ELSE CutUp(Head(o)))
AllSound(fs) == fs \in Seq(Folder) /\ \A k \in 1 .. Len(fs) : Sound(fs[k], <<>>)

(* One folder more has its streams after the others'.                       *)
LEMMA FoldersGrow ==
  ASSUME NEW fs, AllSound(fs)
  PROVE  /\ ClosedStreams(fs) \in Seq(Seq(Token)) /\ ClosedStreams(<<>>) = <<>>
         /\ \A f : Sound(f, <<>>) => /\ AllSound(Append(fs, f))
                                     /\ ClosedStreams(Append(fs, f)) = ClosedStreams(fs) \o CutUp(f)
<1> DEFINE n == Len(fs)
           ps == [k \in DOMAIN fs |-> CutUp(fs[k])]
<1>0. fs \in Seq(Folder) /\ \A k \in 1 .. n : Sound(fs[k], <<>>)
  BY DEF AllSound
<1>1. \A f : Sound(f, <<>>) => CutUp(f) \in Seq(Seq(Token))
  <2>1. <<>> \in Seq(Token)
    OBVIOUS
  <2> QED
    BY <2>1, CutFacts
<1>2. n \in Nat /\ DOMAIN fs = 1 .. n
  BY <1>0
<1>3. ps \in Seq(Seq(Seq(Token))) /\ Len(ps) = n /\ \A k \in 1 .. n : ps[k] = CutUp(fs[k])
  <2>1. ps \in [1 .. n -> Seq(Seq(Token))]
    BY <1>0, <1>1, <1>2
  <2> QED
    BY <1>2, <2>1
<1>4. ASSUME NEW f, Sound(f, <<>>)
      PROVE  AllSound(Append(fs, f)) /\ ClosedStreams(Append(fs, f)) = ClosedStreams(fs) \o CutUp(f)
  <2> DEFINE qs == [k \in DOMAIN Append(fs, f) |-> CutUp(Append(fs, f)[k])]
             rs == Append(ps, CutUp(f))
  <2>0. f \in Folder
    BY <1>4 DEF Sound
  <2>1. /\ Append(fs, f) \in Seq(Folder) /\ DOMAIN Append(fs, f) = 1 .. n + 1 /\ Len(Append(fs, f)) = n + 1
        /\ \A k \in 1 .. n + 1 : Append(fs, f)[k] = IF k = n + 1 THEN f ELSE fs[k]
    BY <1>0, <2>0
  <2>2. \A k \in 1 .. n + 1 : k = n + 1 \/ k \in 1 .. n
    BY <1>2
  <2>3. AllSound(Append(fs, f))
    BY <1>0, <1>4, <2>1, <2>2 DEF AllSound
  <2>4. CutUp(f) \in Seq(Seq(Token))
    BY <1>1, <1>4
  <2>5. rs \in Seq(Seq(Seq(Token))) /\ Len(rs) = n + 1 /\ rs[n + 1] = CutUp(f) /\ \A k \in 1 .. n : rs[k] = ps[k]
    <3> HIDE DEF ps
    <3> QED
      BY <1>2, <1>3, <2>4, AppendProperties
  <2>6. qs = [k \in 1 .. n + 1 |-> CutUp(IF k = n + 1 THEN f ELSE fs[k])]
    BY <2>1
  <2>7. \A k \in 1 .. n + 1 : CutUp(IF k = n + 1 THEN f ELSE fs[k]) \in Seq(Seq(Token))
    BY <1>0, <1>1, <1>4, <2>2
  <2>8. qs \in Seq(Seq(Seq(Token))) /\ Len(qs) = n + 1
    <3>1. qs \in [1 .. n + 1 -> Seq(Seq(Token))] /\ n + 1 \in Nat
      BY <1>2, <2>6, <2>7
    <3> HIDE DEF qs
    <3> QED
      BY ONLY <3>1
  <2>9. \A k \in 1 .. n + 1 : qs[k] = rs[k]
    <3> TAKE k \in 1 .. n + 1
    <3>1. qs[k] = CutUp(IF k = n + 1 THEN f ELSE fs[k])
      BY <2>6
    <3> HIDE DEF qs, rs, ps
    <3>2. CASE k = n + 1
      BY <2>5, <3>1, <3>2
    <3>3. CASE k # n + 1
      <4>1. k \in 1 .. n
        BY <2>2, <3>3
      <4> QED
        BY <1>3, <2>5, <3>1, <3>3, <4>1
    <3> QED
      BY <3>2, <3>3
  <2>10. ClosedStreams(Append(fs, f)) = EndToEnd(qs) /\ ClosedStreams(fs) = EndToEnd(ps)
    BY DEF ClosedStreams
  <2> HIDE DEF qs, rs, ps
  <2>11. qs = rs
    BY ONLY <2>5, <2>8, <2>9, SameSequence
  <2>12. EndToEnd(Append(ps, CutUp(f))) = EndToEnd(ps) \o CutUp(f)
    BY <1>3, <2>4, EndToEndFacts
  <2> QED
    BY <2>3, <2>10, <2>11, <2>12 DEF rs
<1>5. ClosedStreams(fs) = EndToEnd(ps)
  BY DEF ClosedStreams
<1>6. ClosedStreams(<<>>) = <<>>
  <2>1. [k \in DOMAIN <<>> |-> CutUp(<<>>[k])] = <<>>
    OBVIOUS
  <2>2. EndToEnd(<<>>) = <<>>
    BY DEF EndToEnd
  <2> QED
    BY <2>1, <2>2 DEF ClosedStreams
<1>7. EndToEnd(ps) \in Seq(Seq(Token))
  <2> HIDE DEF ps
  <2> QED
    BY <1>3, EndToEndFacts
<1> QED
  BY <1>4, <1>5, <1>6, <1>7

(* Streams is what the folders hold.                                        *)
LEMMA StreamsAre == OfSevenZ!Streams = AllStreams(folders, open)
<1>1. \A f : OfSevenZ!Cut(f) = CutUp(f)
  BY CutsAreSums
<1>2. [k \in DOMAIN folders |-> OfSevenZ!Cut(folders[k])] = [k \in DOMAIN folders |-> CutUp(folders[k])]
  BY <1>1
<1>3. \A ss : OfSevenZ!FlattenSeq(ss) = EndToEnd(ss)
  BY DEF OfSevenZ!FlattenSeq, EndToEnd, Flatten
<1> QED
  BY <1>1, <1>2, <1>3 DEF OfSevenZ!Streams, AllStreams, ClosedStreams

(* An open folder that is closed or begun.                                  *)
LEMMA OpenFolderFacts ==
  ASSUME NEW fs, AllSound(fs)
  PROVE  /\ AllStreams(fs, <<>>) \in Seq(Seq(Token))
         /\ \A f : Sound(f, <<>>) => /\ AllStreams(Append(fs, f), <<>>) = AllStreams(fs, <<f>>)
                                     /\ f.sizes = <<>> => AllStreams(fs, <<>>) = AllStreams(fs, <<f>>)
         /\ \A f, b : Sound(f, b) /\ b \in Seq(Token) => AllStreams(fs, <<f>>) \in Seq(Seq(Token))
<1> DEFINE C == ClosedStreams(fs)
<1>1. C \in Seq(Seq(Token)) /\ \A f : Sound(f, <<>>) => AllSound(Append(fs, f)) /\ ClosedStreams(Append(fs, f)) = C \o CutUp(f)
  BY FoldersGrow
<1>2. AllStreams(fs, <<>>) = C \o <<>> /\ \A f : AllStreams(fs, <<f>>) = C \o CutUp(f)
  BY DEF AllStreams
<1>3. \A f : AllStreams(Append(fs, f), <<>>) = ClosedStreams(Append(fs, f)) \o <<>>
  BY DEF AllStreams
<1> HIDE DEF C
<1>4. \A s \in Seq(Seq(Token)) : s \o <<>> = s
  BY Concats
<1>5. \A f : \A b \in Seq(Token) : Sound(f, b) => CutUp(f) \in Seq(Seq(Token))
  BY CutFacts
<1>6. \A s, t \in Seq(Seq(Token)) : s \o t \in Seq(Seq(Token))
  BY Concats
<1>7. <<>> \in Seq(Token)
  OBVIOUS
<1>8. ASSUME NEW f, Sound(f, <<>>)
      PROVE  /\ AllStreams(Append(fs, f), <<>>) = AllStreams(fs, <<f>>)
             /\ f.sizes = <<>> => AllStreams(fs, <<>>) = AllStreams(fs, <<f>>)
  <2>1. CutUp(f) \in Seq(Seq(Token))
    BY <1>5, <1>7, <1>8
  <2>2. C \o CutUp(f) \in Seq(Seq(Token))
    BY <1>1, <1>6, <2>1
  <2>3. f.sizes = <<>> => CutUp(f) = <<>>
    BY <2>1 DEF CutUp
  <2> QED
    BY <1>1, <1>2, <1>3, <1>4, <1>8, <2>2, <2>3
<1>9. ASSUME NEW f, NEW b \in Seq(Token), Sound(f, b) PROVE AllStreams(fs, <<f>>) \in Seq(Seq(Token))
  BY <1>1, <1>2, <1>5, <1>6, <1>9
<1> QED
  BY <1>1, <1>2, <1>4, <1>8, <1>9

(* One whose parts are the same.                                            *)
LEMMA SameStreams ==
  ASSUME NEW fs, NEW f, NEW g, CutUp(g) = CutUp(f)
  PROVE  AllStreams(fs, <<g>>) = AllStreams(fs, <<f>>)
BY DEF AllStreams

(* And one that is given a stream.                                          *)
LEMMA StreamsGrow ==
  ASSUME NEW fs, AllSound(fs), NEW f, NEW g, NEW b \in Seq(Token), Sound(f, b), CutUp(g) = Append(CutUp(f), b)
  PROVE  AllStreams(fs, <<g>>) = Append(AllStreams(fs, <<f>>), b)
<1> DEFINE C == ClosedStreams(fs)
<1>1. \A x : AllStreams(fs, <<x>>) = C \o CutUp(x)
  BY DEF AllStreams
<1>2. C \in Seq(Seq(Token)) /\ CutUp(f) \in Seq(Seq(Token))
  BY FoldersGrow, CutFacts
<1> HIDE DEF C
<1>3. PICK u : u = CutUp(f)
  OBVIOUS
<1>4. C \o Append(u, b) = Append(C \o u, b)
  <2>1. \A s \in Seq(Seq(Token)), x \in Seq(Token) : Append(s, x) = s \o <<x>>
    BY AppendIsConcat
  <2>2. <<b>> \in Seq(Seq(Token)) /\ C \o u \in Seq(Seq(Token))
    BY <1>2, <1>3, Concats
  <2>3. C \o (u \o <<b>>) = (C \o u) \o <<b>>
    BY <1>2, <1>3, <2>2, Concats
  <2> QED
    BY <1>2, <1>3, <2>1, <2>2, <2>3
<1> QED
  BY <1>1, <1>3, <1>4

-----------------------------------------------------------------------------
(* 7z: the steps.                                                           *)

SevenZBegins == phase = "begin" /\ phase' = "writing" /\ (\E l : List(l)) /\ UNCHANGED <<folders, open>>
SevenZEnters(e) == phase' = "writing" /\ phase # "begin" /\ at <= Len(sources) /\ \E c, n : Finish(e, c, n)
SevenZStores(e) ==
  /\ SevenZEnters(e) /\ phase = "writing"
  /\ e = [kind |-> Now.kind, name |-> Now.name, stream |-> FALSE]
  /\ Now.kind = "dir" \/ (Now.kind = "file" /\ Now.size = 0)
  /\ UNCHANGED <<folders, open>>
SevenZRolls == folders' = IF OfSevenZ!IsFull THEN OfSevenZ!Closed ELSE folders
SevenZLinks(e) ==
  /\ SevenZEnters(e) /\ phase = "writing"
  /\ e = [kind |-> "link", name |-> Now.name, stream |-> TRUE] /\ Now.kind = "link"
  /\ SevenZRolls /\ open' = <<OfSevenZ!With(OfSevenZ!Begun, Units(Now.path, 0, 1))>>
SevenZStarts ==
  /\ phase = "writing" /\ phase' = "body" /\ at <= Len(sources) /\ Now.kind = "file" /\ Now.size > 0
  /\ SevenZRolls /\ open' = <<OfSevenZ!Begun>>
  /\ UNCHANGED <<world, disk, changed, sources, at, body, entries>>
SevenZReads ==
  /\ phase = "body" /\ phase' = "body" /\ Len(body) < Now.size
  /\ body' = Append(body, Unit(Now.path, Len(body)))
  /\ open' = [open EXCEPT ![1].data = Append(@, Unit(Now.path, Len(body)))]
  /\ UNCHANGED <<world, disk, changed, sources, at, entries, folders>>
SevenZEnds(e) ==
  /\ SevenZEnters(e) /\ phase = "body"
  /\ e = [kind |-> "file", name |-> Now.name, stream |-> body # <<>>]
  /\ Len(body) = Now.size \/ Len(body) >= disk[Now.path].len
  /\ open' = <<OfSevenZ!Counted>> /\ folders' = folders
SevenZCloses ==
  /\ phase = "writing" /\ phase' = "done" /\ folders' = OfSevenZ!Closed /\ open' = <<>>
  /\ UNCHANGED <<world, disk, changed, sources, at, body, entries>>
SevenZFails ==
  /\ phase' = "failed"
  /\ UNCHANGED <<world, disk, changed, sources, at, body, entries, folders, open>>
SevenZChanges == Change /\ UNCHANGED <<folders, open>>

(* Every step is one of these.                                              *)
LEMMA SevenZSteps ==
  ASSUME OfSevenZ!Next, phase = "body" => at <= Len(sources)
  PROVE  \/ SevenZBegins \/ (\E e : SevenZStores(e) \/ SevenZLinks(e) \/ SevenZEnds(e)) \/ SevenZStarts \/ SevenZReads
         \/ SevenZCloses \/ SevenZFails \/ SevenZChanges
<1>1. /\ OfSevenZ!Now = Now /\ (OfSevenZ!Fail => Fail)
      /\ \A e, c, n : OfSevenZ!Finish(e, c, n) => Finish(e, c, n)
      /\ \A k : OfSevenZ!Turn(k) => Turn(k)
      /\ \A p, a, b : OfSevenZ!Units(p, a, b) = Units(p, a, b)
      /\ \A p, a : OfSevenZ!Unit(p, a) = Unit(p, a)
  BY OfSevenZSources
<1>2. Fail => phase' = "failed" /\ UNCHANGED <<world, disk, changed, sources, at, body, entries>>
  BY DEF Fail
<1>3. CASE OfSevenZ!SBegin
  <2>1. \E l : List(l) /\ phase' = "writing"
    BY <1>3, OfSevenZSources DEF OfSevenZ!SBegin, OfSevenZ!Begin
  <2>2. phase = "begin"
    BY <2>1 DEF List
  <2> QED
    BY <1>3, <2>1, <2>2 DEF OfSevenZ!SBegin, SevenZBegins
<1>4. CASE OfSevenZ!SDirectory
  <2> DEFINE e == [kind |-> "dir", name |-> Now.name, stream |-> FALSE]
  <2>1. Finish(e, "directories", 0) /\ phase' = phase /\ Turn("dir") /\ UNCHANGED <<folders, open>>
    BY <1>1, <1>4 DEF OfSevenZ!SDirectory, OfSevenZ!Listed
  <2>2. SevenZStores(e)
    BY <2>1 DEF SevenZStores, SevenZEnters, Turn, Now
  <2> QED
    BY <2>2
<1>5. CASE OfSevenZ!SSymlink
  <2> DEFINE e == [kind |-> "link", name |-> Now.name, stream |-> TRUE]
  <2>1. /\ Finish(e, "symlinks", 0) /\ phase' = phase /\ Turn("link") /\ SevenZRolls
        /\ open' = <<OfSevenZ!With(OfSevenZ!Begun, Units(Now.path, 0, 1))>>
    BY <1>1, <1>5 DEF OfSevenZ!SSymlink, OfSevenZ!Listed, SevenZRolls
  <2>2. SevenZLinks(e)
    BY <2>1 DEF SevenZLinks, SevenZEnters, Turn, Now
  <2> QED
    BY <2>2
<1>6. CASE OfSevenZ!EmptyFile
  <2> DEFINE e == [kind |-> "file", name |-> Now.name, stream |-> FALSE]
  <2>1. Finish(e, "files", 0) /\ phase' = phase /\ Turn("file") /\ Now.size = 0 /\ UNCHANGED <<folders, open>>
    BY <1>1, <1>6 DEF OfSevenZ!EmptyFile, OfSevenZ!Listed
  <2>2. SevenZStores(e)
    BY <2>1 DEF SevenZStores, SevenZEnters, Turn, Now
  <2> QED
    BY <2>2
<1>7. CASE OfSevenZ!Unopenable
  BY <1>1, <1>2, <1>7 DEF OfSevenZ!Unopenable, SevenZFails
<1>8. CASE OfSevenZ!StartFile
  BY <1>1, <1>8 DEF OfSevenZ!world, world, OfSevenZ!StartFile, SevenZStarts, SevenZRolls, Turn, Now
<1>9. CASE OfSevenZ!Read
  BY <1>1, <1>9 DEF OfSevenZ!world, world, OfSevenZ!Read, SevenZReads
<1>10. CASE OfSevenZ!EndFile
  <2> DEFINE e == [kind |-> "file", name |-> Now.name, stream |-> body # <<>>]
  <2>1. /\ Finish(e, "files", Now.size) /\ phase' = "writing" /\ phase = "body"
        /\ Len(body) = Now.size \/ Len(body) >= disk[Now.path].len
        /\ open' = <<OfSevenZ!Counted>> /\ folders' = folders
    BY <1>1, <1>10 DEF OfSevenZ!EndFile, OfSevenZ!Listed
  <2>2. at <= Len(sources) => SevenZEnds(e)
    BY <2>1 DEF SevenZEnds, SevenZEnters
  <2> QED
    BY <2>1, <2>2
<1>11. CASE OfSevenZ!SClose
  BY <1>11, OfSevenZSources DEF OfSevenZ!SClose, Close, SevenZCloses
<1>12. CASE OfSevenZ!Others /\ UNCHANGED <<folders, open>>
  <2>1. OfSevenZ!Refuse \/ CannotCollect \/ SymlinkGone \/ WriteFails => Fail
    BY OfSevenZSources DEF OfSevenZ!Refuse, CannotCollect, SymlinkGone, WriteFails
  <2>2. OfSevenZ!Others => Fail \/ Change
    BY <2>1, OfSevenZSources DEF OfSevenZ!Others
  <2> QED
    BY <1>2, <1>12, <2>2 DEF SevenZFails, SevenZChanges
<1> QED
  BY <1>3, <1>4, <1>5, <1>6, <1>7, <1>8, <1>9, <1>10, <1>11, <1>12 DEF OfSevenZ!Next

-----------------------------------------------------------------------------
(* 7z: the invariant.                                                       *)

SevenZPhases ==
  /\ phase \in {"begin", "writing", "body", "done", "failed"}
  /\ body \in Seq(Token)
  /\ phase \notin {"body", "failed"} => body = <<>>
  /\ phase = "begin" => folders = <<>> /\ open = <<>>
  /\ phase = "body" => /\ at <= Len(sources) /\ Now.kind = "file" /\ Len(body) <= Now.size
                       /\ body = Units(Now.path, 0, Len(body))
                       /\ open # <<>> /\ Head(open).unpack < Block

FoldersHold(fs, o, b) ==
  /\ AllSound(fs) /\ \A k \in 1 .. Len(fs) : fs[k].sizes # <<>>
  /\ o = <<>> \/ \E f : o = <<f>> /\ Sound(f, b)
FolderInv == FoldersHold(folders, open, body)

(* A folder that is full is closed, unless nothing came to lie in it.       *)
LEMMA FoldersClose ==
  ASSUME FolderInv, body = <<>>
  PROVE  /\ FoldersHold(OfSevenZ!Closed, <<>>, <<>>)
         /\ AllStreams(OfSevenZ!Closed, <<>>) = AllStreams(folders, open)
<1>0. AllSound(folders) /\ folders \in Seq(Folder) /\ \A k \in 1 .. Len(folders) : folders[k].sizes # <<>>
  BY DEF FolderInv, FoldersHold, AllSound
<1>1. CASE open = <<>>
  BY <1>0, <1>1 DEF FoldersHold, OfSevenZ!Closed
<1>2. CASE open # <<>>
  <2>1. PICK f : open = <<f>> /\ Sound(f, <<>>)
    BY <1>2 DEF FolderInv, FoldersHold
  <2>2. Head(open) = f /\ f \in Folder
    BY <2>1 DEF Sound
  <2>3. /\ AllSound(Append(folders, f))
        /\ AllStreams(Append(folders, f), <<>>) = AllStreams(folders, <<f>>)
        /\ f.sizes = <<>> => AllStreams(folders, <<>>) = AllStreams(folders, <<f>>)
    <3>1. AllSound(Append(folders, f))
      BY <1>0, <2>1, FoldersGrow
    <3> QED
      BY <1>0, <2>1, <3>1, OpenFolderFacts
  <2>4. CASE f.sizes = <<>>
    BY <1>0, <2>1, <2>2, <2>3, <2>4 DEF FoldersHold, OfSevenZ!Closed
  <2>5. CASE f.sizes # <<>>
    <3>1. OfSevenZ!Closed = Append(folders, f)
      <4>1. Append(folders, f) = folders \o <<f>>
        BY <1>0, <2>2, AppendIsConcat
      <4> QED
        BY <1>2, <2>1, <2>2, <2>5, <4>1 DEF OfSevenZ!Closed
    <3>2. \A k \in 1 .. Len(Append(folders, f)) : Append(folders, f)[k].sizes # <<>>
      BY <1>0, <2>2, <2>5
    <3> QED
      BY <2>1, <2>3, <3>1, <3>2 DEF FoldersHold
  <2> QED
    BY <2>4, <2>5
<1> QED
  BY <1>1, <1>2

(* The folder that the next stream goes to.                                 *)
LEMMA FoldersRoll ==
  ASSUME FolderInv, body = <<>>, SevenZRolls
  PROVE  /\ FoldersHold(folders', <<OfSevenZ!Begun>>, <<>>) /\ Sound(OfSevenZ!Begun, <<>>) /\ OfSevenZ!Begun.unpack < Block
         /\ AllSound(folders') /\ AllStreams(folders', <<OfSevenZ!Begun>>) = AllStreams(folders, open)
<1>0. Block \in Nat \ {0}
  BY SevenZAssumption
<1>1. Sound(OfSevenZ!New, <<>>) /\ OfSevenZ!New.sizes = <<>> /\ OfSevenZ!New.unpack = 0
  <2>1. OfSevenZ!New = [data |-> <<>>, unpack |-> 0, sizes |-> <<>>]
    BY DEF OfSevenZ!New
  <2>2. SumFunction(<<>>) = 0
    <3>1. DOMAIN <<>> = {}
      OBVIOUS
    <3> QED
      BY <3>1, SumOfNothing DEF SumFunction
  <2>3. <<>> \in Seq(Token) /\ <<>> \in Seq(Nat) /\ <<>> \o <<>> = <<>> /\ Len(<<>>) = 0
    BY Concats
  <2> QED
    BY <2>1, <2>2, <2>3 DEF Sound, Folder
<1>2. CASE OfSevenZ!IsFull
  <2>1. folders' = OfSevenZ!Closed /\ OfSevenZ!Begun = OfSevenZ!New
    BY <1>2 DEF SevenZRolls, OfSevenZ!Begun
  <2>2. FoldersHold(folders', <<>>, <<>>) /\ AllStreams(folders', <<>>) = AllStreams(folders, open)
    BY <2>1, FoldersClose
  <2>3. AllSound(folders') /\ \A k \in 1 .. Len(folders') : folders'[k].sizes # <<>>
    BY <2>2 DEF FoldersHold
  <2>4. AllStreams(folders', <<>>) = AllStreams(folders', <<OfSevenZ!New>>)
    BY <1>1, <2>3, OpenFolderFacts
  <2> QED
    BY <1>0, <1>1, <2>1, <2>2, <2>3, <2>4 DEF FoldersHold
<1>3. CASE ~OfSevenZ!IsFull
  <2>1. folders' = folders
    BY <1>3 DEF SevenZRolls
  <2>2. AllSound(folders) /\ \A k \in 1 .. Len(folders) : folders[k].sizes # <<>>
    BY DEF FolderInv, FoldersHold
  <2>3. CASE open = <<>>
    <3>1. OfSevenZ!Begun = OfSevenZ!New
      BY <2>3 DEF OfSevenZ!Begun
    <3>2. AllStreams(folders, <<>>) = AllStreams(folders, <<OfSevenZ!New>>)
      BY <1>1, <2>2, OpenFolderFacts
    <3> QED
      BY <1>0, <1>1, <2>1, <2>2, <2>3, <3>1, <3>2 DEF FoldersHold
  <2>4. CASE open # <<>>
    <3>1. PICK f : open = <<f>> /\ Sound(f, <<>>)
      BY <2>4 DEF FolderInv, FoldersHold
    <3>2. Head(open) = f
      BY <3>1
    <3>3. OfSevenZ!Begun = f
      BY <1>3, <2>4, <3>2 DEF OfSevenZ!Begun
    <3>4. f.unpack < Block
      <4>1. f.unpack \in Nat
        BY <3>1 DEF Sound, Folder
      <4>2. ~(f.unpack >= Block)
        BY <1>3, <2>4, <3>2 DEF OfSevenZ!IsFull
      <4> QED
        BY <1>0, <4>1, <4>2
    <3> QED
      BY <2>1, <2>2, <3>1, <3>3, <3>4 DEF FoldersHold
  <2> QED
    BY <2>3, <2>4
<1> QED
  BY <1>2, <1>3

(* One stream more, given as a whole.                                       *)
LEMMA StreamPut ==
  ASSUME NEW fs, AllSound(fs), NEW f, Sound(f, <<>>), f.unpack < Block, NEW b \in Seq(Token)
  PROVE  /\ Sound(OfSevenZ!With(f, b), <<>>)
         /\ AllStreams(fs, <<OfSevenZ!With(f, b)>>) = Append(AllStreams(fs, <<f>>), b)
<1> DEFINE g == [f EXCEPT !.data = f.data \o b]
           h == [g EXCEPT !.unpack = g.unpack + Len(b), !.sizes = Append(g.sizes, Len(b))]
<1>1. <<>> \in Seq(Token) /\ <<>> \o b = b
  BY Concats
<1>2. Sound(g, b) /\ CutUp(g) = CutUp(f)
  BY <1>1, CutKept
<1>3. f \in Folder /\ g.unpack = f.unpack /\ g.sizes = f.sizes /\ g.data = f.data \o b /\ g \in Folder
  <2>1. f \in Folder /\ g \in Folder
    BY <1>2 DEF Sound
  <2> QED
    BY <2>1 DEF Folder
<1>4. OfSevenZ!With(f, b) = h
  <2>1. f.data \in Seq(Token) /\ f.sizes \in Seq(Nat) /\ f.unpack \in Nat
    BY <1>3 DEF Folder
  <2>2. f.data \o b \in Seq(Token) /\ g.unpack + Len(b) \in Nat /\ Append(g.sizes, Len(b)) \in Seq(Nat)
    BY <1>3, <2>1, Concats
  <2> HIDE DEF g
  <2>3. /\ h \in Folder /\ h.data = g.data /\ h.unpack = g.unpack + Len(b) /\ h.sizes = Append(g.sizes, Len(b))
    BY <1>3, <2>2 DEF Folder
  <2> DEFINE w == OfSevenZ!With(f, b)
  <2>4. /\ w \in Folder /\ w.data = f.data \o b /\ w.unpack = f.unpack + Len(b) /\ w.sizes = Append(f.sizes, Len(b))
    BY <1>3, <2>2 DEF OfSevenZ!With, Folder
  <2> HIDE DEF h, w
  <2>5. \A r, t \in Folder : r.data = t.data /\ r.unpack = t.unpack /\ r.sizes = t.sizes => r = t
    BY DEF Folder
  <2>6. w = h
    BY ZenonT(40), <1>3, <2>3, <2>4, <2>5
  <2> QED
    BY <2>6 DEF w
<1> HIDE DEF g
<1>5. Sound(h, <<>>) /\ CutUp(h) = Append(CutUp(g), b)
  BY <1>2, <1>3, CutGrows
<1> HIDE DEF h
<1>6. AllStreams(fs, <<h>>) = Append(AllStreams(fs, <<g>>), b) /\ AllStreams(fs, <<g>>) = AllStreams(fs, <<f>>)
  <2>1. AllStreams(fs, <<h>>) = Append(AllStreams(fs, <<g>>), b)
    BY <1>2, <1>5, StreamsGrow
  <2> QED
    BY <1>2, <2>1, SameStreams
<1> QED
  BY <1>4, <1>5, <1>6

Good(c, s) ==
  /\ c = Units(s.path, 0, Len(c)) /\ Len(c) <= s.size
  /\ s.path \notin changed => Len(c) = s.size

(* An entry that comes to the list, and its contents to the folders.        *)
Adds(e, c) ==
  /\ entries' = Append(entries, e) /\ e \in SevenZEntry /\ Enters(e) /\ c \in Seq(Token)
  /\ IF e.stream THEN AllStreams(folders, open)' = Append(AllStreams(folders, open), c)
                 ELSE AllStreams(folders, open)' = AllStreams(folders, open) /\ c = <<>>
  /\ e.kind = "file" => Good(c, Now)
  /\ UNCHANGED <<sources, changed>>

(* A step that adds nothing leaves both.                                    *)
Rests ==
  /\ AllStreams(folders, open)' = AllStreams(folders, open) /\ entries' = entries /\ changed \subseteq changed'
  /\ sources' = sources \/ entries = <<>>

(* What every step does to the folders.                                     *)
LEMMA SevenZMoves ==
  ASSUME ListInv(SevenZEntry), SevenZPhases, FolderInv, OfSevenZ!Next
  PROVE  SevenZPhases' /\ FolderInv' /\ (Rests \/ \E e, c : Adds(e, c))
<1> DEFINE A == AllStreams(folders, open)
           p == Now.path
<1>0. /\ phase = "body" => at <= Len(sources)
      /\ phase = "writing" => body = <<>>
      /\ body \in Seq(Token) /\ <<>> \in Seq(Token) /\ Len(<<>>) = 0
  BY DEF SevenZPhases
<1>1. ASSUME at <= Len(sources)
      PROVE  /\ Units(p, 0, 0) = <<>> /\ Units(p, 0, 1) \in Seq(Token) /\ Now.size \in Nat /\ disk[p].len \in Nat
             /\ \A n \in Nat : /\ Append(Units(p, 0, n), Unit(p, n)) = Units(p, 0, n + 1) /\ Unit(p, n) \in Token
                               /\ Len(Units(p, 0, n)) = n
             /\ Now.kind = "file" /\ p \notin changed => Now.size = disk[p].len
             /\ Now.name \in Seq(Nat) /\ phase # "begin"
  BY <1>1, NowFacts, UnitsFacts
<1>2. ASSUME NEW e, SevenZEnters(e)
      PROVE  /\ entries' = Append(entries, e) /\ body' = <<>> /\ phase' = "writing"
             /\ UNCHANGED <<sources, changed>> /\ at <= Len(sources) /\ \E c, n : Finish(e, c, n)
  BY <1>2 DEF SevenZEnters, Finish
<1>3. ASSUME phase' = "writing", body' = <<>> PROVE SevenZPhases'
  BY <1>0, <1>3 DEF SevenZPhases
<1>4. CASE SevenZBegins
  <2>1. UNCHANGED <<folders, open, body, entries, changed>> /\ phase = "begin" /\ phase' = "writing"
    BY <1>4 DEF SevenZBegins, List
  <2>2. body = <<>> /\ entries = <<>>
    BY <2>1 DEF ListInv
  <2>3. FolderInv' /\ Rests
    BY <2>1, <2>2 DEF FolderInv, Rests
  <2> QED
    BY <1>3, <2>1, <2>2, <2>3
<1>5. ASSUME NEW e, SevenZStores(e) PROVE SevenZPhases' /\ FolderInv' /\ Adds(e, <<>>)
  <2>1. /\ UNCHANGED <<folders, open>> /\ e = [kind |-> Now.kind, name |-> Now.name, stream |-> FALSE]
        /\ Now.kind = "dir" \/ (Now.kind = "file" /\ Now.size = 0)
        /\ phase = "writing"
    BY <1>5 DEF SevenZStores
  <2>2. SevenZEnters(e)
    BY <1>5 DEF SevenZStores
  <2>3. e \in SevenZEntry /\ Answers(e, Now) /\ ~e.stream /\ (e.kind = "file" => Now.size = 0)
    BY <1>1, <1>2, <2>1, <2>2 DEF SevenZEntry, Answers
  <2>4. e.kind = "file" => Good(<<>>, Now)
    <3>1. Units(p, 0, 0) = <<>>
      BY <1>1, <1>2, <2>2
    <3> QED
      BY ONLY <1>0, <2>3, <3>1 DEF Good
  <2>5. FolderInv' /\ AllStreams(folders, open)' = A
    BY <1>0, <1>2, <2>1, <2>2 DEF FolderInv
  <2> QED
    BY <1>0, <1>1, <1>2, <1>3, <2>2, <2>3, <2>4, <2>5 DEF Adds, Enters
<1>6. ASSUME NEW e, SevenZLinks(e) PROVE SevenZPhases' /\ FolderInv' /\ Adds(e, Units(p, 0, 1))
  <2>1. /\ SevenZRolls /\ open' = <<OfSevenZ!With(OfSevenZ!Begun, Units(p, 0, 1))>> /\ phase = "writing"
        /\ e = [kind |-> "link", name |-> Now.name, stream |-> TRUE] /\ Now.kind = "link" /\ SevenZEnters(e)
    BY <1>6 DEF SevenZLinks
  <2>2. e \in SevenZEntry /\ Answers(e, Now) /\ e.stream /\ e.kind # "file"
    BY <1>1, <1>2, <2>1 DEF SevenZEntry, Answers
  <2>3. /\ FoldersHold(folders', <<OfSevenZ!Begun>>, <<>>) /\ Sound(OfSevenZ!Begun, <<>>) /\ OfSevenZ!Begun.unpack < Block
        /\ AllSound(folders') /\ AllStreams(folders', <<OfSevenZ!Begun>>) = A
    BY <1>0, <2>1, FoldersRoll
  <2> DEFINE g == OfSevenZ!With(OfSevenZ!Begun, Units(p, 0, 1))
  <2>4. Sound(g, <<>>) /\ AllStreams(folders', <<g>>) = Append(A, Units(p, 0, 1))
    <3>1. Units(p, 0, 1) \in Seq(Token)
      BY <1>1, <1>2, <2>1
    <3> QED
      BY <2>3, <3>1, StreamPut
  <2> HIDE DEF g
  <2>5. open' = <<g>>
    BY <2>1 DEF g
  <2>6. FolderInv'
    BY <1>2, <2>1, <2>3, <2>4, <2>5 DEF FolderInv, FoldersHold
  <2> QED
    BY <1>1, <1>2, <1>3, <2>1, <2>2, <2>4, <2>5, <2>6 DEF Adds, Enters
<1>7. CASE SevenZStarts
  <2>1. /\ SevenZRolls /\ open' = <<OfSevenZ!Begun>> /\ phase = "writing" /\ phase' = "body"
        /\ at <= Len(sources) /\ Now.kind = "file" /\ UNCHANGED <<sources, at, body, entries, changed>>
    BY <1>7 DEF SevenZStarts
  <2>2. /\ FoldersHold(folders', <<OfSevenZ!Begun>>, <<>>) /\ OfSevenZ!Begun.unpack < Block
        /\ AllStreams(folders', <<OfSevenZ!Begun>>) = A
    BY <1>0, <2>1, FoldersRoll
  <2> DEFINE g == OfSevenZ!Begun
  <2>3. g.unpack < Block /\ open' = <<g>> /\ body' = <<>>
    BY <1>0, <2>1, <2>2
  <2> HIDE DEF g
  <2>4. FolderInv' /\ Rests
    BY <2>1, <2>2, <2>3 DEF FolderInv, Rests, g
  <2>5. open' # <<>> /\ Head(open') = g
    BY <2>3
  <2>6. Now' = Now
    BY <2>1 DEF Now
  <2>7. Units(p, 0, 0) = <<>> /\ Now.size \in Nat
    BY <1>1, <2>1
  <2>8. body' = Units(p, 0, Len(body')) /\ Len(body') <= Now.size
    BY <1>0, <2>3, <2>7
  <2>9. body' = Units(Now'.path, 0, Len(body'))
    BY <2>6, <2>8
  <2>10. (body = Units(Now.path, 0, Len(body)))'
    BY <2>9 DEF Units, Unit
  <2>11. SevenZPhases'
    BY <1>0, <2>1, <2>3, <2>5, <2>6, <2>8, <2>10 DEF SevenZPhases
  <2> QED
    BY <2>4, <2>11
<1>8. CASE SevenZReads
  <2> DEFINE n == Len(body)
             u == Unit(p, n)
  <2>1. /\ phase = "body" /\ phase' = "body" /\ n < Now.size /\ body' = Append(body, u)
        /\ open' = [open EXCEPT ![1].data = Append(@, u)]
        /\ UNCHANGED <<sources, at, entries, changed, folders>>
    BY <1>8 DEF SevenZReads
  <2>2. at <= Len(sources) /\ Now.kind = "file" /\ body = Units(p, 0, n) /\ open # <<>> /\ Head(open).unpack < Block /\ n \in Nat
    BY <1>0, <2>1 DEF SevenZPhases
  <2>3. u \in Token /\ body' = Units(p, 0, n + 1) /\ Len(body') = n + 1 /\ n + 1 \in Nat
    BY SMTT(40), <1>1, <2>1, <2>2
  <2> HIDE DEF u, n
  <2>4. body \o <<u>> = body' /\ body' \in Seq(Token) /\ <<u>> \in Seq(Token)
    <3>1. Append(body, u) = body \o <<u>>
      BY <1>0, <2>3, AppendIsConcat
    <3>2. Append(body, u) \in Seq(Token)
      BY <1>0, <2>3
    <3>3. <<u>> \in Seq(Token)
      BY <2>3
    <3> QED
      BY ONLY <2>1, <3>1, <3>2, <3>3
  <2>5. PICK f : open = <<f>> /\ Sound(f, body)
    BY <2>2 DEF FolderInv, FoldersHold
  <2>6. f \in Folder /\ Head(open) = f
    BY <2>5 DEF Sound
  <2> DEFINE g == [f EXCEPT !.data = f.data \o <<u>>]
  <2>7. Sound(g, body \o <<u>>) /\ CutUp(g) = CutUp(f)
    BY <1>0, <2>4, <2>5, CutKept
  <2>8. open' = <<g>> /\ g.unpack = f.unpack
    <3>1. Append(f.data, u) = f.data \o <<u>>
      BY <2>3, <2>6, AppendIsConcat DEF Folder
    <3>2. open' = <<[f EXCEPT !.data = Append(f.data, u)]>>
      <4>1. \A x : [<<x>> EXCEPT ![1].data = Append(@, u)] = <<[x EXCEPT !.data = Append(@, u)]>>
        OBVIOUS
      <4> QED
        BY <2>1, <2>5, <4>1
    <3> QED
      BY <2>6, <3>1, <3>2 DEF Folder
  <2> HIDE DEF g
  <2>9. AllSound(folders)
    BY DEF FolderInv, FoldersHold
  <2>10. AllStreams(folders, <<g>>) = AllStreams(folders, <<f>>)
    BY <2>7, SameStreams
  <2>11. FolderInv' /\ Rests
    BY ZenonT(40), <2>1, <2>4, <2>5, <2>7, <2>8, <2>10 DEF FolderInv, FoldersHold, Rests
  <2>12. SevenZPhases'
    <3>1. Now' = Now
      BY <2>1 DEF Now
    <3>2. open' # <<>> /\ Head(open').unpack < Block
      BY <2>2, <2>6, <2>8
    <3>3. Len(body') <= Now.size
      BY <1>1, <2>1, <2>2, <2>3
    <3> QED
      BY <2>1, <2>2, <2>3, <2>4, <3>1, <3>2, <3>3 DEF SevenZPhases
  <2> QED
    BY <2>11, <2>12
<1>9. ASSUME NEW e, SevenZEnds(e) PROVE SevenZPhases' /\ FolderInv' /\ Adds(e, body)
  <2>1. /\ SevenZEnters(e) /\ phase = "body" /\ e = [kind |-> "file", name |-> Now.name, stream |-> body # <<>>]
        /\ Len(body) = Now.size \/ Len(body) >= disk[p].len
        /\ open' = <<OfSevenZ!Counted>> /\ folders' = folders
    BY <1>9 DEF SevenZEnds
  <2>2. Now.kind = "file" /\ Len(body) <= Now.size /\ body = Units(p, 0, Len(body)) /\ open # <<>> /\ Head(open).unpack < Block
    BY <2>1 DEF SevenZPhases
  <2>3. e \in SevenZEntry /\ Answers(e, Now) /\ (e.stream <=> body # <<>>) /\ e.kind = "file"
    BY <1>1, <1>2, <2>1, <2>2 DEF SevenZEntry, Answers
  <2>4. Good(body, Now)
    <3>1. Len(body) \in Nat
      BY <1>0
    <3>2. Now.size \in Nat /\ disk[p].len \in Nat /\ (p \notin changed => Now.size = disk[p].len)
      BY <1>1, <1>2, <2>1, <2>2
    <3>3. p \notin changed => Len(body) = Now.size
      BY ONLY <2>1, <2>2, <3>1, <3>2
    <3> QED
      BY ONLY <2>2, <3>3 DEF Good
  <2>5. PICK f : open = <<f>> /\ Sound(f, body)
    BY <2>2 DEF FolderInv, FoldersHold
  <2>6. f \in Folder /\ Head(open) = f /\ AllSound(folders)
    BY <2>5 DEF Sound, FolderInv, FoldersHold
  <2>7. CASE body = <<>>
    <3>1. open' = <<f>>
      BY <2>1, <2>6, <2>7 DEF OfSevenZ!Counted
    <3>2. FolderInv' /\ AllStreams(folders, open)' = A
      BY <1>2, <2>1, <2>5, <2>7, <3>1 DEF FolderInv
    <3> QED
      BY <1>0, <1>1, <1>2, <1>3, <2>1, <2>3, <2>4, <2>7, <3>2 DEF Adds, Enters
  <2>8. CASE body # <<>>
    <3> DEFINE g == [f EXCEPT !.unpack = f.unpack + Len(body), !.sizes = Append(f.sizes, Len(body))]
    <3>1. open' = <<g>>
      <4>1. open' = <<[Head(open) EXCEPT !.unpack = Head(open).unpack + Len(body),
                                         !.sizes = Append(Head(open).sizes, Len(body))]>>
        <5>1. OfSevenZ!Counted = [[Head(open) EXCEPT !.unpack = Head(open).unpack + Len(body)] EXCEPT
                                    !.sizes = Append([Head(open) EXCEPT !.unpack = Head(open).unpack + Len(body)].sizes, Len(body))]
          BY ONLY <2>8 DEF OfSevenZ!Counted
        <5> QED
          BY ONLY <2>1, <2>6, <5>1 DEF Folder
      <4> QED
        BY ONLY <2>6, <4>1
    <3>2. Sound(g, <<>>) /\ CutUp(g) = Append(CutUp(f), body)
      <4>1. f.unpack < Block
        BY <2>2, <2>6
      <4> QED
        BY <1>0, <2>5, <4>1, CutGrows
    <3> HIDE DEF g
    <3>3. AllStreams(folders, <<g>>) = Append(A, body)
      <4>1. body \in Seq(Token)
        BY <1>0
      <4>2. AllStreams(folders, <<g>>) = Append(AllStreams(folders, <<f>>), body)
        BY ONLY ZenonT(80), <2>5, <2>6, <3>2, <4>1, StreamsGrow
      <4> QED
        BY <2>5, <4>2
    <3>4. FolderInv'
      BY <1>2, <2>1, <3>1, <3>2 DEF FolderInv, FoldersHold
    <3> QED
      BY <1>0, <1>1, <1>2, <1>3, <2>1, <2>3, <2>4, <2>8, <3>1, <3>3, <3>4 DEF Adds, Enters
  <2> QED
    BY <2>7, <2>8
<1>10. CASE SevenZCloses
  <2>1. /\ phase = "writing" /\ phase' = "done" /\ folders' = OfSevenZ!Closed /\ open' = <<>>
        /\ UNCHANGED <<sources, changed, body, entries>>
    BY <1>10 DEF SevenZCloses
  <2>2. FoldersHold(OfSevenZ!Closed, <<>>, <<>>) /\ AllStreams(OfSevenZ!Closed, <<>>) = A
    BY <1>0, <2>1, FoldersClose
  <2>3. FolderInv' /\ Rests
    BY <1>0, <2>1, <2>2 DEF FolderInv, Rests
  <2>4. SevenZPhases'
    BY <1>0, <2>1 DEF SevenZPhases
  <2> QED
    BY <2>3, <2>4
<1>11. CASE SevenZFails
  <2>1. phase' = "failed" /\ UNCHANGED <<sources, changed, body, entries, folders, open>>
    BY <1>11 DEF SevenZFails
  <2> QED
    BY <1>0, <2>1 DEF SevenZPhases, FolderInv, Rests
<1>12. CASE SevenZChanges
  <2>1. /\ UNCHANGED <<phase, sources, at, body, entries, folders, open>> /\ changed \subseteq changed'
    BY <1>12, ChangeFacts DEF SevenZChanges
  <2> QED
    BY <2>1 DEF SevenZPhases, FolderInv, Rests, Now, Units, Unit
<1> QED
  BY <1>0, <1>4, <1>5, <1>6, <1>7, <1>8, <1>9, <1>10, <1>11, <1>12, SevenZSteps

(* How many of the first k entries have contents.                           *)
StreamsIn(es, k) == Cardinality({j \in 1 .. k : es[j].stream})
ContentsAt(es, ss, k) == IF es[k].stream THEN ss[StreamsIn(es, k)] ELSE <<>>

(* One entry more does not change the count before it.                      *)
LEMMA StreamsCount ==
  ASSUME NEW es \in Seq(SevenZEntry), NEW e \in SevenZEntry
  PROVE  /\ \A k \in 1 .. Len(es) : /\ StreamsIn(Append(es, e), k) = StreamsIn(es, k)
                                    /\ es[k].stream => StreamsIn(es, k) \in 1 .. StreamsIn(es, Len(es))
         /\ StreamsIn(es, Len(es)) \in Nat
         /\ StreamsIn(Append(es, e), Len(es) + 1) = StreamsIn(es, Len(es)) + (IF e.stream THEN 1 ELSE 0)
         /\ StreamsIn(<<>>, 0) = 0
<1> DEFINE n == Len(es)
           S(k) == {j \in 1 .. k : es[j].stream}
           T(k) == {j \in 1 .. k : Append(es, e)[j].stream}
<1>1. n \in Nat /\ Append(es, e)[n + 1] = e /\ \A j \in 1 .. n : Append(es, e)[j] = es[j]
  OBVIOUS
<1>2. \A k \in 0 .. n : IsFiniteSet(S(k)) /\ Cardinality(S(k)) \in Nat /\ S(k) \subseteq S(n) /\ Cardinality(S(k)) <= Cardinality(S(n))
  <2> TAKE k \in 0 .. n
  <2>1. \A m \in Nat : IsFiniteSet(S(m))
    <3> TAKE m \in Nat
    <3>1. IsFiniteSet(1 .. m) /\ S(m) \subseteq 1 .. m
      BY FS_Interval
    <3> HIDE DEF S
    <3> QED
      BY <3>1, FS_Subset
  <2>2. S(k) \subseteq S(n)
    BY <1>1
  <2> HIDE DEF S
  <2>3. k \in Nat
    BY <1>1
  <2> QED
    BY <1>1, <2>1, <2>2, <2>3, FS_CardinalityType, FS_Subset
<1>3. \A k \in 0 .. n : T(k) = S(k)
  BY <1>1
<1>4. \A k \in 1 .. n : es[k].stream => Cardinality(S(k)) # 0
  <2> SUFFICES ASSUME NEW k \in 1 .. n, es[k].stream PROVE Cardinality(S(k)) # 0
    OBVIOUS
  <2>0. k \in 0 .. n /\ k \in 1 .. k
    BY <1>1
  <2>1. k \in S(k) /\ IsFiniteSet(S(k))
    <3>1. IsFiniteSet(S(k))
      BY ONLY <1>2, <2>0
    <3>2. k \in S(k)
      BY <2>0
    <3> QED
      BY <3>1, <3>2
  <2> HIDE DEF S
  <2> QED
    BY <2>1, FS_EmptySet
<1>5. Cardinality(T(n + 1)) = Cardinality(S(n)) + (IF e.stream THEN 1 ELSE 0)
  <2>0. n \in 0 .. n
    BY <1>1
  <2>1. IsFiniteSet(S(n)) /\ Cardinality(S(n)) \in Nat
    BY ONLY <1>2, <2>0
  <2>2. CASE e.stream
    <3>1. T(n + 1) = S(n) \cup {n + 1} /\ n + 1 \notin S(n)
      BY <1>1, <2>2
    <3> HIDE DEF S, T, n
    <3>2. Cardinality(S(n) \cup {n + 1}) = Cardinality(S(n)) + 1
      BY <2>1, <3>1, FS_AddElement
    <3> QED
      BY <2>2, <3>1, <3>2
  <2>3. CASE ~e.stream
    <3>1. T(n + 1) = S(n)
      BY <1>1, <2>3
    <3> HIDE DEF S, T, n
    <3> QED
      BY <2>1, <2>3, <3>1
  <2> QED
    BY <2>2, <2>3
<1>6. StreamsIn(<<>>, 0) = 0
  <2>1. {j \in 1 .. 0 : <<>>[j].stream} = {}
    OBVIOUS
  <2> QED
    BY <2>1, FS_EmptySet DEF StreamsIn
<1>7. \A k : StreamsIn(es, k) = Cardinality(S(k)) /\ StreamsIn(Append(es, e), k) = Cardinality(T(k))
  BY DEF StreamsIn
<1> HIDE DEF S, T
<1>8. \A k \in 1 .. n : Cardinality(T(k)) = Cardinality(S(k)) /\ (es[k].stream => Cardinality(S(k)) \in 1 .. Cardinality(S(n)))
  <2> TAKE k \in 1 .. n
  <2>1. k \in 0 .. n /\ n \in 0 .. n
    BY <1>1
  <2>2. Cardinality(S(k)) \in Nat /\ Cardinality(S(n)) \in Nat /\ Cardinality(S(k)) <= Cardinality(S(n))
    BY <1>2, <2>1
  <2> QED
    BY <1>3, <1>4, <2>1, <2>2
<1>9. Cardinality(S(n)) \in Nat
  BY <1>1, <1>2
<1> QED
  BY <1>5, <1>6, <1>7, <1>8, <1>9

ContentsInv ==
  /\ Len(AllStreams(folders, open)) = StreamsIn(entries, Len(entries))
  /\ \A k \in 1 .. Len(entries) :
       entries[k].kind = "file" => Good(ContentsAt(entries, AllStreams(folders, open), k), sources[k])

SevenZInv == ListInv(SevenZEntry) /\ SevenZPhases /\ FolderInv /\ ContentsInv

(* The streams are sequences of tokens.                                     *)
LEMMA StreamsType ==
  ASSUME FolderInv, SevenZPhases
  PROVE  AllStreams(folders, open) \in Seq(Seq(Token))
<1>1. AllSound(folders) /\ (open = <<>> \/ \E f : open = <<f>> /\ Sound(f, body)) /\ body \in Seq(Token)
  BY DEF FolderInv, FoldersHold, SevenZPhases
<1> QED
  BY <1>1, OpenFolderFacts

(* Every file is found by counting, whole if nobody changed it.             *)
LEMMA SevenZKeepsContents ==
  ASSUME SevenZInv, OfSevenZ!Next
  PROVE  ContentsInv'
<1> DEFINE A == AllStreams(folders, open)
<1>0. ListInv(SevenZEntry) /\ SevenZPhases /\ FolderInv /\ ContentsInv
  BY DEF SevenZInv
<1>1. Len(entries) = at - 1 /\ at \in 1 .. Len(sources) + 1 /\ entries \in Seq(SevenZEntry) /\ Len(entries) \in Nat
  BY <1>0 DEF ListInv
<1>2. A \in Seq(Seq(Token))
  BY <1>0, StreamsType
<1>3. /\ Len(A) = StreamsIn(entries, Len(entries))
      /\ \A k \in 1 .. Len(entries) : entries[k].kind = "file" => Good(ContentsAt(entries, A, k), sources[k])
  BY <1>0 DEF ContentsInv
<1> HIDE DEF A
<1>4. ASSUME changed \subseteq changed', NEW c, NEW s, Good(c, s) PROVE Good(c, s)'
  BY <1>4 DEF Good, Units, Unit
<1>5. ASSUME NEW es, NEW B, NEW ss, es = entries', B = A', ss = sources',
             Len(B) = StreamsIn(es, Len(es)), changed \subseteq changed',
             \A k \in 1 .. Len(es) : es[k].kind = "file" => Good(ContentsAt(es, B, k), ss[k])
      PROVE  ContentsInv'
  <2>1. B = AllStreams(folders, open)'
    BY <1>5 DEF A
  <2> SUFFICES ASSUME NEW k \in 1 .. Len(es), es[k].kind = "file"
               PROVE  Good(ContentsAt(entries, AllStreams(folders, open), k), sources[k])'
    BY <1>5, <2>1 DEF ContentsInv, StreamsIn
  <2>2. PICK c, s : c = ContentsAt(es, B, k) /\ s = ss[k]
    OBVIOUS
  <2>3. Good(c, s)'
    BY <1>4, <1>5, <2>2
  <2>4. c = ContentsAt(entries', AllStreams(folders, open)', k) /\ s = sources'[k]
    BY <1>5, <2>1, <2>2
  <2> QED
    BY <2>3, <2>4 DEF Good, ContentsAt, StreamsIn, Units, Unit
<1>6. CASE Rests
  <2>1. A' = A /\ entries' = entries /\ changed \subseteq changed' /\ (sources' = sources \/ entries = <<>>)
    BY <1>6 DEF Rests, A
  <2>2. \A k \in 1 .. Len(entries) : entries[k].kind = "file" => Good(ContentsAt(entries, A, k), sources'[k])
    BY <1>3, <2>1
  <2> QED
    BY <1>3, <1>5, <2>1, <2>2
<1>7. ASSUME NEW e, NEW c, Adds(e, c) PROVE ContentsInv'
  <2> DEFINE n == Len(entries)
             es == Append(entries, e)
             B == IF e.stream THEN Append(A, c) ELSE A
  <2>1. /\ entries' = es /\ e \in SevenZEntry /\ c \in Seq(Token) /\ sources' = sources /\ changed' = changed
        /\ A' = B /\ (~e.stream => c = <<>>) /\ (e.kind = "file" => Good(c, Now))
    BY <1>7 DEF Adds, A
  <2>2. /\ \A k \in 1 .. n : /\ StreamsIn(es, k) = StreamsIn(entries, k)
                             /\ entries[k].stream => StreamsIn(entries, k) \in 1 .. Len(A)
        /\ Len(A) \in Nat
        /\ StreamsIn(es, n + 1) = Len(A) + (IF e.stream THEN 1 ELSE 0)
    BY <1>1, <1>3, <2>1, StreamsCount
  <2>3. /\ Len(es) = n + 1 /\ es[n + 1] = e /\ \A k \in 1 .. n : es[k] = entries[k]
    BY <1>1, <2>1
  <2>4. /\ e.stream => B = Append(A, c) /\ Len(B) = Len(A) + 1 /\ B[Len(A) + 1] = c /\ \A j \in 1 .. Len(A) : B[j] = A[j]
        /\ ~e.stream => B = A
    BY <1>2, <2>1, AppendProperties
  <2> HIDE DEF es, B
  <2>5. \A k \in 1 .. n : ContentsAt(es, B, k) = ContentsAt(entries, A, k)
    <3> TAKE k \in 1 .. n
    <3>1. es[k] = entries[k] /\ StreamsIn(es, k) = StreamsIn(entries, k)
      BY <2>2, <2>3
    <3>2. entries[k].stream => B[StreamsIn(entries, k)] = A[StreamsIn(entries, k)]
      BY <2>2, <2>4
    <3> QED
      BY <3>1, <3>2 DEF ContentsAt
  <2>6. ContentsAt(es, B, n + 1) = c
    <3>1. CASE e.stream
      <4>1. StreamsIn(es, n + 1) = Len(A) + 1
        BY <2>2, <3>1
      <4> QED
        BY <2>3, <2>4, <3>1, <4>1 DEF ContentsAt
    <3>2. CASE ~e.stream
      BY <2>1, <2>3, <3>2 DEF ContentsAt
    <3> QED
      BY <3>1, <3>2
  <2>7. Len(B) = StreamsIn(es, Len(es))
    BY <2>2, <2>3, <2>4
  <2>8. ASSUME NEW k \in 1 .. Len(es), es[k].kind = "file" PROVE Good(ContentsAt(es, B, k), sources[k])
    <3>1. CASE k = n + 1
      <4>1. sources[k] = Now
        BY <1>1, <3>1 DEF Now
      <4> QED
        BY <2>1, <2>3, <2>6, <2>8, <3>1, <4>1
    <3>2. CASE k # n + 1
      <4>1. k \in 1 .. n
        BY <1>1, <2>3, <3>2
      <4> QED
        BY <1>3, <2>3, <2>5, <2>8, <4>1
    <3> QED
      BY <3>1, <3>2
  <2>9. changed \subseteq changed'
    BY <2>1
  <2> QED
    BY <1>5, <2>1, <2>7, <2>8, <2>9
<1> QED
  BY <1>0, <1>6, <1>7, SevenZMoves

(* So the list and its entries are kept.                                    *)
LEMMA SevenZKeepsList ==
  ASSUME SevenZInv, OfSevenZ!Next
  PROVE  ListInv(SevenZEntry)'
<1>0. ListInv(SevenZEntry) /\ SevenZPhases /\ FolderInv
  BY DEF SevenZInv
<1>1. phase = "body" => at <= Len(sources)
  BY <1>0 DEF SevenZPhases
<1>2. ListStep(SevenZEntry)
  <2>1. ASSUME NEW e, SevenZStores(e) \/ SevenZLinks(e) \/ SevenZEnds(e) PROVE ListStep(SevenZEntry)
    <3>1. /\ SevenZEnters(e) /\ phase' = "writing" /\ phase # "begin" /\ at <= Len(sources)
          /\ \E c, n : Finish(e, c, n)
      BY <2>1 DEF SevenZStores, SevenZLinks, SevenZEnds, SevenZEnters
    <3>2. Now.name \in Seq(Nat)
      BY <1>0, <3>1, NowFacts
    <3>3. e \in SevenZEntry /\ Answers(e, Now)
      <4>1. CASE SevenZStores(e)
        BY <3>2, <4>1 DEF SevenZStores, SevenZEntry, Answers
      <4>2. CASE SevenZLinks(e)
        BY <3>2, <4>2 DEF SevenZLinks, SevenZEntry, Answers
      <4>3. CASE SevenZEnds(e)
        BY <1>0, <3>2, <4>3 DEF SevenZEnds, SevenZPhases, SevenZEntry, Answers
      <4> QED
        BY <2>1, <4>1, <4>2, <4>3
    <3> QED
      BY <3>1, <3>3 DEF ListStep, Enters
  <2>2. CASE SevenZBegins
    BY <2>2 DEF SevenZBegins, ListStep
  <2>3. CASE SevenZStarts \/ SevenZReads \/ SevenZCloses \/ SevenZFails
    BY <2>3 DEF SevenZStarts, SevenZReads, SevenZCloses, SevenZFails, ListStep, Idles
  <2>4. CASE SevenZChanges
    BY <2>4 DEF SevenZChanges, ListStep
  <2> QED
    BY <1>1, <2>1, <2>2, <2>3, <2>4, SevenZSteps
<1> QED
  BY <1>0, <1>2, ListInvKept

(* A 7z starts as the invariant says.                                       *)
LEMMA SevenZStartsSo ==
  ASSUME OfSevenZ!Init
  PROVE  SevenZInv
<1>1. folders = <<>> /\ open = <<>> /\ SInit
  BY Starts DEF OfSevenZ!Init
<1>2. ListInv(SevenZEntry) /\ phase = "begin" /\ entries = <<>> /\ body = <<>>
  BY <1>1, Starts DEF SInit
<1>3. SevenZPhases
  <2>1. <<>> \in Seq(Token)
    OBVIOUS
  <2> QED
    BY <1>1, <1>2, <2>1 DEF SevenZPhases
<1>4. AllSound(<<>>)
  BY DEF AllSound
<1>5. FolderInv
  BY <1>1, <1>4 DEF FolderInv, FoldersHold
<1>6. ContentsInv
  <2>1. AllStreams(<<>>, <<>>) = <<>>
    <3>1. ClosedStreams(<<>>) = <<>>
      BY <1>4, FoldersGrow
    <3>2. <<>> \o <<>> = <<>>
      OBVIOUS
    <3> QED
      BY <3>1, <3>2 DEF AllStreams
  <2>2. StreamsIn(<<>>, 0) = 0
    <3>1. {j \in 1 .. 0 : <<>>[j].stream} = {}
      OBVIOUS
    <3> QED
      BY <3>1, FS_EmptySet DEF StreamsIn
  <2> QED
    BY <1>1, <1>2, <2>1, <2>2 DEF ContentsInv
<1> QED
  BY <1>2, <1>3, <1>5, <1>6 DEF SevenZInv

(* What the invariant says of a 7z: what its module promises.               *)
LEMMA SevenZPromises ==
  ASSUME SevenZInv
  PROVE  /\ OfSevenZ!TypeOK /\ OfSevenZ!HeldIsBounded
         /\ \A k \in DOMAIN entries : entries[k].kind = "file" => OfSevenZ!Holds(k, sources[k])
<1>0. /\ ListInv(SevenZEntry) /\ SevenZPhases /\ FolderInv /\ ContentsInv
      /\ entries \in Seq(SevenZEntry) /\ DOMAIN entries = 1 .. Len(entries)
  <2>1. ListInv(SevenZEntry) /\ SevenZPhases /\ FolderInv /\ ContentsInv
    BY DEF SevenZInv
  <2>2. entries \in Seq(SevenZEntry)
    BY <2>1 DEF ListInv
  <2> QED
    BY <2>1, <2>2
<1>1. OfSevenZ!TypeOK
  <2>1. phase \in {"begin", "writing", "body", "done", "failed"}
    BY <1>0 DEF SevenZPhases
  <2>2. Len(open) <= 1
    <3>1. open = <<>> \/ \E f : open = <<f>>
      BY <1>0 DEF FolderInv, FoldersHold
    <3>2. CASE open = <<>>
      BY <3>2
    <3>3. ASSUME NEW f, open = <<f>> PROVE Len(open) <= 1
      BY <3>3
    <3> QED
      BY <3>1, <3>2, <3>3
  <2> QED
    BY <2>1, <2>2 DEF OfSevenZ!TypeOK
<1>2. OfSevenZ!HeldIsBounded
  <2> SUFFICES ASSUME NEW k \in DOMAIN folders
               PROVE  folders[k].sizes # <<>> /\ OfSevenZ!FoldSeq(+, 0, OfSevenZ!Front(folders[k].sizes)) < Block
    BY DEF OfSevenZ!HeldIsBounded
  <2>1. folders[k].sizes # <<>> /\ Sound(folders[k], <<>>)
    BY <1>0 DEF FolderInv, FoldersHold, AllSound
  <2>2. OfSevenZ!Front(folders[k].sizes) = Front(folders[k].sizes)
    BY DEF OfSevenZ!Front, Front
  <2>3. SumFunction(Front(folders[k].sizes)) < Block
    BY <2>1 DEF Sound
  <2> QED
    BY <2>1, <2>2, <2>3, CutsAreSums
<1>3. ASSUME NEW k \in DOMAIN entries, entries[k].kind = "file" PROVE OfSevenZ!Holds(k, sources[k])
  <2>1. \A j : OfSevenZ!StreamsUpTo(j) = StreamsIn(entries, j)
    BY DEF OfSevenZ!StreamsUpTo, OfSevenZ!Cardinality, StreamsIn, Cardinality
  <2>2. OfSevenZ!ContentsOf(k) = ContentsAt(entries, AllStreams(folders, open), k)
    BY <2>1, StreamsAre DEF OfSevenZ!ContentsOf, ContentsAt
  <2>3. Good(OfSevenZ!ContentsOf(k), sources[k]) /\ Len(AllStreams(folders, open)) = StreamsIn(entries, Len(entries))
    BY <1>0, <1>3, <2>2 DEF ContentsInv
  <2>4. Len(OfSevenZ!Streams) = OfSevenZ!StreamsUpTo(Len(entries))
    BY <2>1, <2>3, StreamsAre
  <2>5. \A p, a, b : OfSevenZ!Units(p, a, b) = Units(p, a, b)
    BY OfSevenZSources
  <2> QED
    BY <2>3, <2>4, <2>5 DEF OfSevenZ!Holds, Good
<1> QED
  BY <1>1, <1>2, <1>3

(* Every step of the specification keeps it.                                *)
LEMMA SevenZInductive == Spec => [](format = "7z" => SevenZInv)
<1>1. Init => (format = "7z" => SevenZInv)
  BY SevenZStartsSo DEF Init
<1>2. (format = "7z" => SevenZInv) /\ [Next]_vars => (format = "7z" => SevenZInv)'
  <2> SUFFICES ASSUME format = "7z" => SevenZInv, [Next]_vars, format' = "7z" PROVE SevenZInv'
    OBVIOUS
  <2>1. CASE UNCHANGED vars
    <3>1. format = "7z" /\ SevenZInv
      BY <2>1 DEF vars
    <3>2. UNCHANGED <<svars, folders, open>>
      BY <2>1 DEF vars, sevenZOnly
    <3> USE <3>1, <3>2 DEF SevenZInv, svars, world, report
    <3>3. ListInv(SevenZEntry)'
      BY DEF ListInv, IsWorld, InNameOrder, SizesHold
    <3>4. SevenZPhases' /\ FolderInv'
      BY DEF SevenZPhases, FolderInv, Now, Units, Unit
    <3>5. ContentsInv'
      BY DEF ContentsInv, Good, Units, Unit
    <3> QED
      BY <3>3, <3>4, <3>5
  <2>2. CASE Next
    <3>1. format = "7z" /\ OfSevenZ!Next /\ SevenZInv
      BY <2>2 DEF Next
    <3> QED
      BY <3>1, SevenZKeepsList, SevenZMoves, SevenZKeepsContents DEF SevenZInv
  <2> QED
    BY <2>1, <2>2
<1> QED
  BY <1>1, <1>2, PTL DEF Spec

-----------------------------------------------------------------------------
(* Zip: the queue of the small files.                                       *)

SmallIn(ss) == {k \in DOMAIN ss : ss[k].kind = "file" /\ ss[k].size <= Threshold}
Queue(ss) ==
  [n \in 1 .. Cardinality(SmallIn(ss)) |->
     CHOOSE x \in SmallIn(ss) : Cardinality({y \in SmallIn(ss) : y < x}) = n - 1]

(* Every small file stands in it once, in the order of the list.            *)
LEMMA QueueFacts ==
  ASSUME NEW ss \in Seq(SourceRecord)
  PROVE  /\ SmallIn(ss) \subseteq 1 .. Len(ss) /\ Len(Queue(ss)) \in Nat
         /\ \A n \in 1 .. Len(Queue(ss)) : Queue(ss)[n] \in SmallIn(ss)
         /\ \A x \in SmallIn(ss) : \E n \in 1 .. Len(Queue(ss)) : Queue(ss)[n] = x
         /\ \A m, n \in 1 .. Len(Queue(ss)) : m < n => Queue(ss)[m] < Queue(ss)[n]
<1> DEFINE S == SmallIn(ss)
           q == [n \in 1 .. Cardinality(S) |-> CHOOSE x \in S : Cardinality({y \in S : y < x}) = n - 1]
<1>1. S \subseteq 1 .. Len(ss) /\ Len(ss) \in Nat
  BY DEF SmallIn
<1>2. IsFiniteSet(S) /\ S \in SUBSET Nat
  <2> HIDE DEF S
  <2>1. IsFiniteSet(1 .. Len(ss)) /\ 1 .. Len(ss) \subseteq Nat
    BY <1>1, CountUpto
  <2> QED
    BY <1>1, <2>1, FS_Subset
<1>3. q = Queue(ss)
  BY DEF Queue
<1> HIDE DEF S
<1>4. Sorted(q, S, Ascending(S))
  BY <1>2, AscendingSorts
<1> HIDE DEF q
<1>5. /\ q \in Seq(S) /\ Len(q) = Cardinality(S) /\ DOMAIN q = 1 .. Cardinality(S)
      /\ \A n \in DOMAIN q : q[n] \in S
      /\ \A x \in S : \E n \in DOMAIN q : q[n] = x
      /\ \A m, n \in DOMAIN q : m < n => q[m] \in Ascending(S)[q[n]]
  BY <1>4 DEF Sorted
<1>6. Len(q) \in Nat /\ DOMAIN q = 1 .. Len(q)
  BY <1>5
<1>7. \A m, n \in DOMAIN q : m < n => q[m] < q[n]
  BY <1>5 DEF Ascending
<1> QED
  BY <1>1, <1>3, <1>5, <1>6, <1>7 DEF S

(* The queue is ZipCreate's.                                                *)
LEMMA QueueIsSmall ==
  /\ OfZip!Small = Queue(sources)
  /\ \A k \in DOMAIN sources : OfZip!IsSmall(sources[k]) <=> k \in SmallIn(sources)
BY DEF OfZip!Small, OfZip!IsSmall, OfZip!InOrder, OfZip!Cardinality, Cardinality, Queue, SmallIn

(* Those taken are those whose turn is over.                                *)
InTurn(q, taken, turn) == \A n \in 1 .. Len(q) : n <= taken <=> q[n] < turn

(* The next to be taken is the one whose turn it is.                        *)
LEMMA QueueTurns ==
  ASSUME NEW ss \in Seq(SourceRecord), NEW k \in 1 .. Len(ss),
         NEW taken \in 0 .. Len(Queue(ss)), InTurn(Queue(ss), taken, k)
  PROVE  /\ k \in SmallIn(ss) => /\ taken + 1 \in 1 .. Len(Queue(ss)) /\ Queue(ss)[taken + 1] = k
                                 /\ InTurn(Queue(ss), taken + 1, k + 1)
         /\ k \notin SmallIn(ss) => InTurn(Queue(ss), taken, k + 1)
<1> DEFINE q == Queue(ss)
           S == SmallIn(ss)
<1>1. /\ S \subseteq 1 .. Len(ss) /\ Len(q) \in Nat
      /\ \A n \in 1 .. Len(q) : q[n] \in S
      /\ \A x \in S : \E n \in 1 .. Len(q) : q[n] = x
      /\ \A m, n \in 1 .. Len(q) : m < n => q[m] < q[n]
  BY QueueFacts
<1>2. \A n \in 1 .. Len(q) : n <= taken <=> q[n] < k
  BY DEF InTurn
<1>3. k \in Nat /\ \A n \in 1 .. Len(q) : q[n] \in Nat
  BY <1>1
<1> HIDE DEF q, S
<1>4. CASE k \notin S
  <2>1. \A n \in 1 .. Len(q) : q[n] < k + 1 <=> q[n] < k
    BY <1>1, <1>3, <1>4
  <2> QED
    BY <1>2, <1>4, <2>1 DEF InTurn, q, S
<1>5. CASE k \in S
  <2>1. PICK m \in 1 .. Len(q) : q[m] = k
    BY <1>1, <1>5
  <2>2. taken < m
    BY <1>2, <1>3, <2>1
  <2>3. m = taken + 1
    <3> SUFFICES ASSUME m # taken + 1 PROVE FALSE
      OBVIOUS
    <3>1. taken + 1 \in 1 .. Len(q) /\ taken + 1 < m /\ ~(taken + 1 <= taken)
      BY <1>1, <2>1, <2>2
    <3>2. q[taken + 1] < q[m] /\ ~(q[taken + 1] < k)
      BY <1>1, <1>2, <3>1
    <3> QED
      BY <2>1, <3>2
  <2>4. \A n \in 1 .. Len(q) : n <= taken + 1 <=> q[n] < k + 1
    <3> TAKE n \in 1 .. Len(q)
    <3>1. CASE n <= taken
      <4>1. q[n] < k
        BY <1>2, <3>1
      <4> QED
        BY <1>3, <3>1, <4>1
    <3>2. CASE n = taken + 1
      BY <1>3, <2>1, <2>3, <3>2
    <3>3. CASE n > taken + 1
      <4>1. q[m] < q[n]
        BY <1>1, <2>3, <3>3
      <4> QED
        BY <1>3, <2>1, <3>3, <4>1
    <3> QED
      BY <3>1, <3>2, <3>3
  <2> QED
    BY <1>5, <2>1, <2>3, <2>4 DEF InTurn, q, S
<1> QED
  BY <1>4, <1>5 DEF S

(* How large some of the sources are together is a sum.                     *)
Sizes(ss) == [k \in DOMAIN ss |-> ss[k].size]
LEMMA SizeIsSum ==
  ASSUME NEW ks \in SUBSET DOMAIN sources, IsFiniteSet(ks)
  PROVE  OfZip!SizeOf(ks) = SumFunctionOnSet(Sizes(sources), ks)
<1> DEFINE f == Sizes(sources)
           Solves(h) == h = [s \in SUBSET ks |-> IF s = {} THEN 0 ELSE sources[Some(s)].size + h[s \ {Some(s)}]]
           k == CHOOSE h : Solves(h)
<1>1. PICK h : IsSum(h, f, ks) /\ SumFunctionOnSet(f, ks) = h[ks]
  <2> HIDE DEF f
  <2> QED
    BY SumFunctionOnSetIsSum
<1>2. \A s \in SUBSET ks : s # {} => sources[Some(s)].size = f[Some(s)]
  BY SomeFacts DEF Sizes
<1> HIDE DEF f
<1>3. \A g : Solves(g) <=> IsSum(g, f, ks)
  <2> TAKE g
  <2>1. [s \in SUBSET ks |-> IF s = {} THEN 0 ELSE sources[Some(s)].size + g[s \ {Some(s)}]]
        = [s \in SUBSET ks |-> IF s = {} THEN 0 ELSE f[Some(s)] + g[s \ {Some(s)}]]
    BY <1>2
  <2> QED
    BY <2>1 DEF IsSum
<1>4. IsSum(k, f, ks)
  <2>1. Solves(h)
    BY <1>1, <1>3
  <2>2. Solves(k)
    BY <2>1
  <2> QED
    BY <1>3, <2>2
<1>5. k[ks] = h[ks]
  <2>1. ks \in SUBSET (ks \cap ks)
    OBVIOUS
  <2> HIDE DEF k
  <2> QED
    BY <1>1, <1>4, <2>1, SumUnique
<1>6. OfZip!SizeOf(ks) = k[ks]
  BY DEF OfZip!SizeOf, OfZip!Announced, OfZip!MapThenSumSet, OfZip!MapThenFoldSet, Some
<1> QED
  BY <1>1, <1>5, <1>6 DEF f

-----------------------------------------------------------------------------
(* Zip: the steps.                                                          *)

ZipEntry == [kind : {"dir", "link", "file"}, name : Seq(Nat), body : Seq(Token)]
ZipSlot == [source : Nat, from : Nat, upto : Nat, data : Seq(Token), state : {"waiting", "reading", "done", "failed"}]
IsLarge(s) == s.kind = "file" /\ s.size > Threshold
Pieces(n) == (n + Chunk - 1) \div Chunk
Edge(n, i) == IF i * Chunk <= n THEN i * Chunk ELSE n
NewSlot(k, from, upto) == [source |-> k, from |-> from, upto |-> upto, data |-> <<>>, state |-> "waiting"]

ZipTypes ==
  /\ next \in Nat /\ chunk \in Nat /\ ready \in Seq(ZipSlot) /\ slots \in Seq(ZipSlot)
  /\ \A j \in 1 .. Len(ready) : ready[j].source \in DOMAIN sources
  /\ \A j \in 1 .. Len(slots) : slots[j].source \in DOMAIN sources

ZipIdle == UNCHANGED <<next, ready, slots, chunk>>
ZipStays == UNCHANGED <<world, disk, changed, sources, at, entries>>
AllDone == \A j \in DOMAIN slots : slots[j].state = "done"

ZipBegins == phase = "begin" /\ phase' \in {"writing", "failed"} /\ (\E l : List(l)) /\ ZipIdle
ZipEnters(e) == phase' = "writing" /\ phase # "begin" /\ at <= Len(sources) /\ \E c, n : Finish(e, c, n)
ZipStores(e) ==
  /\ phase = "writing" /\ Now.kind \in {"dir", "link"}
  /\ \E b : e = [kind |-> Now.kind, name |-> Now.name, body |-> b] /\ (b = <<>> \/ b = Units(Now.path, 0, 1))
ZipEnds(e) ==
  /\ e = [kind |-> "file", name |-> Now.name, body |-> body]
  /\ \/ phase = "chunks" /\ slots = <<>> /\ chunk = Pieces(Now.size)
     \/ phase = "stream" /\ Len(body) >= disk[Now.path].len
ZipWrites(e) == ZipEnters(e) /\ ZipIdle /\ (ZipStores(e) \/ ZipEnds(e))
ZipTakes(e) ==
  /\ ZipEnters(e) /\ phase = "writing" /\ at \in SmallIn(sources) /\ ready # <<>>
  /\ e = [kind |-> "file", name |-> sources[Head(ready).source].name, body |-> Head(ready).data]
  /\ ready' = Tail(ready) /\ UNCHANGED <<next, slots, chunk>>

ZipFills ==
  /\ phase = "writing" /\ phase' = "wave" /\ at <= Len(sources) /\ at \in SmallIn(sources) /\ ready = <<>>
  /\ slots' = [j \in 1 .. OfZip!Wave |-> NewSlot(Queue(sources)[next + j], 0, sources[Queue(sources)[next + j]].size)]
  /\ UNCHANGED <<body, next, ready, chunk>> /\ ZipStays
ZipFilled ==
  /\ phase = "wave" /\ phase' = "writing" /\ AllDone
  /\ ready' = slots /\ next' = next + Len(slots) /\ slots' = <<>>
  /\ UNCHANGED <<body, chunk>> /\ ZipStays
Works(s, t) ==
  /\ t \in ZipSlot /\ t.source = s.source /\ t.from = s.from /\ t.upto = s.upto
  /\ LET p == sources[s.source].path
     IN \/ t.data = s.data /\ t.state \in {"reading", "failed"}
        \/ /\ phase = "wave" /\ Len(s.data) < disk[p].len
           /\ t.state = "reading" /\ t.data = Append(s.data, Unit(p, Len(s.data)))
        \/ phase = "wave" /\ Len(s.data) >= disk[p].len /\ t.state = "done" /\ t.data = s.data
        \/ phase = "chunks" /\ t.state = "done" /\ t.data = Units(p, s.from, s.upto)
ZipWorks(j, t) ==
  /\ phase \in {"wave", "chunks"} /\ phase' = phase
  /\ j \in 1 .. Len(slots) /\ Works(slots[j], t) /\ slots' = [slots EXCEPT ![j] = t]
  /\ UNCHANGED <<body, next, ready, chunk>> /\ ZipStays
ZipSplits ==
  /\ phase = "writing" /\ phase' = "chunks" /\ at <= Len(sources) /\ IsLarge(Now)
  /\ chunk' = 0 /\ UNCHANGED <<body, next, ready, slots>> /\ ZipStays
ZipOffers ==
  /\ phase = "chunks" /\ phase' = "chunks" /\ slots = <<>>
  /\ \E n \in 1 .. Pieces(Now.size) - chunk :
       slots' = [j \in 1 .. n |-> NewSlot(at, (chunk + j - 1) * Chunk, Edge(Now.size, chunk + j))]
  /\ UNCHANGED <<body, next, ready, chunk>> /\ ZipStays
ZipGathers ==
  /\ phase = "chunks" /\ phase' = "chunks" /\ AllDone
  /\ body' = body \o EndToEnd([j \in DOMAIN slots |-> slots[j].data])
  /\ chunk' = chunk + Len(slots) /\ slots' = <<>>
  /\ UNCHANGED <<next, ready>> /\ ZipStays
ZipOpens ==
  /\ phase = "writing" /\ phase' = "stream" /\ at <= Len(sources) /\ IsLarge(Now) /\ ~options.chunked
  /\ UNCHANGED body /\ ZipIdle /\ ZipStays
ZipStreams ==
  /\ phase = "stream" /\ phase' = "stream" /\ Len(body) < disk[Now.path].len
  /\ body' = Append(body, Unit(Now.path, Len(body)))
  /\ ZipIdle /\ ZipStays
ZipStops == phase' \in {"done", "failed"} /\ UNCHANGED body /\ ZipIdle /\ ZipStays
ZipChanges == Change /\ ZipIdle

(* A large file has at least one piece to offer, and its edges.             *)
LEMMA PieceFacts ==
  ASSUME NEW n \in Nat
  PROVE  /\ Pieces(n) \in Nat /\ Edge(n, 0) = 0 /\ Edge(n, Pieces(n)) = n
         /\ \A i \in Nat : /\ i * Chunk \in Nat /\ Edge(n, i) \in Nat /\ Edge(n, i) <= Edge(n, i + 1)
                           /\ i < Pieces(n) => Edge(n, i) = i * Chunk
<1> DEFINE q == Pieces(n)
<1>1. Chunk \in Nat \ {0}
  BY ZipAssumption
<1>2. q \in Nat /\ q * Chunk <= n + Chunk - 1 /\ n + Chunk - 1 < q * Chunk + Chunk
  BY <1>1 DEF Pieces
<1> HIDE DEF q
<1>3. \A i \in Nat : i * Chunk \in Nat /\ (i + 1) * Chunk = i * Chunk + Chunk
  BY <1>1
<1>4. ASSUME NEW i \in Nat, i < q PROVE i * Chunk <= n
  <2>1. PICK d \in Nat : q = i + 1 + d
    <3>1. q - i - 1 \in Nat /\ q = i + 1 + (q - i - 1)
      BY <1>2, <1>4
    <3> QED
      BY <3>1
  <2>2. q * Chunk = i * Chunk + Chunk + d * Chunk /\ d * Chunk \in Nat /\ i * Chunk \in Nat /\ q * Chunk \in Nat
    BY <1>1, <2>1
  <2> QED
    BY ONLY <1>1, <1>2, <2>2
<1>5. Edge(n, 0) = 0
  BY <1>1 DEF Edge
<1>6. Edge(n, q) = n
  <2>1. q * Chunk \in Nat /\ q * Chunk >= n
    BY <1>1, <1>2
  <2> QED
    BY <2>1 DEF Edge
<1>7. ASSUME NEW i \in Nat
      PROVE  /\ i * Chunk \in Nat /\ Edge(n, i) \in Nat /\ Edge(n, i) <= Edge(n, i + 1)
             /\ i < q => Edge(n, i) = i * Chunk
  <2>1. PICK a : a = i * Chunk
    OBVIOUS
  <2>2. a \in Nat /\ (i + 1) * Chunk = a + Chunk
    BY <1>3, <2>1
  <2>3. i < q => a <= n
    BY <1>4, <2>1
  <2>4. Edge(n, i) = (IF a <= n THEN a ELSE n) /\ Edge(n, i + 1) = (IF a + Chunk <= n THEN a + Chunk ELSE n)
    BY <2>1, <2>2 DEF Edge
  <2> QED
    BY ONLY <1>1, <2>1, <2>2, <2>3, <2>4
<1> QED
  BY <1>2, <1>5, <1>6, <1>7 DEF q

(* A part of a file's units.                                                *)
LEMMA PartsFacts ==
  ASSUME NEW p \in Paths, NEW a \in Nat, NEW b \in Nat
  PROVE  /\ Units(p, a, b) \in Seq(Token)
         /\ a <= b => Len(Units(p, a, b)) = b - a
         /\ \A k \in 1 .. b - a : Units(p, a, b)[k] = <<p, a + k - 1>>
<1>1. Units(p, a, b) = [k \in 1 .. b - a |-> <<p, a + k - 1>>]
  BY DEF Units, Unit
<1>2. \A k \in 1 .. b - a : <<p, a + k - 1>> \in Token
  <2> TAKE k \in 1 .. b - a
  <2>1. a + k - 1 \in Nat
    OBVIOUS
  <2> QED
    BY <2>1 DEF Token
<1>3. [k \in 1 .. b - a |-> <<p, a + k - 1>>] \in [1 .. b - a -> Token]
  BY <1>2
<1>4. CASE a <= b
  <2>1. PICK n \in Nat : n = b - a
    BY <1>4
  <2>2. Units(p, a, b) \in [1 .. n -> Token]
    BY <1>1, <1>3, <2>1
  <2>3. Units(p, a, b) \in Seq(Token) /\ Len(Units(p, a, b)) = n
    BY ONLY <2>1, <2>2
  <2>4. \A k \in 1 .. b - a : Units(p, a, b)[k] = <<p, a + k - 1>>
    BY <1>1
  <2> QED
    BY ONLY <1>4, <2>1, <2>3, <2>4
<1>5. CASE ~(a <= b)
  <2>1. 1 .. b - a = {} /\ 1 .. 0 = {}
    BY <1>5
  <2>2. Units(p, a, b) \in [1 .. 0 -> Token]
    BY <1>1, <1>3, <2>1
  <2> QED
    BY <1>5, <2>1, <2>2
<1> QED
  BY <1>4, <1>5

(* Two parts that meet.                                                     *)
LEMMA PartsJoin ==
  ASSUME NEW p \in Paths, NEW a \in Nat, NEW b \in Nat, NEW c \in Nat, a <= b, b <= c
  PROVE  Units(p, a, b) \o Units(p, b, c) = Units(p, a, c)
<1> DEFINE s == Units(p, a, b)
           t == Units(p, b, c)
           u == Units(p, a, c)
<1>1. /\ s \in Seq(Token) /\ Len(s) = b - a /\ \A k \in 1 .. b - a : s[k] = <<p, a + k - 1>>
      /\ t \in Seq(Token) /\ Len(t) = c - b /\ \A k \in 1 .. c - b : t[k] = <<p, b + k - 1>>
      /\ u \in Seq(Token) /\ Len(u) = c - a /\ \A k \in 1 .. c - a : u[k] = <<p, a + k - 1>>
  <2>1. a <= c
    OBVIOUS
  <2>2. s \in Seq(Token) /\ Len(s) = b - a /\ \A k \in 1 .. b - a : s[k] = <<p, a + k - 1>>
    BY PartsFacts
  <2>3. t \in Seq(Token) /\ Len(t) = c - b /\ \A k \in 1 .. c - b : t[k] = <<p, b + k - 1>>
    BY PartsFacts
  <2>4. u \in Seq(Token) /\ Len(u) = c - a /\ \A k \in 1 .. c - a : u[k] = <<p, a + k - 1>>
    BY <2>1, PartsFacts
  <2> QED
    BY <2>2, <2>3, <2>4
<1> HIDE DEF s, t, u
<1>2. /\ s \o t \in Seq(Token) /\ Len(s \o t) = Len(s) + Len(t)
      /\ \A k \in 1 .. Len(s) : (s \o t)[k] = s[k]
      /\ \A k \in 1 .. Len(t) : (s \o t)[Len(s) + k] = t[k]
  <2>1. s \in Seq(Token) /\ t \in Seq(Token)
    BY <1>1
  <2> QED
    BY ONLY <2>1, ConcatFacts
<1>3. PICK v : v = s \o t
  OBVIOUS
<1>4. \A k \in 1 .. c - a : v[k] = u[k]
  <2> TAKE k \in 1 .. c - a
  <2>1. CASE k <= b - a
    <3>1. k \in 1 .. b - a
      BY <2>1
    <3> QED
      BY ONLY <1>1, <1>2, <1>3, <3>1
  <2>2. CASE k > b - a
    <3>1. PICK m \in 1 .. c - b : k = b - a + m /\ b + m - 1 = a + k - 1
      <4>1. k - (b - a) \in 1 .. c - b /\ k = b - a + (k - (b - a)) /\ b + (k - (b - a)) - 1 = a + k - 1
        BY <2>2
      <4> QED
        BY <4>1
    <3>2. v[k] = t[m]
      BY ONLY <1>1, <1>2, <1>3, <3>1
    <3>3. t[m] = <<p, b + m - 1>> /\ u[k] = <<p, a + k - 1>>
      BY ONLY <1>1, <3>1
    <3> QED
      BY ONLY <3>1, <3>2, <3>3
  <2> QED
    BY <2>1, <2>2
<1>5. v \in Seq(Token) /\ Len(v) = c - a
  BY SMTT(40), <1>1, <1>2, <1>3
<1>6. v = u
  BY ONLY <1>1, <1>4, <1>5, SameSequence
<1> QED
  BY <1>3, <1>6 DEF s, t, u

(* Parts that meet one after another are one part.                          *)
LEMMA PartsLaidOut ==
  ASSUME NEW p \in Paths, NEW ss \in Seq(Seq(Token)), NEW e \in [0 .. Len(ss) -> Nat],
         \A j \in 1 .. Len(ss) : e[j - 1] <= e[j] /\ ss[j] = Units(p, e[j - 1], e[j])
  PROVE  e[0] <= e[Len(ss)] /\ EndToEnd(ss) = Units(p, e[0], e[Len(ss)])
<1> DEFINE n == Len(ss)
           Upto(m) == SubSeq(ss, 1, m)
           Bad == {m \in 0 .. n : ~(e[0] <= e[m] /\ EndToEnd(Upto(m)) = Units(p, e[0], e[m]))}
<1>0. n \in Nat /\ \A m \in 0 .. n : Upto(m) \in Seq(Seq(Token)) /\ e[m] \in Nat
  OBVIOUS
<1>1. Bad = {}
  <2> SUFFICES ASSUME Bad # {} PROVE FALSE
    OBVIOUS
  <2>1. Bad \in SUBSET Nat
    BY <1>0
  <2>2. PICK m \in Bad : \A l \in Bad : m <= l
    <3> HIDE DEF Bad
    <3> QED
      BY <2>1, LeastNat
  <2>3. m \in 0 .. n /\ m \in Nat /\ m <= n
    BY <1>0, <2>2
  <2>4. CASE m = 0
    <3>1. Upto(0) = <<>>
      OBVIOUS
    <3>2. EndToEnd(<<>>) = <<>>
      BY EndToEndFacts
    <3>3. Units(p, e[0], e[0]) = <<>>
      <4>1. e[0] \in Nat
        BY <1>0
      <4>2. Units(p, e[0], e[0]) \in Seq(Token) /\ Len(Units(p, e[0], e[0])) = 0
        <5>1. e[0] <= e[0] /\ e[0] - e[0] = 0
          BY <4>1
        <5>2. Units(p, e[0], e[0]) \in Seq(Token) /\ Len(Units(p, e[0], e[0])) = e[0] - e[0]
          BY <4>1, <5>1, PartsFacts
        <5> QED
          BY <5>1, <5>2
      <4> QED
        BY <4>2
    <3>4. e[0] <= e[0]
      BY <1>0
    <3> QED
      BY <2>2, <2>4, <3>1, <3>2, <3>3, <3>4
  <2>5. CASE m # 0
    <3>1. PICK k \in Nat : m = k + 1
      <4>1. m - 1 \in Nat /\ m = m - 1 + 1
        BY <2>3, <2>5
      <4> QED
        BY <4>1
    <3>2. k \in 0 .. n /\ m \in 1 .. n /\ m - 1 = k /\ ~(m <= k)
      BY <1>0, <2>3, <3>1
    <3>3. k \notin Bad
      BY <2>2, <3>2
    <3>4. e[0] <= e[k] /\ EndToEnd(Upto(k)) = Units(p, e[0], e[k])
      BY <3>2, <3>3
    <3>5. e[k] <= e[m] /\ ss[m] = Units(p, e[k], e[m])
      BY <3>2
    <3>6. Upto(m) = Append(Upto(k), ss[m])
      BY SMTT(40), <1>0, <3>1, <3>2
    <3>7. e[0] \in Nat /\ e[k] \in Nat /\ e[m] \in Nat
      BY <1>0, <3>2
    <3>8. Upto(k) \in Seq(Seq(Token)) /\ ss[m] \in Seq(Token)
      BY <1>0, <3>2
    <3> HIDE DEF Upto
    <3>9. EndToEnd(Upto(m)) = EndToEnd(Upto(k)) \o ss[m]
      BY <3>6, <3>8, EndToEndFacts
    <3>10. Units(p, e[0], e[k]) \o Units(p, e[k], e[m]) = Units(p, e[0], e[m])
      BY ONLY ZenonT(40), <3>4, <3>5, <3>7, PartsJoin
    <3>11. e[0] <= e[m]
      BY ONLY <3>4, <3>5, <3>7
    <3> QED
      BY <2>2, <3>4, <3>5, <3>9, <3>10, <3>11
  <2> QED
    BY <2>4, <2>5
<1>2. Upto(n) = ss /\ n \in 0 .. n
  BY <1>0
<1> QED
  BY <1>1, <1>2

(* Every step is one of these.                                              *)
LEMMA ZipSteps ==
  ASSUME ListInv(ZipEntry), ZipTypes, OfZip!Next, phase \in {"chunks", "stream"} => at <= Len(sources),
         phase \in {"writing", "stream"} => slots = <<>>
  PROVE  \/ ZipBegins \/ (\E e : ZipWrites(e) \/ ZipTakes(e)) \/ ZipFills \/ ZipFilled \/ (\E j, t : ZipWorks(j, t))
         \/ ZipSplits \/ ZipOffers \/ ZipGathers \/ ZipOpens \/ ZipStreams \/ ZipStops \/ ZipChanges
<1>1. /\ OfZip!Now = Now /\ OfZip!world = world /\ OfZip!svars = svars /\ (OfZip!Fail => Fail)
      /\ \A e, c, n : OfZip!Finish(e, c, n) => Finish(e, c, n)
      /\ \A k : OfZip!Turn(k) => Turn(k)
      /\ \A p, a, b : OfZip!Units(p, a, b) = Units(p, a, b)
      /\ \A p, a : OfZip!Unit(p, a) = Unit(p, a)
      /\ \A k, d : OfZip!Entry(k, d) = Entry(k, d)
  BY OfZipSources
<1>2. Fail => phase' = "failed" /\ UNCHANGED body /\ ZipStays
  BY DEF Fail, ZipStays
<1>3. ASSUME at <= Len(sources)
      PROVE  /\ at \in DOMAIN sources /\ phase # "begin"
             /\ OfZip!IsSmall(Now) => at \in SmallIn(sources)
             /\ OfZip!IsLarge(Now) => IsLarge(Now)
  <2>1. at \in 1 .. Len(sources) /\ phase # "begin"
    BY <1>3, NowFacts
  <2>2. sources \in Seq(SourceRecord)
    BY DEF ListInv
  <2>3. at \in DOMAIN sources
    BY <2>1, <2>2
  <2> QED
    BY <2>1, <2>3 DEF OfZip!IsSmall, SmallIn, OfZip!IsLarge, IsLarge, Now
<1>4. CASE OfZip!ZBegin
  <2>1. (\E l : List(l)) /\ phase' \in {"writing", "failed"} /\ ZipIdle
    BY <1>4, OfZipSources DEF OfZip!ZBegin, ZipIdle
  <2>2. phase = "begin"
    BY <2>1 DEF List
  <2> QED
    BY <2>1, <2>2 DEF ZipBegins
<1>5. CASE OfZip!Fill
  <2>1. /\ phase = "writing" /\ at <= Len(sources) /\ ready = <<>> /\ phase' = "wave" /\ OfZip!IsSmall(Now)
        /\ slots' = [j \in 1 .. OfZip!Wave |-> NewSlot(Queue(sources)[next + j], 0, sources[Queue(sources)[next + j]].size)]
        /\ UNCHANGED <<body, next, ready, chunk>> /\ ZipStays
    BY <1>1, <1>5, QueueIsSmall DEF OfZip!Fill, Turn, ZipStays, OfZip!world, world, NewSlot, OfZip!Slot
  <2> QED
    BY <1>3, <2>1 DEF ZipFills
<1>6. CASE OfZip!Filled
  BY <1>1, <1>6 DEF OfZip!Filled, ZipFilled, ZipStays, OfZip!world, world, AllDone
<1>7. CASE OfZip!Take
  <2> DEFINE e == [kind |-> "file", name |-> sources[Head(ready).source].name, body |-> Head(ready).data]
  <2>1. /\ Finish(e, "files", Len(Head(ready).data)) /\ Turn("file") /\ ready # <<>> /\ OfZip!IsSmall(Now)
        /\ ready' = Tail(ready) /\ phase' = phase /\ UNCHANGED <<next, slots, chunk>>
    BY <1>1, <1>7 DEF OfZip!Take
  <2>2. ZipTakes(e)
    BY <1>3, <2>1 DEF ZipTakes, ZipEnters, Turn
  <2> QED
    BY <2>2
<1>8. ASSUME NEW j \in DOMAIN slots, NEW t, OfZip!Work, phase' = phase, Works(slots[j], t), slots' = [slots EXCEPT ![j] = t],
             UNCHANGED <<body, next, ready, chunk>>, ZipStays
      PROVE  ZipWorks(j, t)
  <2>1. j \in 1 .. Len(slots)
    BY DEF ZipTypes
  <2> QED
    BY <1>8, <2>1 DEF ZipWorks, OfZip!Work
<1>9. ASSUME NEW j \in DOMAIN slots
      PROVE  /\ slots[j] \in ZipSlot /\ sources[slots[j].source].path \in Paths
             /\ OfZip!PathOf(j) = sources[slots[j].source].path
  <2>1. slots[j] \in ZipSlot /\ slots[j].source \in DOMAIN sources
    BY DEF ZipTypes
  <2>2. sources[slots[j].source] \in SourceRecord
    BY <2>1 DEF ListInv
  <2> QED
    BY <2>1, <2>2 DEF SourceRecord, OfZip!PathOf
<1>10. CASE \E j \in DOMAIN slots : OfZip!Open(j)
  <2>1. PICK j \in DOMAIN slots : OfZip!Open(j)
    BY <1>10
  <2>2. PICK c \in {"reading", "failed"} : slots' = [slots EXCEPT ![j].state = c]
    BY <2>1 DEF OfZip!Open
  <2> DEFINE t == [slots[j] EXCEPT !.state = c]
  <2>3. Works(slots[j], t)
    BY <1>9 DEF Works, ZipSlot
  <2>4. /\ OfZip!Work /\ phase' = phase /\ slots' = [slots EXCEPT ![j] = t]
        /\ UNCHANGED <<body, next, ready, chunk>> /\ ZipStays
    BY <1>1, <2>1, <2>2 DEF OfZip!Open, OfZip!svars, OfZip!report, ZipStays, OfZip!world, world
  <2> QED
    BY <1>8, <2>3, <2>4
<1>11. CASE \E j \in DOMAIN slots : OfZip!ReadSmall(j)
  <2>1. PICK j \in DOMAIN slots : OfZip!ReadSmall(j)
    BY <1>11
  <2> DEFINE s == slots[j]
             p == sources[s.source].path
  <2>2. /\ phase = "wave" /\ OfZip!Work /\ phase' = phase /\ s.state = "reading"
        /\ UNCHANGED <<body, next, ready, chunk>> /\ ZipStays
    BY <1>1, <2>1 DEF OfZip!ReadSmall, OfZip!Work, ZipStays, OfZip!world, world
  <2>3. s \in ZipSlot /\ p \in Paths /\ OfZip!PathOf(j) = p
    BY <1>9
  <2>4. /\ s.data \in Seq(Token) /\ Len(s.data) \in Nat /\ disk[p].len \in Nat
    <3>1. disk \in [Paths -> Node]
      BY DEF ListInv, IsWorld
    <3> QED
      BY <2>3, <3>1 DEF ZipSlot, Node
  <2>5. CASE Len(s.data) < disk[p].len
    <3> DEFINE t == [s EXCEPT !.data = Append(s.data, Unit(p, Len(s.data)))]
    <3>1. slots' = [slots EXCEPT ![j] = t]
      BY <1>1, <2>1, <2>3, <2>5 DEF OfZip!ReadSmall
    <3>2. Unit(p, Len(s.data)) \in Token
      BY <2>3, <2>4, UnitsFacts
    <3>3. Append(s.data, Unit(p, Len(s.data))) \in Seq(Token)
      BY <2>4, <3>2, AppendProperties
    <3> HIDE DEF s, p
    <3>4. Works(s, t)
      BY <2>2, <2>3, <2>5, <3>3 DEF Works, ZipSlot, p
    <3> QED
      BY <1>8, <2>2, <3>1, <3>4 DEF s
  <2>6. CASE ~(Len(s.data) < disk[p].len)
    <3> DEFINE t == [s EXCEPT !.state = "done"]
    <3>1. slots' = [slots EXCEPT ![j] = t]
      BY <2>1, <2>3, <2>6 DEF OfZip!ReadSmall
    <3>2. Len(s.data) >= disk[p].len
      BY <2>4, <2>6
    <3> HIDE DEF s, p
    <3>3. Works(s, t)
      BY <2>2, <2>3, <3>2 DEF Works, ZipSlot, p
    <3> QED
      BY <1>8, <2>2, <3>1, <3>3 DEF s
  <2> QED
    BY <2>5, <2>6
<1>12. CASE \E j \in DOMAIN slots : OfZip!ReadChunk(j)
  <2>1. PICK j \in DOMAIN slots : OfZip!ReadChunk(j)
    BY <1>12
  <2> DEFINE s == slots[j]
             p == sources[s.source].path
  <2>2. /\ phase = "chunks" /\ OfZip!Work /\ phase' = phase
        /\ UNCHANGED <<body, next, ready, chunk>> /\ ZipStays
    BY <1>1, <2>1 DEF OfZip!ReadChunk, OfZip!Work, ZipStays, OfZip!world, world
  <2>3. s \in ZipSlot /\ p \in Paths /\ OfZip!PathOf(j) = p
    BY <1>9
  <2>4. CASE disk[p].len < s.upto
    <3> DEFINE t == [s EXCEPT !.state = "failed"]
    <3>1. slots' = [slots EXCEPT ![j] = t]
      BY <2>1, <2>3, <2>4 DEF OfZip!ReadChunk
    <3> HIDE DEF s, p
    <3>2. Works(s, t)
      BY <2>3 DEF Works, ZipSlot
    <3> QED
      BY <1>8, <2>2, <3>1, <3>2 DEF s
  <2>5. CASE ~(disk[p].len < s.upto)
    <3> DEFINE t == [s EXCEPT !.data = Units(p, s.from, s.upto), !.state = "done"]
    <3>1. slots' = [slots EXCEPT ![j] = t]
      <4>1. slots' = [[slots EXCEPT ![j] = [slots[j] EXCEPT !.data = Units(p, s.from, s.upto)]]
                        EXCEPT ![j] = [[slots EXCEPT ![j] = [slots[j] EXCEPT !.data = Units(p, s.from, s.upto)]][j]
                                         EXCEPT !.state = "done"]]
        BY <1>1, <2>1, <2>3, <2>5 DEF OfZip!ReadChunk
      <4> QED
        BY <4>1
    <3>2. Units(p, s.from, s.upto) \in Seq(Token)
      BY <2>3, PartsFacts DEF ZipSlot
    <3> HIDE DEF s, p
    <3>3. Works(s, t)
      BY <2>2, <2>3, <3>2 DEF Works, ZipSlot, p
    <3> QED
      BY <1>8, <2>2, <3>1, <3>3 DEF s
  <2> QED
    BY <2>4, <2>5
<1>13. CASE OfZip!WaveFails \/ OfZip!WorkerCannotOpen
  BY <1>1, <1>2, <1>13 DEF OfZip!WaveFails, OfZip!WorkerCannotOpen, ZipStops, ZipIdle
<1>14. CASE OfZip!StartLarge
  <2>1. /\ phase = "writing" /\ phase' = "chunks" /\ at <= Len(sources) /\ OfZip!IsLarge(Now)
        /\ chunk' = 0 /\ UNCHANGED <<body, next, ready, slots>> /\ ZipStays
    BY <1>1, <1>14 DEF OfZip!StartLarge, ZipStays, OfZip!world, world
  <2> QED
    BY <1>3, <2>1 DEF ZipSplits
<1>15. CASE OfZip!StartChunks
  <2> DEFINE n == OfZip!LeastOf(OfZip!Chunks - chunk, Threads)
  <2>1. phase = "chunks" /\ slots = <<>> /\ chunk < OfZip!Chunks /\ OfZip!svars' = OfZip!svars /\ UNCHANGED <<next, ready, chunk>>
    BY <1>15 DEF OfZip!StartChunks
  <2>2. OfZip!Chunks = Pieces(Now.size) /\ Pieces(Now.size) \in Nat /\ chunk \in Nat /\ Now.size \in Nat
    <3>1. Now.size \in Nat
      BY <2>1, NowFacts
    <3> QED
      BY <1>1, <3>1, PieceFacts DEF OfZip!Chunks, Pieces, ZipTypes
  <2>3. n \in 1 .. Pieces(Now.size) - chunk
    BY <2>1, <2>2, ThreadsAssumption DEF OfZip!LeastOf
  <2>4. \A j \in 1 .. n : OfZip!ChunkOf(j) = NewSlot(at, (chunk + j - 1) * Chunk, Edge(Now.size, chunk + j))
    <3> TAKE j \in 1 .. n
    <3>1. chunk + j - 1 + 1 = chunk + j
      BY <2>2, <2>3
    <3> QED
      BY <1>1, <3>1 DEF OfZip!ChunkOf, OfZip!Slot, NewSlot, OfZip!LeastOf, Edge
  <2>5. slots' = [j \in 1 .. n |-> OfZip!ChunkOf(j)]
    BY <1>15 DEF OfZip!StartChunks
  <2> HIDE DEF n
  <2>6. slots' = [j \in 1 .. n |-> NewSlot(at, (chunk + j - 1) * Chunk, Edge(Now.size, chunk + j))]
    BY <2>4, <2>5
  <2>7. phase' = phase /\ UNCHANGED body /\ ZipStays
    BY <2>1 DEF OfZip!svars, OfZip!report, ZipStays, OfZip!world, world
  <2> QED
    BY <2>1, <2>3, <2>6, <2>7 DEF ZipOffers
<1>16. CASE OfZip!ChunksDone
  <2>1. OfZip!FlattenSeq([j \in DOMAIN slots |-> slots[j].data]) = EndToEnd([j \in DOMAIN slots |-> slots[j].data])
    BY DEF OfZip!FlattenSeq, EndToEnd, Flatten
  <2> QED
    BY <1>1, <1>16, <2>1 DEF OfZip!ChunksDone, ZipGathers, ZipStays, OfZip!world, world, AllDone
<1>17. ASSUME NEW e, NEW c, NEW n, Finish(e, c, n), phase' = "writing", phase # "begin", at <= Len(sources), ZipIdle,
              ZipStores(e) \/ ZipEnds(e)
       PROVE  ZipWrites(e)
  BY <1>17 DEF ZipWrites, ZipEnters
<1>18. CASE OfZip!EndLarge
  <2> DEFINE e == [kind |-> "file", name |-> Now.name, body |-> body]
  <2>1. /\ phase = "chunks" /\ slots = <<>> /\ chunk = OfZip!Chunks /\ phase' = "writing"
        /\ Finish(e, "files", Now.size) /\ ZipIdle
    BY <1>1, <1>18 DEF OfZip!EndLarge, Entry, ZipIdle
  <2>2. ZipEnds(e)
    BY <1>1, <2>1 DEF ZipEnds, OfZip!Chunks, Pieces
  <2> QED
    BY <1>17, <2>1, <2>2
<1>19. CASE OfZip!StartStream
  <2>1. /\ phase = "writing" /\ phase' \in {"stream", "failed"} /\ at <= Len(sources) /\ OfZip!IsLarge(Now) /\ ~options.chunked
        /\ UNCHANGED body /\ ZipIdle /\ ZipStays
    BY <1>1, <1>19 DEF OfZip!StartStream, ZipStays, OfZip!world, world, ZipIdle
  <2> QED
    BY <1>3, <2>1 DEF ZipOpens, ZipStops
<1>20. CASE OfZip!Stream
  <2>1. /\ phase = "stream" /\ phase' = phase /\ Len(body) < disk[Now.path].len
        /\ body' = Append(body, Unit(Now.path, Len(body)))
        /\ ZipIdle /\ ZipStays
    BY <1>1, <1>20 DEF OfZip!Stream, ZipStays, OfZip!world, world, ZipIdle
  <2> QED
    BY <2>1 DEF ZipStreams
<1>21. CASE OfZip!EndStream
  <2> DEFINE e == [kind |-> "file", name |-> Now.name, body |-> body]
  <2>1. /\ phase = "stream" /\ Len(body) >= disk[Now.path].len /\ phase' = "writing"
        /\ Finish(e, "files", Now.size) /\ ZipIdle
    BY <1>1, <1>21 DEF OfZip!EndStream, Entry, ZipIdle
  <2>2. ZipEnds(e)
    BY <2>1 DEF ZipEnds
  <2> QED
    BY <1>17, <2>1, <2>2
<1>22. CASE OfZip!Others /\ UNCHANGED <<next, ready, slots, chunk>>
  <2>1. CannotCollect \/ SymlinkGone \/ WriteFails => Fail
    BY DEF CannotCollect, SymlinkGone, WriteFails
  <2>2. ZipIdle /\ (Fail \/ WriteDirectory \/ WriteSymlink \/ Close \/ Change)
    BY <1>22, <2>1, OfZipSources DEF OfZip!Others, ZipIdle
  <2>3. CASE WriteDirectory
    <3> DEFINE e == [kind |-> "dir", name |-> Now.name, body |-> <<>>]
    <3>1. Finish(e, "directories", 0) /\ phase' = phase /\ phase = "writing" /\ at <= Len(sources) /\ Now.kind = "dir"
      BY <2>3 DEF WriteDirectory, Entry, Turn, Now
    <3>2. ZipStores(e)
      BY <3>1 DEF ZipStores
    <3> QED
      BY <1>17, <2>2, <3>1, <3>2
  <2>4. CASE WriteSymlink
    <3> DEFINE e == [kind |-> "link", name |-> Now.name, body |-> Units(Now.path, 0, 1)]
    <3>1. Finish(e, "symlinks", 0) /\ phase' = phase /\ phase = "writing" /\ at <= Len(sources) /\ Now.kind = "link"
      BY <2>4 DEF WriteSymlink, Entry, Turn, Now
    <3>2. ZipStores(e)
      BY <3>1 DEF ZipStores
    <3> QED
      BY <1>17, <2>2, <3>1, <3>2
  <2>5. CASE Close
    BY <2>2, <2>5 DEF Close, ZipStops, ZipStays
  <2>6. CASE Change
    BY <2>2, <2>6 DEF ZipChanges
  <2>7. CASE Fail
    BY <1>2, <2>2, <2>7 DEF ZipStops
  <2> QED
    BY <2>2, <2>3, <2>4, <2>5, <2>6, <2>7
<1> QED
  BY <1>4, <1>5, <1>6, <1>7, <1>10, <1>11, <1>12, <1>13, <1>14, <1>15, <1>16, <1>18, <1>19, <1>20, <1>21, <1>22 DEF OfZip!Next

-----------------------------------------------------------------------------
(* Zip: the invariant.                                                      *)

ZipPhases ==
  /\ phase \in {"begin", "writing", "wave", "chunks", "stream", "done", "failed"}
  /\ body \in Seq(Token)
  /\ phase \in {"begin", "writing", "wave"} => body = <<>>
  /\ phase \in {"begin", "writing", "stream"} => slots = <<>>
  /\ phase = "begin" => next = 0 /\ ready = <<>>
  /\ phase = "wave" => ready = <<>>
  /\ phase = "chunks" => /\ at <= Len(sources) /\ IsLarge(Now) /\ chunk <= Pieces(Now.size)
                         /\ body = Units(Now.path, 0, Edge(Now.size, chunk))
  /\ phase = "stream" => /\ at <= Len(sources) /\ IsLarge(Now) /\ ~options.chunked
                         /\ body = Units(Now.path, 0, Len(body))
                         /\ Now.path \notin changed => Len(body) <= Now.size

(* Slot n of the queue is j places behind those that were taken.            *)
Follows(ts, q, taken) == \A j \in 1 .. Len(ts) : ts[j].source = q[taken + j]
QueueInv ==
  /\ next <= Len(Queue(sources)) /\ Len(ready) <= next
  /\ InTurn(Queue(sources), next - Len(ready), at)
  /\ Follows(ready, Queue(sources), next - Len(ready))
  /\ phase = "wave" => next + Len(slots) <= Len(Queue(sources)) /\ Follows(slots, Queue(sources), next)

(* What a slot has read, of a small file and of a piece of a large one.     *)
HasRead(t) ==
  LET s == sources[t.source]
  IN /\ t.data = Units(s.path, 0, Len(t.data))
     /\ s.path \notin changed => Len(t.data) <= s.size /\ (t.state = "done" => Len(t.data) = s.size)
IsPiece(t, i) ==
  /\ t.source = at /\ t.from = Edge(Now.size, i) /\ t.upto = Edge(Now.size, i + 1)
  /\ t.state = "done" => t.data = Units(Now.path, t.from, t.upto)
SlotsInv ==
  /\ \A j \in 1 .. Len(ready) : ready[j].state = "done" /\ HasRead(ready[j])
  /\ phase = "wave" => \A j \in 1 .. Len(slots) : HasRead(slots[j])
  /\ phase = "chunks" => /\ chunk + Len(slots) <= Pieces(Now.size)
                         /\ \A j \in 1 .. Len(slots) : IsPiece(slots[j], chunk + j - 1)

(* The small files that are held.                                           *)
SourcesOf(ts) == {ts[j].source : j \in 1 .. Len(ts)}
HeldSmall(ss, ts, rs) == (SourcesOf(ts) \cup SourcesOf(rs)) \cap SmallIn(ss)
IsBounded(T, ss) ==
  Cardinality(T) <= 1 \/ (Cardinality(T) <= Threads /\ SumFunctionOnSet(Sizes(ss), T) <= Budget)
HeldInv == IsBounded(HeldSmall(sources, slots, ready), sources)

ZipHolds(e, s) ==
  /\ e.body = Units(s.path, 0, Len(e.body))
  /\ s.path \notin changed \/ (IsLarge(s) /\ options.chunked) => Len(e.body) = s.size
ReadInv == \A k \in 1 .. Len(entries) : entries[k].kind = "file" => ZipHolds(entries[k], sources[k])

ZipInv == ListInv(ZipEntry) /\ ZipTypes /\ ZipPhases /\ QueueInv /\ SlotsInv /\ HeldInv /\ ReadInv

(* The steps, as a disjunction that the lemmas below go through.            *)
ZipMoves ==
  \/ ZipBegins \/ (\E e : ZipWrites(e) \/ ZipTakes(e)) \/ ZipFills \/ ZipFilled \/ (\E j, t : ZipWorks(j, t))
  \/ ZipSplits \/ ZipOffers \/ ZipGathers \/ ZipOpens \/ ZipStreams \/ ZipStops \/ ZipChanges

(* A wave takes at least one file of the queue, and no more than there are  *)
(* threads; of several the sizes fit in the budget.                         *)
LEMMA WaveFacts ==
  ASSUME ListInv(ZipEntry), ZipTypes, next < Len(Queue(sources))
  PROVE  /\ OfZip!Wave \in 1 .. Threads /\ next + OfZip!Wave <= Len(Queue(sources))
         /\ OfZip!Wave = 1 \/ OfZip!Fits(OfZip!Wave)
<1> DEFINE q == Queue(sources)
           W == {w \in OfZip!Waves : w = 1 \/ OfZip!Fits(w)}
           c == OfZip!ThreadCount(Len(q))
<1>1. Len(q) \in Nat /\ next \in Nat /\ Threads \in Nat \ {0} /\ OfZip!Small = q
  <2>1. sources \in Seq(SourceRecord)
    BY DEF ListInv
  <2> QED
    BY <2>1, QueueFacts, QueueIsSmall, ThreadsAssumption DEF ZipTypes
<1> HIDE DEF q
<1>2. next < Len(q) /\ Len(q) # 0
  BY <1>1 DEF q
<1>3. c \in 1 .. Threads
  <2>1. OfZip!Max({Len(q), 1}) \in Nat /\ OfZip!Max({Len(q), 1}) >= 1
    <3>1. {Len(q), 1} \in SUBSET Nat /\ {Len(q), 1} # {} /\ IsFiniteSet({Len(q), 1})
      <4>1. {Len(q), 1} = {Len(q)} \cup {1}
        OBVIOUS
      <4>2. IsFiniteSet({Len(q)})
        BY FS_Singleton
      <4>3. IsFiniteSet({Len(q)} \cup {1})
        BY <4>2, FS_AddElement
      <4>4. IsFiniteSet({Len(q), 1})
        BY ONLY <4>1, <4>3
      <4> QED
        BY ONLY <1>1, <4>4
    <3>2. Max({Len(q), 1}) \in {Len(q), 1} /\ \A x \in {Len(q), 1} : x <= Max({Len(q), 1})
      BY <3>1, MaxFacts
    <3>3. OfZip!Max({Len(q), 1}) = Max({Len(q), 1})
      BY DEF OfZip!Max, Max
    <3> QED
      BY <1>1, <3>2, <3>3
  <2> QED
    BY <1>1, <2>1 DEF OfZip!ThreadCount, OfZip!LeastOf
<1>4. OfZip!Waves = {w \in 1 .. c : next + w <= Len(q)}
  BY <1>1 DEF OfZip!Waves
<1>5. 1 \in W /\ W \subseteq 1 .. c
  BY <1>1, <1>2, <1>3, <1>4
<1>6. \A w \in W : w \in 1 .. c /\ next + w <= Len(q) /\ (w = 1 \/ OfZip!Fits(w))
  BY <1>4
<1> HIDE DEF W, c
<1>7. W \in SUBSET Nat /\ IsFiniteSet(W) /\ W # {}
  <2>1. IsFiniteSet(1 .. c) /\ 1 .. c \subseteq Nat
    BY <1>3, CountUpto
  <2> QED
    BY <1>5, <2>1, FS_Subset
<1>8. Max(W) \in W
  BY <1>7, MaxFacts
<1>9. OfZip!Wave = Max(W)
  BY DEF OfZip!Wave, OfZip!Max, Max, W
<1>10. OfZip!Wave \in W
  BY <1>8, <1>9
<1>11. OfZip!Wave \in 1 .. c /\ next + OfZip!Wave <= Len(q) /\ (OfZip!Wave = 1 \/ OfZip!Fits(OfZip!Wave))
  BY <1>6, <1>10
<1> QED
  BY <1>1, <1>3, <1>11 DEF q

(* A sequence of new slots.                                                 *)
SlotsFor(n, f, a, b) == [j \in 1 .. n |-> NewSlot(f[j], a[j], b[j])]
LEMMA NewSlots ==
  ASSUME NEW n \in Nat, NEW f \in [1 .. n -> Nat], NEW a \in [1 .. n -> Nat], NEW b \in [1 .. n -> Nat]
  PROVE  /\ SlotsFor(n, f, a, b) \in Seq(ZipSlot) /\ Len(SlotsFor(n, f, a, b)) = n
         /\ \A j \in 1 .. n : SlotsFor(n, f, a, b)[j] = NewSlot(f[j], a[j], b[j])
<1>1. <<>> \in Seq(Token)
  OBVIOUS
<1>2. ASSUME NEW j \in 1 .. n PROVE NewSlot(f[j], a[j], b[j]) \in ZipSlot
  BY <1>1, <1>2 DEF NewSlot, ZipSlot
<1>3. SlotsFor(n, f, a, b) \in [1 .. n -> ZipSlot]
  BY <1>2 DEF SlotsFor
<1>4. \A j \in 1 .. n : SlotsFor(n, f, a, b)[j] = NewSlot(f[j], a[j], b[j])
  BY DEF SlotsFor
<1>5. SlotsFor(n, f, a, b) \in Seq(ZipSlot) /\ Len(SlotsFor(n, f, a, b)) = n
  BY ONLY <1>3
<1> QED
  BY ONLY <1>4, <1>5

(* What the queue is while the zip is written.                              *)
LEMMA QueueHolds ==
  ASSUME ListInv(ZipEntry), ZipTypes, QueueInv
  PROVE  /\ sources \in Seq(SourceRecord) /\ Len(Queue(sources)) \in Nat /\ next \in 0 .. Len(Queue(sources))
         /\ Len(ready) \in Nat /\ next - Len(ready) \in 0 .. Len(Queue(sources))
         /\ \A n \in 1 .. Len(Queue(sources)) : /\ Queue(sources)[n] \in SmallIn(sources) /\ Queue(sources)[n] \in DOMAIN sources
                                                /\ Queue(sources)[n] \in Nat /\ sources[Queue(sources)[n]].size \in Nat
                                                /\ sources[Queue(sources)[n]] \in SourceRecord
<1>1. sources \in Seq(SourceRecord) /\ next \in Nat /\ ready \in Seq(ZipSlot)
  BY DEF ListInv, ZipTypes
<1>2. Len(ready) \in Nat /\ next <= Len(Queue(sources)) /\ Len(ready) <= next
  BY <1>1 DEF QueueInv
<1>3. Len(Queue(sources)) \in Nat /\ SmallIn(sources) \subseteq 1 .. Len(sources) /\ \A n \in 1 .. Len(Queue(sources)) : Queue(sources)[n] \in SmallIn(sources)
  BY <1>1, QueueFacts
<1>4. next \in 0 .. Len(Queue(sources)) /\ next - Len(ready) \in 0 .. Len(Queue(sources))
  BY ONLY <1>1, <1>2, <1>3
<1>5. ASSUME NEW k \in SmallIn(sources) PROVE k \in DOMAIN sources /\ k \in Nat /\ sources[k] \in SourceRecord /\ sources[k].size \in Nat
  <2>1. k \in 1 .. Len(sources)
    BY <1>3
  <2>2. k \in DOMAIN sources /\ sources[k] \in SourceRecord
    BY <1>1, <2>1
  <2> QED
    BY <2>1, <2>2 DEF SourceRecord
<1> QED
  BY <1>1, <1>2, <1>3, <1>4, <1>5

(* The slots of a new wave.                                                 *)
LEMMA FillFacts ==
  ASSUME ListInv(ZipEntry), ZipTypes, QueueInv, ZipFills
  PROVE  \E n \in 1 .. Threads :
           /\ next + n <= Len(Queue(sources)) /\ (n = 1 \/ OfZip!Fits(n))
           /\ slots' \in Seq(ZipSlot) /\ Len(slots') = n
           /\ \A j \in 1 .. n : /\ slots'[j].source = Queue(sources)[next + j] /\ slots'[j].source \in DOMAIN sources
                                /\ slots'[j].data = <<>> /\ slots'[j].state = "waiting"
<1> DEFINE q == Queue(sources)
           n == OfZip!Wave
<1>1. ready = <<>> /\ at \in SmallIn(sources) /\ at <= Len(sources)
  BY DEF ZipFills
<1>2. /\ sources \in Seq(SourceRecord) /\ Len(q) \in Nat /\ next \in 0 .. Len(q)
      /\ \A m \in 1 .. Len(q) : q[m] \in DOMAIN sources /\ q[m] \in Nat /\ sources[q[m]].size \in Nat
  BY QueueHolds
<1>3. at \in 1 .. Len(sources)
  BY <1>1, NowFacts
<1>4. InTurn(q, next, at)
  <2>1. InTurn(q, next - Len(ready), at)
    BY DEF QueueInv
  <2>2. Len(ready) = 0
    BY <1>1
  <2>3. next - Len(ready) = next
    BY <1>2, <2>2
  <2> QED
    BY <2>1, <2>3
<1>5. next + 1 \in 1 .. Len(q)
  BY <1>1, <1>2, <1>3, <1>4, QueueTurns
<1>6. next < Len(q)
  BY <1>2, <1>5
<1>7. n \in 1 .. Threads /\ next + n <= Len(q) /\ (n = 1 \/ OfZip!Fits(n))
  BY <1>6, WaveFacts
<1>8. slots' = [j \in 1 .. n |-> NewSlot(q[next + j], 0, sources[q[next + j]].size)]
  BY DEF ZipFills
<1> HIDE DEF n, q
<1>9. \A j \in 1 .. n : next + j \in 1 .. Len(q)
  BY <1>2, <1>7, ThreadsAssumption
<1> DEFINE f == [j \in 1 .. n |-> q[next + j]]
           a == [j \in 1 .. n |-> 0]
           b == [j \in 1 .. n |-> sources[q[next + j]].size]
<1>10. slots' = SlotsFor(n, f, a, b)
  BY <1>8 DEF SlotsFor
<1>11. \A j \in 1 .. n : f[j] \in Nat /\ a[j] \in Nat /\ b[j] \in Nat /\ f[j] \in DOMAIN sources /\ f[j] = q[next + j]
  BY <1>2, <1>9
<1>12. n \in Nat /\ f \in [1 .. n -> Nat] /\ a \in [1 .. n -> Nat] /\ b \in [1 .. n -> Nat]
  BY <1>2, <1>7, <1>9
<1> HIDE DEF f, a, b
<1>13. /\ slots' \in Seq(ZipSlot) /\ Len(slots') = n
       /\ \A j \in 1 .. n : slots'[j].source = f[j] /\ slots'[j].data = <<>> /\ slots'[j].state = "waiting"
  <2>1. /\ SlotsFor(n, f, a, b) \in Seq(ZipSlot) /\ Len(SlotsFor(n, f, a, b)) = n
        /\ \A j \in 1 .. n : SlotsFor(n, f, a, b)[j] = NewSlot(f[j], a[j], b[j])
    BY ONLY <1>12, NewSlots
  <2>2. \A k, l, m : /\ NewSlot(k, l, m).source = k /\ NewSlot(k, l, m).from = l /\ NewSlot(k, l, m).upto = m
                     /\ NewSlot(k, l, m).data = <<>> /\ NewSlot(k, l, m).state = "waiting"
    BY DEF NewSlot
  <2> QED
    BY ONLY <1>10, <2>1, <2>2
<1>14. \A j \in 1 .. n : /\ slots'[j].source = q[next + j] /\ slots'[j].source \in DOMAIN sources
                         /\ slots'[j].data = <<>> /\ slots'[j].state = "waiting"
  BY ONLY <1>11, <1>13
<1> QED
  BY <1>7, <1>13, <1>14 DEF q

(* The slots of the next pieces of a large file.                            *)
LEMMA OfferFacts ==
  ASSUME ListInv(ZipEntry), ZipTypes, ZipPhases, ZipOffers
  PROVE  \E n \in Nat :
           /\ chunk + n <= Pieces(Now.size) /\ slots' \in Seq(ZipSlot) /\ Len(slots') = n
           /\ \A j \in 1 .. n : /\ slots'[j].source = at /\ slots'[j].source \in DOMAIN sources
                                /\ IsPiece(slots'[j], chunk + j - 1) /\ slots'[j].state = "waiting"
<1> DEFINE size == Now.size
<1>1. PICK n \in 1 .. Pieces(size) - chunk :
        slots' = [j \in 1 .. n |-> NewSlot(at, (chunk + j - 1) * Chunk, Edge(size, chunk + j))]
  BY DEF ZipOffers
<1>2. /\ at <= Len(sources) /\ chunk \in Nat
  BY DEF ZipOffers, ZipPhases, ZipTypes
<1>3. size \in Nat /\ at \in Nat /\ at \in 1 .. Len(sources) /\ sources \in Seq(SourceRecord)
  BY <1>2, NowFacts DEF ListInv
<1> HIDE DEF size
<1>4. /\ Pieces(size) \in Nat
      /\ \A i \in Nat : i * Chunk \in Nat /\ Edge(size, i) \in Nat /\ (i < Pieces(size) => Edge(size, i) = i * Chunk)
  BY <1>3, PieceFacts
<1>5. n \in Nat /\ chunk + n <= Pieces(size)
  BY <1>1, <1>2, <1>4
<1>6. \A j \in 1 .. n : chunk + j - 1 \in Nat /\ chunk + j \in Nat /\ chunk + j - 1 < Pieces(size) /\ chunk + j - 1 + 1 = chunk + j
  BY <1>2, <1>4, <1>5
<1> DEFINE f == [j \in 1 .. n |-> at]
           a == [j \in 1 .. n |-> (chunk + j - 1) * Chunk]
           b == [j \in 1 .. n |-> Edge(size, chunk + j)]
<1>7. slots' = SlotsFor(n, f, a, b)
  BY <1>1 DEF SlotsFor
<1>8. \A j \in 1 .. n : /\ f[j] \in Nat /\ a[j] \in Nat /\ b[j] \in Nat
                        /\ f[j] = at /\ a[j] = Edge(size, chunk + j - 1) /\ b[j] = Edge(size, chunk + j)
  <2> TAKE j \in 1 .. n
  <2>1. PICK i \in Nat : i = chunk + j - 1 /\ i < Pieces(size)
    BY <1>6
  <2>2. PICK m \in Nat : m = chunk + j
    BY <1>6
  <2>3. f[j] = at /\ a[j] = i * Chunk /\ b[j] = Edge(size, m)
    BY <2>1, <2>2
  <2>4. i * Chunk \in Nat /\ Edge(size, i) = i * Chunk /\ Edge(size, m) \in Nat
    BY ONLY <1>4, <2>1, <2>2
  <2> HIDE DEF f, a, b
  <2> QED
    BY ONLY <1>3, <2>1, <2>2, <2>3, <2>4
<1> HIDE DEF f, a, b
<1>a. f \in [1 .. n -> Nat] /\ a \in [1 .. n -> Nat] /\ b \in [1 .. n -> Nat]
  BY <1>8 DEF f, a, b
<1>9. /\ slots' \in Seq(ZipSlot) /\ Len(slots') = n
      /\ \A j \in 1 .. n : slots'[j].source = f[j] /\ slots'[j].from = a[j] /\ slots'[j].upto = b[j] /\ slots'[j].state = "waiting"
  <2>1. /\ SlotsFor(n, f, a, b) \in Seq(ZipSlot) /\ Len(SlotsFor(n, f, a, b)) = n
        /\ \A j \in 1 .. n : SlotsFor(n, f, a, b)[j] = NewSlot(f[j], a[j], b[j])
    BY ONLY <1>5, <1>a, NewSlots
  <2>2. \A k, l, m : /\ NewSlot(k, l, m).source = k /\ NewSlot(k, l, m).from = l /\ NewSlot(k, l, m).upto = m
                     /\ NewSlot(k, l, m).data = <<>> /\ NewSlot(k, l, m).state = "waiting"
    BY DEF NewSlot
  <2> QED
    BY ONLY <1>7, <2>1, <2>2
<1>10. at \in DOMAIN sources
  BY <1>3
<1>11. \A j \in 1 .. n : /\ slots'[j].source = at /\ slots'[j].source \in DOMAIN sources
                         /\ IsPiece(slots'[j], chunk + j - 1) /\ slots'[j].state = "waiting"
  <2> TAKE j \in 1 .. n
  <2>1. slots'[j].source = at /\ slots'[j].from = Edge(size, chunk + j - 1) /\ slots'[j].upto = Edge(size, chunk + j) /\ slots'[j].state = "waiting"
    BY ONLY <1>8, <1>9
  <2>2. chunk + j - 1 + 1 = chunk + j
    BY <1>6
  <2> QED
    BY <1>10, <2>1, <2>2 DEF IsPiece, size
<1> QED
  BY <1>5, <1>9, <1>11 DEF size

(* The slots while one of them is worked on.                                *)
LEMMA WorkFacts ==
  ASSUME ZipTypes, NEW j, NEW t, ZipWorks(j, t)
  PROVE  /\ slots' \in Seq(ZipSlot) /\ Len(slots') = Len(slots) /\ j \in 1 .. Len(slots) /\ slots'[j] = t
         /\ \A i \in 1 .. Len(slots) : slots'[i].source = slots[i].source /\ (i # j => slots'[i] = slots[i])
<1>1. /\ slots \in Seq(ZipSlot) /\ j \in 1 .. Len(slots) /\ t \in ZipSlot /\ t.source = slots[j].source
      /\ slots' = [slots EXCEPT ![j] = t]
  BY DEF ZipTypes, ZipWorks, Works
<1>2. slots' \in Seq(ZipSlot) /\ Len(slots') = Len(slots)
  BY <1>1
<1>3. slots'[j] = t /\ \A i \in 1 .. Len(slots) : i # j => slots'[i] = slots[i]
  BY <1>1
<1> QED
  BY <1>1, <1>2, <1>3

(* What is left when the first has been taken.                              *)
LEMMA TakeFacts ==
  ASSUME ListInv(ZipEntry), ZipTypes, QueueInv, NEW e, ZipTakes(e)
  PROVE  /\ ready' \in Seq(ZipSlot) /\ Len(ready') = Len(ready) - 1 /\ Len(ready) > 0
         /\ \A j \in 1 .. Len(ready') : ready'[j] = ready[j + 1] /\ j + 1 \in 1 .. Len(ready)
         /\ Head(ready) = ready[1] /\ ready[1] \in ZipSlot /\ ready[1].source = at
         /\ InTurn(Queue(sources), next - Len(ready) + 1, at + 1)
<1>1. ready \in Seq(ZipSlot) /\ ready # <<>> /\ ready' = Tail(ready) /\ at \in SmallIn(sources) /\ at <= Len(sources)
  BY DEF ZipTypes, ZipTakes, ZipEnters
<1>2. /\ ready' \in Seq(ZipSlot) /\ Len(ready') = Len(ready) - 1 /\ Len(ready) > 0
      /\ Head(ready) = ready[1] /\ ready[1] \in ZipSlot
  BY <1>1
<1>3. \A j \in 1 .. Len(ready') : ready'[j] = ready[j + 1] /\ j + 1 \in 1 .. Len(ready)
  BY <1>1, <1>2
<1>4. PICK taken : taken = next - Len(ready)
  OBVIOUS
<1>5. sources \in Seq(SourceRecord) /\ taken \in 0 .. Len(Queue(sources)) /\ InTurn(Queue(sources), taken, at) /\ ready[1].source = Queue(sources)[taken + 1]
  <2>1. Len(ready) \in Nat /\ 1 \in 1 .. Len(ready)
    BY <1>1, <1>2
  <2> QED
    BY <1>4, <2>1, QueueHolds DEF QueueInv, Follows
<1>6. at \in 1 .. Len(sources)
  BY <1>1, NowFacts
<1>7. Queue(sources)[taken + 1] = at /\ InTurn(Queue(sources), taken + 1, at + 1)
  BY <1>1, <1>5, <1>6, QueueTurns
<1> QED
  BY <1>2, <1>3, <1>4, <1>5, <1>7

(* The pieces that are gathered are the next part of the file.              *)
LEMMA GatherFacts ==
  ASSUME ListInv(ZipEntry), ZipTypes, ZipPhases, SlotsInv, ZipGathers
  PROVE  /\ chunk' \in Nat /\ chunk' <= Pieces(Now.size)
         /\ body' = Units(Now.path, 0, Edge(Now.size, chunk')) /\ body' \in Seq(Token)
<1> DEFINE size == Now.size
           p == Now.path
           n == Len(slots)
           ss == [j \in DOMAIN slots |-> slots[j].data]
           e == [i \in 0 .. n |-> Edge(size, chunk + i)]
<1>1. /\ phase = "chunks" /\ AllDone /\ body' = body \o EndToEnd(ss) /\ chunk' = chunk + n
  BY DEF ZipGathers
<1>2. /\ at <= Len(sources) /\ body = Units(p, 0, Edge(size, chunk)) /\ chunk \in Nat /\ slots \in Seq(ZipSlot)
      /\ n \in Nat /\ DOMAIN slots = 1 .. n
  BY <1>1 DEF ZipPhases, ZipTypes
<1>3. p \in Paths /\ size \in Nat
  BY <1>2, NowFacts
<1>4. chunk + n <= Pieces(size) /\ \A j \in 1 .. n : IsPiece(slots[j], chunk + j - 1)
  BY <1>1 DEF SlotsInv
<1>5. \A i \in Nat : Edge(size, i) \in Nat /\ Edge(size, i) <= Edge(size, i + 1)
  BY <1>3, PieceFacts
<1>6. Edge(size, 0) = 0
  BY <1>3, PieceFacts
<1>7. ss \in Seq(Seq(Token)) /\ Len(ss) = n /\ \A j \in 1 .. n : ss[j] = slots[j].data
  <2>1. \A j \in 1 .. n : slots[j].data \in Seq(Token)
    <3> TAKE j \in 1 .. n
    <3>1. slots[j] \in ZipSlot
      BY <1>2
    <3> QED
      BY ONLY <3>1 DEF ZipSlot
  <2>2. ss \in [1 .. n -> Seq(Token)]
    BY <1>2, <2>1
  <2>3. ss \in Seq(Seq(Token)) /\ Len(ss) = n
    BY ONLY <1>2, <2>2
  <2> QED
    BY <1>2, <2>3
<1>8. \A j \in 1 .. n : slots[j].from = Edge(size, chunk + j - 1) /\ slots[j].upto = Edge(size, chunk + j)
                        /\ ss[j] = Units(p, slots[j].from, slots[j].upto)
  <2> TAKE j \in 1 .. n
  <2>1. IsPiece(slots[j], chunk + j - 1) /\ slots[j].state = "done"
    BY <1>1, <1>2, <1>4 DEF AllDone
  <2>2. chunk + j - 1 + 1 = chunk + j
    BY <1>2
  <2> QED
    BY <1>7, <2>1, <2>2 DEF IsPiece
<1> HIDE DEF p, size, n, ss
<1>9. e \in [0 .. n -> Nat] /\ \A i \in 0 .. n : e[i] = Edge(size, chunk + i)
  <2>1. \A i \in 0 .. n : chunk + i \in Nat
    BY <1>2
  <2> QED
    BY <1>5, <2>1
<1> HIDE DEF e
<1>10. \A j \in 1 .. n : e[j - 1] <= e[j] /\ ss[j] = Units(p, e[j - 1], e[j])
  <2> TAKE j \in 1 .. n
  <2>1. PICK i \in 0 .. n : i = j - 1 /\ chunk + i \in Nat /\ chunk + j - 1 = chunk + i /\ chunk + i + 1 = chunk + j /\ j \in 0 .. n
    <3>1. j - 1 \in 0 .. n /\ chunk + (j - 1) \in Nat /\ chunk + j - 1 = chunk + (j - 1) /\ chunk + (j - 1) + 1 = chunk + j /\ j \in 0 .. n
      BY <1>2
    <3> QED
      BY <3>1
  <2>2. e[i] = Edge(size, chunk + i) /\ e[j] = Edge(size, chunk + i + 1)
    BY ONLY <1>9, <2>1
  <2>3. Edge(size, chunk + i) <= Edge(size, chunk + i + 1)
    BY ONLY <1>5, <2>1
  <2>4. ss[j] = Units(p, Edge(size, chunk + i), Edge(size, chunk + i + 1))
    BY <1>8, <2>1
  <2> QED
    BY ONLY <2>1, <2>2, <2>3, <2>4
<1>11. e[0] <= e[n] /\ EndToEnd(ss) = Units(p, e[0], e[n])
  BY <1>3, <1>7, <1>9, <1>10, PartsLaidOut
<1>12. chunk' \in Nat /\ e[0] = Edge(size, chunk) /\ e[n] = Edge(size, chunk') /\ e[0] \in Nat /\ e[n] \in Nat
  <2>1. chunk + 0 = chunk /\ 0 \in 0 .. n /\ n \in 0 .. n /\ chunk + n \in Nat
    BY <1>2
  <2> QED
    BY <1>1, <1>9, <2>1
<1>13. body' = Units(p, 0, e[n]) /\ body' \in Seq(Token)
  <2>1. Units(p, 0, e[0]) \o Units(p, e[0], e[n]) = Units(p, 0, e[n])
    <3>1. 0 <= e[0] /\ 0 \in Nat
      BY <1>12
    <3> QED
      BY ZenonT(40), <1>3, <1>11, <1>12, <3>1, PartsJoin
  <2>2. Units(p, 0, e[n]) \in Seq(Token)
    <3>1. 0 \in Nat
      OBVIOUS
    <3> QED
      BY <1>3, <1>12, <3>1, PartsFacts
  <2> QED
    BY <1>1, <1>2, <1>11, <1>12, <2>1, <2>2
<1> QED
  BY <1>1, <1>4, <1>12, <1>13 DEF p, size

(* The types are kept.                                                      *)
LEMMA ZipKeepsTypes ==
  ASSUME ListInv(ZipEntry), ZipTypes, ZipPhases, QueueInv, SlotsInv, ZipMoves
  PROVE  ZipTypes'
<1>1. next \in Nat /\ chunk \in Nat /\ ready \in Seq(ZipSlot) /\ slots \in Seq(ZipSlot)
  BY DEF ZipTypes
<1>2. ASSUME next' \in Nat, chunk' \in Nat, sources' = sources, ready' \in {ready, <<>>}, slots' \in {slots, <<>>} PROVE ZipTypes'
  <2>1. <<>> \in Seq(ZipSlot) /\ \A j \in 1 .. Len(<<>>) : <<>>[j].source \in DOMAIN sources
    OBVIOUS
  <2>2. ready' \in Seq(ZipSlot) /\ \A j \in 1 .. Len(ready') : ready'[j].source \in DOMAIN sources
    <3>1. CASE ready' = ready
      BY <3>1 DEF ZipTypes
    <3>2. CASE ready' = <<>>
      BY <2>1, <3>2
    <3> QED
      BY <1>2, <3>1, <3>2
  <2>3. slots' \in Seq(ZipSlot) /\ \A j \in 1 .. Len(slots') : slots'[j].source \in DOMAIN sources
    <3>1. CASE slots' = slots
      BY <3>1 DEF ZipTypes
    <3>2. CASE slots' = <<>>
      BY <2>1, <3>2
    <3> QED
      BY <1>2, <3>1, <3>2
  <2> QED
    BY <1>2, <2>2, <2>3 DEF ZipTypes
<1>3. ZipStays => sources' = sources
  BY DEF ZipStays
<1>4. CASE ZipBegins
  <2>1. ready' = <<>> /\ slots' = <<>> /\ next' = next /\ chunk' = chunk
    BY <1>4 DEF ZipBegins, ZipIdle, ZipPhases
  <2> QED
    BY <1>1, <2>1 DEF ZipTypes
<1>5. ASSUME NEW e, ZipWrites(e) PROVE ZipTypes'
  BY <1>1, <1>2, <1>5 DEF ZipWrites, ZipEnters, Finish, ZipIdle
<1>6. ASSUME NEW e, ZipTakes(e) PROVE ZipTypes'
  <2>1. next' = next /\ chunk' = chunk /\ slots' = slots /\ sources' = sources
    BY <1>6 DEF ZipTakes, ZipEnters, Finish
  <2>2. ready' \in Seq(ZipSlot) /\ \A j \in 1 .. Len(ready') : ready'[j] = ready[j + 1] /\ j + 1 \in 1 .. Len(ready)
    BY <1>6, TakeFacts
  <2>3. \A j \in 1 .. Len(ready') : ready'[j].source \in DOMAIN sources
    BY <2>2 DEF ZipTypes
  <2> QED
    BY <1>1, <2>1, <2>2, <2>3 DEF ZipTypes
<1>7. CASE ZipFills
  <2>1. next' = next /\ chunk' = chunk /\ ready' = ready /\ sources' = sources
    BY <1>3, <1>7 DEF ZipFills
  <2>2. slots' \in Seq(ZipSlot) /\ \A j \in 1 .. Len(slots') : slots'[j].source \in DOMAIN sources
    BY <1>7, FillFacts
  <2> QED
    BY <1>1, <2>1, <2>2 DEF ZipTypes
<1>8. CASE ZipFilled
  <2>1. next' = next + Len(slots) /\ chunk' = chunk /\ ready' = slots /\ slots' = <<>> /\ sources' = sources
    BY <1>3, <1>8 DEF ZipFilled
  <2>2. next' \in Nat
    BY <1>1, <2>1
  <2> QED
    BY <1>1, <2>1, <2>2 DEF ZipTypes
<1>9. ASSUME NEW j, NEW t, ZipWorks(j, t) PROVE ZipTypes'
  <2>1. next' = next /\ chunk' = chunk /\ ready' = ready /\ sources' = sources
    BY <1>3, <1>9 DEF ZipWorks
  <2>2. slots' \in Seq(ZipSlot) /\ Len(slots') = Len(slots) /\ \A i \in 1 .. Len(slots) : slots'[i].source = slots[i].source
    BY <1>9, WorkFacts
  <2>3. \A i \in 1 .. Len(slots') : slots'[i].source \in DOMAIN sources
    BY <2>2 DEF ZipTypes
  <2> QED
    BY <1>1, <2>1, <2>2, <2>3 DEF ZipTypes
<1>10. CASE ZipSplits
  BY <1>1, <1>2, <1>3, <1>10 DEF ZipSplits
<1>11. CASE ZipOffers
  <2>1. next' = next /\ chunk' = chunk /\ ready' = ready /\ sources' = sources
    BY <1>3, <1>11 DEF ZipOffers
  <2>2. slots' \in Seq(ZipSlot) /\ \A j \in 1 .. Len(slots') : slots'[j].source \in DOMAIN sources
    BY <1>11, OfferFacts
  <2> QED
    BY <1>1, <2>1, <2>2 DEF ZipTypes
<1>12. CASE ZipGathers
  <2>1. next' = next /\ ready' = ready /\ slots' = <<>> /\ sources' = sources
    BY <1>3, <1>12 DEF ZipGathers
  <2>2. chunk' \in Nat
    BY <1>12, GatherFacts
  <2> QED
    BY <1>1, <1>2, <2>1, <2>2
<1>13. CASE ZipOpens \/ ZipStreams \/ ZipStops
  BY <1>1, <1>2, <1>3, <1>13 DEF ZipOpens, ZipStreams, ZipStops, ZipIdle
<1>14. CASE ZipChanges
  <2>1. sources' = sources
    BY <1>14, ChangeFacts DEF ZipChanges
  <2> QED
    BY <1>1, <1>2, <1>14, <2>1 DEF ZipChanges, ZipIdle
<1> QED
  BY <1>4, <1>5, <1>6, <1>7, <1>8, <1>9, <1>10, <1>11, <1>12, <1>13, <1>14 DEF ZipMoves

(* So is what each phase says.                                              *)
LEMMA ZipKeepsPhases ==
  ASSUME ListInv(ZipEntry), ZipTypes, ZipPhases, QueueInv, SlotsInv, ZipMoves
  PROVE  ZipPhases'
<1>1. /\ phase \in {"begin", "writing", "wave", "chunks", "stream", "done", "failed"}
      /\ body \in Seq(Token) /\ <<>> \in Seq(Token)
      /\ phase \in {"begin", "writing", "wave"} => body = <<>>
      /\ phase \in {"begin", "writing", "stream"} => slots = <<>>
      /\ phase = "begin" => next = 0 /\ ready = <<>>
      /\ phase = "wave" => ready = <<>>
  BY DEF ZipPhases
<1>2. ASSUME phase' = "writing", body' = <<>>, slots' = <<>> PROVE ZipPhases'
  BY <1>1, <1>2 DEF ZipPhases
<1>3. ZipStays => UNCHANGED <<inputs, options, sources, at, changed, disk>> /\ Now' = Now
  BY DEF ZipStays, world, Now
<1>4. CASE ZipBegins
  <2>1. body' = body /\ slots' = slots /\ phase' \in {"writing", "failed"} /\ phase = "begin"
    BY <1>4 DEF ZipBegins, List, ZipIdle
  <2> QED
    BY <1>1, <1>2, <2>1 DEF ZipPhases
<1>5. ASSUME NEW e, ZipWrites(e) PROVE ZipPhases'
  <2>1. phase' = "writing" /\ body' = <<>> /\ slots' = slots
    BY <1>5 DEF ZipWrites, ZipEnters, Finish, ZipIdle
  <2>2. slots = <<>>
    BY <1>1, <1>5 DEF ZipWrites, ZipStores, ZipEnds
  <2> QED
    BY <1>2, <2>1, <2>2
<1>6. ASSUME NEW e, ZipTakes(e) PROVE ZipPhases'
  <2>1. phase' = "writing" /\ body' = <<>> /\ slots' = slots /\ phase = "writing"
    BY <1>6 DEF ZipTakes, ZipEnters, Finish
  <2> QED
    BY <1>1, <1>2, <2>1
<1>7. CASE ZipFills
  BY <1>1, <1>7 DEF ZipFills, ZipPhases
<1>8. CASE ZipFilled
  BY <1>1, <1>2, <1>8 DEF ZipFilled
<1>9. ASSUME NEW j, NEW t, ZipWorks(j, t) PROVE ZipPhases'
  <2>1. /\ phase \in {"wave", "chunks"} /\ UNCHANGED <<phase, body, next, ready, chunk>>
        /\ UNCHANGED <<inputs, options, sources, at, changed, disk>> /\ Now' = Now
    BY <1>3, <1>9 DEF ZipWorks
  <2> QED
    BY <1>1, <2>1 DEF ZipPhases, Units, Unit
<1>10. CASE ZipSplits
  <2>1. /\ phase = "writing" /\ phase' = "chunks" /\ at <= Len(sources) /\ IsLarge(Now) /\ chunk' = 0 /\ body' = body
        /\ sources' = sources /\ at' = at /\ Now' = Now
    BY <1>3, <1>10 DEF ZipSplits
  <2>2. Now.path \in Paths /\ Now.size \in Nat
    BY <2>1, NowFacts
  <2>3. Pieces(Now.size) \in Nat /\ Edge(Now.size, 0) = 0
    BY <2>2, PieceFacts
  <2>4. Units(Now.path, 0, 0) = <<>>
    BY <2>2, UnitsFacts
  <2>5. chunk' <= Pieces(Now.size) /\ body' = Units(Now.path, 0, Edge(Now.size, chunk'))
    BY <1>1, <2>1, <2>3, <2>4
  <2> QED
    BY <1>1, <2>1, <2>5 DEF ZipPhases, Units, Unit
<1>11. CASE ZipOffers
  <2>1. /\ phase = "chunks" /\ UNCHANGED <<phase, body, next, ready, chunk>>
        /\ UNCHANGED <<inputs, options, sources, at, changed, disk>> /\ Now' = Now
    BY <1>3, <1>11 DEF ZipOffers
  <2> QED
    BY <1>1, <2>1 DEF ZipPhases, Units, Unit
<1>12. CASE ZipGathers
  <2>1. /\ phase = "chunks" /\ phase' = "chunks"
        /\ UNCHANGED <<inputs, options, sources, at, changed, disk>> /\ Now' = Now
    BY <1>3, <1>12 DEF ZipGathers
  <2>2. chunk' <= Pieces(Now.size) /\ body' = Units(Now.path, 0, Edge(Now.size, chunk')) /\ body' \in Seq(Token)
    BY <1>12, GatherFacts
  <2>3. at <= Len(sources) /\ IsLarge(Now)
    BY <2>1 DEF ZipPhases
  <2> QED
    BY <2>1, <2>2, <2>3 DEF ZipPhases, Units, Unit
<1>13. CASE ZipOpens
  <2>1. /\ phase = "writing" /\ phase' = "stream" /\ at <= Len(sources) /\ IsLarge(Now) /\ ~options.chunked /\ body' = body
        /\ slots' = slots /\ UNCHANGED <<inputs, options, sources, at, changed, disk>> /\ Now' = Now
    BY <1>3, <1>13 DEF ZipOpens, ZipIdle
  <2>2. Now.path \in Paths /\ Now.size \in Nat
    BY <2>1, NowFacts
  <2>3. body = <<>> /\ Len(<<>>) = 0 /\ Units(Now.path, 0, 0) = <<>> /\ slots = <<>> /\ 0 <= Now.size
    <3>1. Units(Now.path, 0, 0) = <<>>
      BY <2>2, UnitsFacts
    <3>2. 0 <= Now.size
      BY ONLY <2>2
    <3> QED
      BY <1>1, <2>1, <3>1, <3>2
  <2>4. body' = Units(Now.path, 0, Len(body')) /\ Len(body') <= Now.size
    BY <2>1, <2>3
  <2> QED
    BY <1>1, <2>1, <2>3, <2>4 DEF ZipPhases, Units, Unit
<1>14. CASE ZipStreams
  <2>1. /\ phase = "stream" /\ phase' = "stream" /\ Len(body) < disk[Now.path].len
        /\ body' = Append(body, Unit(Now.path, Len(body)))
        /\ slots' = slots /\ UNCHANGED <<inputs, options, sources, at, changed, disk>> /\ Now' = Now
    BY <1>3, <1>14 DEF ZipStreams, ZipIdle
  <2>2. /\ at <= Len(sources) /\ IsLarge(Now) /\ ~options.chunked /\ body = Units(Now.path, 0, Len(body))
        /\ slots = <<>>
    BY <1>1, <2>1 DEF ZipPhases
  <2>3. Now.path \in Paths /\ Now.size \in Nat /\ disk[Now.path].len \in Nat /\ (Now.path \notin changed => Now.size = disk[Now.path].len)
    BY <2>2, NowFacts DEF IsLarge
  <2>4. PICK n \in Nat : n = Len(body)
    BY <1>1
  <2>5. Unit(Now.path, n) \in Token /\ Append(Units(Now.path, 0, n), Unit(Now.path, n)) = Units(Now.path, 0, n + 1) /\ n + 1 \in Nat
    <3>1. n + 1 \in Nat
      BY ONLY n \in Nat
    <3> QED
      BY <2>3, <3>1, UnitsFacts
  <2>6. Units(Now.path, 0, n + 1) \in Seq(Token) /\ Len(Units(Now.path, 0, n + 1)) = n + 1
    BY <2>3, <2>5, UnitsFacts
  <2>7. body' = Units(Now.path, 0, n + 1) /\ body' \in Seq(Token) /\ Len(body') = n + 1
    BY <2>1, <2>2, <2>4, <2>5, <2>6
  <2>8. Now.path \notin changed => n + 1 <= Now.size
    BY <2>1, <2>3, <2>4
  <2> QED
    BY <1>1, <2>1, <2>2, <2>7, <2>8 DEF ZipPhases, Units, Unit
<1>15. CASE ZipStops
  BY <1>1, <1>15 DEF ZipStops, ZipPhases
<1>16. CASE ZipChanges
  <2>1. /\ UNCHANGED <<phase, body, options, sources, at, next, ready, slots, chunk>> /\ changed \subseteq changed'
    BY <1>16, ChangeFacts DEF ZipChanges, ZipIdle
  <2>2. Now' = Now
    BY <2>1 DEF Now
  <2> QED
    BY <1>1, <2>1, <2>2 DEF ZipPhases, Units, Unit
<1> QED
  BY <1>4, <1>5, <1>6, <1>7, <1>8, <1>9, <1>10, <1>11, <1>12, <1>13, <1>14, <1>15, <1>16 DEF ZipMoves

(* Those taken are those whose turn is over, and the rest in their order.   *)
LEMMA ZipKeepsQueue ==
  ASSUME ListInv(ZipEntry), ZipTypes, ZipPhases, QueueInv, ZipMoves
  PROVE  QueueInv'
<1> DEFINE q == Queue(sources)
<1>1. PICK taken : taken = next - Len(ready)
  OBVIOUS
<1>2. /\ sources \in Seq(SourceRecord) /\ Len(q) \in Nat /\ next \in 0 .. Len(q) /\ Len(ready) \in Nat
      /\ taken \in 0 .. Len(q)
  BY <1>1, QueueHolds
<1>3. /\ Len(ready) <= next /\ InTurn(q, taken, at) /\ Follows(ready, q, taken)
      /\ phase = "wave" => next + Len(slots) <= Len(q) /\ Follows(slots, q, next)
  BY <1>1 DEF QueueInv
<1>4. ASSUME UNCHANGED <<sources, at, next, ready>>, phase' # "wave" PROVE QueueInv'
  BY <1>4 DEF QueueInv
<1>5. ZipStays => UNCHANGED <<sources, at>>
  BY DEF ZipStays
<1>6. CASE ZipBegins
  <2>1. sources' = Collected /\ at' = 1 /\ next' = 0 /\ ready' = <<>> /\ phase' # "wave"
    BY <1>6 DEF ZipBegins, List, ListInv, ZipPhases, ZipIdle
  <2>2. Collected \in Seq(SourceRecord)
    BY CollectedIsList DEF ListInv
  <2>3. PICK c : c = Queue(Collected)
    OBVIOUS
  <2>4. Len(c) \in Nat /\ \A n \in 1 .. Len(c) : c[n] \in Nat \ {0}
    <3>1. SmallIn(Collected) \subseteq 1 .. Len(Collected) /\ Len(c) \in Nat /\ \A n \in 1 .. Len(c) : c[n] \in SmallIn(Collected)
      BY <2>2, <2>3, QueueFacts
    <3>2. \A n \in 1 .. Len(Collected) : n \in Nat \ {0}
      BY <2>2
    <3> QED
      BY <3>1, <3>2
  <2>5. InTurn(c, 0, 1)
    BY <2>4 DEF InTurn
  <2>6. Len(<<>>) = 0 /\ 0 - 0 = 0 /\ 0 <= Len(c) /\ Follows(<<>>, c, 0)
    BY <2>4 DEF Follows
  <2> QED
    BY <2>1, <2>3, <2>5, <2>6 DEF QueueInv
<1>7. ASSUME NEW e, ZipWrites(e) PROVE QueueInv'
  <2>1. at' = at + 1 /\ UNCHANGED <<sources, next, ready>> /\ phase' = "writing" /\ at <= Len(sources)
    BY <1>7 DEF ZipWrites, ZipEnters, Finish, ZipIdle
  <2>2. Now.kind \in {"dir", "link"} \/ IsLarge(Now)
    BY <1>7 DEF ZipWrites, ZipStores, ZipEnds, ZipPhases
  <2>3. at \in 1 .. Len(sources) /\ Now.size \in Nat
    BY <2>1, NowFacts
  <2>4. at \notin SmallIn(sources)
    BY <2>2, <2>3, ZipAssumption DEF SmallIn, IsLarge, Now
  <2>5. InTurn(q, taken, at + 1)
    BY <1>2, <1>3, <2>3, <2>4, QueueTurns
  <2> QED
    BY <1>1, <1>2, <1>3, <2>1, <2>5 DEF QueueInv
<1>8. ASSUME NEW e, ZipTakes(e) PROVE QueueInv'
  <2>1. at' = at + 1 /\ UNCHANGED <<sources, next>> /\ phase' = "writing"
    BY <1>8 DEF ZipTakes, ZipEnters, Finish
  <2>2. /\ Len(ready') = Len(ready) - 1 /\ Len(ready) > 0
        /\ \A j \in 1 .. Len(ready') : ready'[j] = ready[j + 1] /\ j + 1 \in 1 .. Len(ready)
        /\ InTurn(q, taken + 1, at + 1)
    BY <1>1, <1>8, TakeFacts
  <2>3. next' - Len(ready') = taken + 1 /\ Len(ready') <= next'
    BY ONLY <1>1, <1>2, <1>3, <2>1, <2>2
  <2>4. Follows(ready', q, taken + 1)
    <3> SUFFICES ASSUME NEW j \in 1 .. Len(ready') PROVE ready'[j].source = q[taken + 1 + j]
      BY DEF Follows
    <3>1. ready[j + 1].source = q[taken + (j + 1)]
      BY <1>3, <2>2 DEF Follows
    <3>2. taken + (j + 1) = taken + 1 + j
      BY <1>2, <2>2
    <3> QED
      BY <2>2, <3>1, <3>2
  <2> QED
    BY <1>2, <2>1, <2>2, <2>3, <2>4 DEF QueueInv
<1>9. CASE ZipFills
  <2>1. UNCHANGED <<sources, at, next, ready>>
    BY <1>5, <1>9 DEF ZipFills
  <2>2. PICK n \in 1 .. Threads : /\ next + n <= Len(q) /\ Len(slots') = n
                                  /\ \A j \in 1 .. n : slots'[j].source = q[next + j]
    BY <1>9, FillFacts
  <2>3. next + Len(slots') <= Len(q) /\ Follows(slots', q, next)
    BY <2>2 DEF Follows
  <2> QED
    BY <1>1, <1>2, <1>3, <2>1, <2>3 DEF QueueInv
<1>10. CASE ZipFilled
  <2>1. /\ UNCHANGED <<sources, at>> /\ phase = "wave" /\ phase' = "writing" /\ ready' = slots /\ next' = next + Len(slots)
    BY <1>5, <1>10 DEF ZipFilled
  <2>2. Len(slots) \in Nat
    BY DEF ZipTypes
  <2>3. Len(ready) = 0
    BY <2>1 DEF ZipPhases
  <2>4. taken = next
    BY ONLY <1>1, <1>2, <2>3
  <2>5. next' - Len(ready') = next /\ Len(ready') <= next'
    BY ONLY <1>2, <2>1, <2>2
  <2> QED
    BY <1>3, <2>1, <2>4, <2>5 DEF QueueInv
<1>11. ASSUME NEW j, NEW t, ZipWorks(j, t) PROVE QueueInv'
  <2>1. UNCHANGED <<phase, sources, at, next, ready>>
    BY <1>5, <1>11 DEF ZipWorks
  <2>2. Len(slots') = Len(slots) /\ \A i \in 1 .. Len(slots) : slots'[i].source = slots[i].source
    BY <1>11, WorkFacts
  <2>3. phase = "wave" => next + Len(slots') <= Len(q) /\ Follows(slots', q, next)
    BY <1>3, <2>2 DEF Follows
  <2> QED
    BY <1>1, <1>2, <1>3, <2>1, <2>3 DEF QueueInv
<1>12. CASE ZipSplits \/ ZipOffers \/ ZipGathers \/ ZipOpens \/ ZipStreams \/ ZipStops
  BY <1>4, <1>5, <1>12 DEF ZipSplits, ZipOffers, ZipGathers, ZipOpens, ZipStreams, ZipStops, ZipIdle
<1>13. CASE ZipChanges
  <2>1. UNCHANGED <<phase, sources, at, next, ready, slots>>
    BY <1>13, ChangeFacts DEF ZipChanges, ZipIdle
  <2> QED
    BY <2>1 DEF QueueInv
<1> QED
  BY <1>6, <1>7, <1>8, <1>9, <1>10, <1>11, <1>12, <1>13 DEF ZipMoves

(* A step of one slot of a wave: it holds as much of the file as was read.  *)
LEMMA WaveSlotReads ==
  ASSUME ListInv(ZipEntry), ZipTypes, QueueInv, SlotsInv, NEW j, NEW t, ZipWorks(j, t), phase = "wave"
  PROVE  HasRead(t)
<1> DEFINE s == slots[j]
           r == sources[s.source]
           p == r.path
<1>1. j \in 1 .. Len(slots) /\ Works(s, t) /\ t \in ZipSlot /\ t.source = s.source
  BY DEF ZipWorks, Works
<1>2. s \in ZipSlot /\ s.source \in DOMAIN sources /\ HasRead(s)
  BY <1>1 DEF ZipTypes, SlotsInv
<1>3. r \in SourceRecord /\ disk \in [Paths -> Node]
  BY <1>2 DEF ListInv, IsWorld
<1>4. p \in Paths /\ r.size \in Nat /\ disk[p] \in Node
  BY <1>3 DEF SourceRecord
<1>5. disk[p].len \in Nat
  BY <1>4 DEF Node
<1>6. r.kind = "file"
  <2>1. next + Len(slots) <= Len(Queue(sources)) /\ s.source = Queue(sources)[next + j]
    BY <1>1 DEF QueueInv, Follows
  <2>2. next \in Nat /\ Len(slots) \in Nat /\ Len(Queue(sources)) \in Nat
    BY QueueHolds DEF ZipTypes
  <2>3. next + j \in 1 .. Len(Queue(sources))
    BY ONLY <1>1, <2>1, <2>2
  <2>4. s.source \in SmallIn(sources)
    BY <2>1, <2>3, QueueHolds
  <2> QED
    BY <2>4 DEF SmallIn
<1>7. p \notin changed => r.size = disk[p].len
  BY <1>2, <1>6 DEF ListInv, SizesHold
<1>8. s.data = Units(p, 0, Len(s.data)) /\ (p \notin changed => Len(s.data) <= r.size)
  BY <1>2 DEF HasRead
<1>9. s.data \in Seq(Token) /\ Len(s.data) \in Nat
  <2>1. s.data \in Seq(Token)
    BY <1>2 DEF ZipSlot
  <2> QED
    BY <2>1
<1>10. \/ t.data = s.data /\ t.state \in {"reading", "failed"}
       \/ Len(s.data) < disk[p].len /\ t.state = "reading" /\ t.data = Append(s.data, Unit(p, Len(s.data)))
       \/ Len(s.data) >= disk[p].len /\ t.state = "done" /\ t.data = s.data
  BY <1>1 DEF Works
<1>11. HasRead(t) <=> /\ t.data = Units(p, 0, Len(t.data))
                      /\ p \notin changed => Len(t.data) <= r.size /\ (t.state = "done" => Len(t.data) = r.size)
  BY <1>1 DEF HasRead
<1> HIDE DEF s, r, p
<1>12. CASE t.data = s.data /\ t.state \in {"reading", "failed"}
  BY <1>8, <1>11, <1>12
<1>13. CASE Len(s.data) < disk[p].len /\ t.state = "reading" /\ t.data = Append(s.data, Unit(p, Len(s.data)))
  <2>1. PICK n \in Nat : n = Len(s.data)
    BY <1>9
  <2>2. n + 1 \in Nat
    BY ONLY n \in Nat
  <2>3. Append(Units(p, 0, n), Unit(p, n)) = Units(p, 0, n + 1)
    BY <1>4, UnitsFacts
  <2>4. Len(Units(p, 0, n + 1)) = n + 1
    BY <1>4, <2>2, UnitsFacts
  <2>5. t.data = Units(p, 0, n + 1) /\ Len(t.data) = n + 1
    BY <1>8, <1>13, <2>1, <2>3, <2>4
  <2>6. p \notin changed => n + 1 <= r.size
    BY <1>5, <1>7, <1>13, <2>1
  <2> QED
    BY <1>11, <1>13, <2>5, <2>6
<1>14. CASE Len(s.data) >= disk[p].len /\ t.state = "done" /\ t.data = s.data
  <2>1. p \notin changed => Len(s.data) = r.size
    BY <1>5, <1>7, <1>8, <1>9, <1>14
  <2> QED
    BY <1>4, <1>8, <1>11, <1>14, <2>1
<1> QED
  BY <1>10, <1>12, <1>13, <1>14

(* And of one piece of a large file: it is done with the whole piece.       *)
LEMMA PieceSlotReads ==
  ASSUME SlotsInv, NEW j, NEW t, ZipWorks(j, t), phase = "chunks"
  PROVE  IsPiece(t, chunk + j - 1)
<1> DEFINE s == slots[j]
<1>1. j \in 1 .. Len(slots) /\ Works(s, t) /\ IsPiece(s, chunk + j - 1)
  BY DEF ZipWorks, SlotsInv
<1>2. t.source = s.source /\ t.from = s.from /\ t.upto = s.upto
  BY <1>1 DEF Works
<1>3. t.state = "done" => t.data = Units(Now.path, s.from, s.upto)
  BY <1>1 DEF Works, IsPiece, Now
<1> QED
  BY <1>1, <1>2, <1>3 DEF IsPiece

(* What the slots hold stays what their files had.                          *)
LEMMA ZipKeepsSlots ==
  ASSUME ListInv(ZipEntry), ZipTypes, ZipPhases, QueueInv, SlotsInv, ZipMoves
  PROVE  SlotsInv'
<1> DEFINE Stays == sources' = sources /\ changed \subseteq changed'
           ReadyOf(ts) == \A j \in 1 .. Len(ts) : ts[j].state = "done" /\ HasRead(ts[j])
           ReadsOf(ts) == \A j \in 1 .. Len(ts) : HasRead(ts[j])
           PiecesOf(ts, c) == c + Len(ts) <= Pieces(Now.size) /\ \A j \in 1 .. Len(ts) : IsPiece(ts[j], c + j - 1)
<1>1. ASSUME Stays, NEW t, HasRead(t) PROVE HasRead(t)'
  BY <1>1 DEF HasRead, Units, Unit
<1>2. ASSUME Stays, NEW ts, ReadyOf(ts) PROVE ReadyOf(ts)'
  BY <1>1, <1>2
<1>3. ASSUME Stays, NEW ts, ReadsOf(ts) PROVE ReadsOf(ts)'
  BY <1>1, <1>3
<1>4. ASSUME Stays, at' = at, NEW ts, NEW c, PiecesOf(ts, c) PROVE PiecesOf(ts, c)'
  <2>1. Now' = Now
    BY <1>4 DEF Now
  <2> QED
    BY <1>4, <2>1 DEF IsPiece, Units, Unit
<1>5. /\ ReadyOf(ready)
      /\ phase = "wave" => ReadsOf(slots)
      /\ phase = "chunks" => PiecesOf(slots, chunk)
  BY DEF SlotsInv
<1>6. ASSUME Stays, ReadyOf(ready'), phase' = "wave" => ReadsOf(slots'), phase' = "chunks" => at' = at /\ PiecesOf(slots', chunk')
      PROVE  SlotsInv'
  <2>1. PICK rs, ss, c : rs = ready' /\ ss = slots' /\ c = chunk'
    OBVIOUS
  <2>2. ReadyOf(rs)' /\ (phase' = "wave" => ReadsOf(ss)') /\ (phase' = "chunks" => PiecesOf(ss, c)')
    <3>1. ReadyOf(rs)'
      BY <1>2, <1>6, <2>1
    <3>2. ASSUME phase' = "wave" PROVE ReadsOf(ss)'
      BY <1>3, <1>6, <2>1, <3>2
    <3>3. ASSUME phase' = "chunks" PROVE PiecesOf(ss, c)'
      BY <1>4, <1>6, <2>1, <3>3
    <3> QED
      BY <3>1, <3>2, <3>3
  <2> QED
    BY <2>1, <2>2 DEF SlotsInv, HasRead, IsPiece, Units, Unit
<1>7. ZipStays => Stays /\ at' = at
  BY DEF ZipStays
<1>8. ReadyOf(<<>>) /\ ReadsOf(<<>>)
  OBVIOUS
<1>9. CASE ZipBegins
  <2>1. phase' \notin {"wave", "chunks"} /\ ready' = <<>>
    BY <1>9 DEF ZipBegins, List, ZipIdle, ZipPhases
  <2> QED
    BY <2>1 DEF SlotsInv
<1> HIDE DEF ReadyOf, ReadsOf, PiecesOf
<1>10. ASSUME NEW e, ZipWrites(e) PROVE SlotsInv'
  <2>1. phase' = "writing" /\ Stays /\ ready' = ready
    BY <1>10 DEF ZipWrites, ZipEnters, Finish, ZipIdle
  <2> QED
    BY <1>5, <1>6, <2>1
<1>11. ASSUME NEW e, ZipTakes(e) PROVE SlotsInv'
  <2>1. phase' = "writing" /\ Stays
    BY <1>11 DEF ZipTakes, ZipEnters, Finish
  <2>2. \A j \in 1 .. Len(ready') : ready'[j] = ready[j + 1] /\ j + 1 \in 1 .. Len(ready)
    BY <1>11, TakeFacts
  <2>3. ReadyOf(ready')
    BY <1>5, <2>2 DEF ReadyOf
  <2> QED
    BY <1>6, <2>1, <2>3
<1>12. CASE ZipFills
  <2>1. phase' = "wave" /\ Stays /\ ready' = ready
    BY <1>7, <1>12 DEF ZipFills
  <2>2. \A j \in 1 .. Len(slots') : slots'[j].source \in DOMAIN sources /\ slots'[j].data = <<>> /\ slots'[j].state = "waiting"
    BY <1>12, FillFacts
  <2>3. ASSUME NEW j \in 1 .. Len(slots') PROVE HasRead(slots'[j])
    <3>1. sources[slots'[j].source] \in SourceRecord
      BY <2>2 DEF ListInv
    <3>2. sources[slots'[j].source].path \in Paths /\ sources[slots'[j].source].size \in Nat
      BY <3>1 DEF SourceRecord
    <3>3. Units(sources[slots'[j].source].path, 0, 0) = <<>>
      BY <3>2, UnitsFacts
    <3>4. Len(<<>>) = 0 /\ 0 <= sources[slots'[j].source].size
      BY ONLY <3>2
    <3> QED
      BY <2>2, <3>3, <3>4 DEF HasRead
  <2>4. ReadsOf(slots')
    BY <2>3 DEF ReadsOf
  <2> QED
    BY <1>5, <1>6, <2>1, <2>4
<1>13. CASE ZipFilled
  <2>1. phase = "wave" /\ phase' = "writing" /\ Stays /\ ready' = slots /\ AllDone
    BY <1>7, <1>13 DEF ZipFilled
  <2>2. DOMAIN slots = 1 .. Len(slots)
    BY DEF ZipTypes
  <2>3. ReadyOf(slots)
    BY <1>5, <2>1, <2>2 DEF AllDone, ReadyOf, ReadsOf
  <2> QED
    BY <1>6, <2>1, <2>3
<1>14. ASSUME NEW j, NEW t, ZipWorks(j, t) PROVE SlotsInv'
  <2>1. phase \in {"wave", "chunks"} /\ phase' = phase /\ Stays /\ at' = at /\ ready' = ready /\ chunk' = chunk
    BY <1>7, <1>14 DEF ZipWorks
  <2>2. /\ Len(slots') = Len(slots) /\ slots'[j] = t /\ j \in 1 .. Len(slots)
        /\ \A i \in 1 .. Len(slots) : i # j => slots'[i] = slots[i]
    BY <1>14, WorkFacts
  <2>3. ASSUME phase = "wave" PROVE ReadsOf(slots')
    <3>1. HasRead(t)
      BY <1>14, <2>3, WaveSlotReads
    <3> QED
      BY <1>5, <2>2, <2>3, <3>1 DEF ReadsOf
  <2>4. ASSUME phase = "chunks" PROVE PiecesOf(slots', chunk)
    <3>1. IsPiece(t, chunk + j - 1)
      BY <1>14, <2>4, PieceSlotReads
    <3> QED
      BY <1>5, <2>2, <2>4, <3>1 DEF PiecesOf
  <2> QED
    BY <1>5, <1>6, <2>1, <2>3, <2>4
<1>15. CASE ZipSplits
  <2>1. /\ phase = "writing" /\ phase' = "chunks" /\ Stays /\ at' = at /\ ready' = ready /\ slots' = slots /\ chunk' = 0
        /\ at <= Len(sources)
    BY <1>7, <1>15 DEF ZipSplits
  <2>2. slots = <<>>
    BY <2>1 DEF ZipPhases
  <2>3. Now.size \in Nat
    BY <2>1, NowFacts
  <2>4. Pieces(Now.size) \in Nat
    BY <2>3, PieceFacts
  <2>5. PiecesOf(<<>>, 0)
    BY <2>4 DEF PiecesOf
  <2> QED
    BY <1>5, <1>6, <2>1, <2>2, <2>5
<1>16. CASE ZipOffers
  <2>1. phase' = "chunks" /\ Stays /\ at' = at /\ ready' = ready /\ chunk' = chunk
    BY <1>7, <1>16 DEF ZipOffers
  <2>2. PICK n \in Nat : /\ chunk + n <= Pieces(Now.size) /\ Len(slots') = n
                         /\ \A j \in 1 .. n : IsPiece(slots'[j], chunk + j - 1)
    BY <1>16, OfferFacts
  <2>3. PiecesOf(slots', chunk)
    BY <2>2 DEF PiecesOf
  <2> QED
    BY <1>5, <1>6, <2>1, <2>3
<1>17. CASE ZipGathers
  <2>1. phase' = "chunks" /\ Stays /\ at' = at /\ ready' = ready /\ slots' = <<>>
    BY <1>7, <1>17 DEF ZipGathers
  <2>2. chunk' \in Nat /\ chunk' <= Pieces(Now.size)
    BY <1>17, GatherFacts
  <2>3. PiecesOf(<<>>, chunk')
    BY <2>2 DEF PiecesOf
  <2> QED
    BY <1>5, <1>6, <2>1, <2>3
<1>18. CASE ZipOpens \/ ZipStreams \/ ZipStops
  <2>1. phase' \notin {"wave", "chunks"} /\ Stays /\ ready' = ready
    BY <1>7, <1>18 DEF ZipOpens, ZipStreams, ZipStops, ZipIdle
  <2> QED
    BY <1>5, <1>6, <2>1
<1>19. CASE ZipChanges
  <2>1. UNCHANGED <<phase, sources, at, ready, slots, chunk>> /\ changed \subseteq changed'
    BY <1>19, ChangeFacts DEF ZipChanges, ZipIdle
  <2> QED
    BY <1>5, <1>6, <2>1
<1> QED
  BY <1>9, <1>10, <1>11, <1>12, <1>13, <1>14, <1>15, <1>16, <1>17, <1>18, <1>19 DEF ZipMoves

(* What is held of nothing, and after one of them is gone.                  *)
LEMMA BoundsKept ==
  ASSUME NEW ss \in Seq(SourceRecord), NEW T \in SUBSET SmallIn(ss), IsBounded(T, ss)
  PROVE  IsBounded({}, ss) /\ \A x : IsBounded(T \ {x}, ss)
<1>1. IsFiniteSet(T) /\ Cardinality(T) \in Nat /\ \A k \in T : Sizes(ss)[k] \in Nat
  <2>1. SmallIn(ss) \subseteq 1 .. Len(ss) /\ Len(ss) \in Nat
    BY QueueFacts
  <2>2. IsFiniteSet(1 .. Len(ss))
    BY <2>1, CountUpto
  <2>3. IsFiniteSet(T) /\ Cardinality(T) \in Nat
    BY <2>1, <2>2, FS_Subset, FS_CardinalityType
  <2>4. ASSUME NEW k \in T PROVE Sizes(ss)[k] \in Nat
    <3>1. k \in DOMAIN ss
      BY <2>1
    <3>2. ss[k] \in SourceRecord
      BY <3>1
    <3> QED
      BY <3>1, <3>2 DEF Sizes, SourceRecord
  <2> QED
    BY <2>3, <2>4
<1>2. IsBounded({}, ss)
  BY FS_EmptySet DEF IsBounded
<1>3. ASSUME NEW x \in T PROVE IsBounded(T \ {x}, ss)
  <2>1. Cardinality(T \ {x}) = Cardinality(T) - 1
    BY <1>1, FS_RemoveElement
  <2>2. SumFunctionOnSet(Sizes(ss), T) = Sizes(ss)[x] + SumFunctionOnSet(Sizes(ss), T \ {x})
    BY <1>1, SumWithout
  <2>3. SumFunctionOnSet(Sizes(ss), T \ {x}) \in Nat /\ Sizes(ss)[x] \in Nat
    <3>1. IsFiniteSet(T \ {x}) /\ \A k \in T \ {x} : Sizes(ss)[k] \in Nat
      BY <1>1, FS_RemoveElement
    <3> QED
      BY <1>1, <3>1, SumType
  <2>4. Threads \in Nat /\ Budget \in Nat
    BY ThreadsAssumption, ZipAssumption
  <2>5. Cardinality(T) <= 1 \/ (Cardinality(T) <= Threads /\ SumFunctionOnSet(Sizes(ss), T) <= Budget)
    BY DEF IsBounded
  <2>6. Cardinality(T \ {x}) <= 1 \/ (Cardinality(T \ {x}) <= Threads /\ SumFunctionOnSet(Sizes(ss), T \ {x}) <= Budget)
    BY ONLY <1>1, <2>1, <2>2, <2>3, <2>4, <2>5
  <2> QED
    BY <2>6 DEF IsBounded
<1>4. ASSUME NEW x, x \notin T PROVE IsBounded(T \ {x}, ss)
  <2>1. T \ {x} = T
    BY <1>4
  <2> QED
    BY <2>1
<1> QED
  BY <1>2, <1>3, <1>4

(* A wave holds one file, or as many as fit.                                *)
LEMMA WaveIsBounded ==
  ASSUME ListInv(ZipEntry), ZipTypes, QueueInv, NEW n \in 1 .. Threads, next + n <= Len(Queue(sources)),
         n = 1 \/ OfZip!Fits(n)
  PROVE  IsBounded({Queue(sources)[next + j] : j \in 1 .. n}, sources)
<1> DEFINE q == Queue(sources)
           T == {q[next + j] : j \in 1 .. n}
<1>1. n \in Nat /\ next \in Nat /\ Len(q) \in Nat /\ \A m \in 1 .. Len(q) : q[m] \in DOMAIN sources
  BY QueueHolds, ThreadsAssumption DEF ZipTypes
<1>2. T \subseteq DOMAIN sources
  <2>1. \A j \in 1 .. n : next + j \in 1 .. Len(q)
    BY <1>1
  <2> QED
    BY <1>1, <2>1
<1>3. IsFiniteSet(T) /\ Cardinality(T) <= n
  <2> DEFINE f == [j \in 1 .. n |-> q[next + j]]
  <2>1. f \in Surjection(1 .. n, T)
    BY DEF Surjection
  <2>2. IsFiniteSet(1 .. n) /\ Cardinality(1 .. n) = n
    BY <1>1, CountUpto
  <2> HIDE DEF f, T
  <2> QED
    BY <2>1, <2>2, FS_Surjection
<1>4. CASE n = 1
  BY <1>3, <1>4 DEF IsBounded
<1>5. CASE OfZip!Fits(n)
  <2>1. OfZip!SizeOf(T) <= Budget
    BY <1>5, QueueIsSmall DEF OfZip!Fits
  <2> HIDE DEF T
  <2>2. SumFunctionOnSet(Sizes(sources), T) <= Budget
    BY <1>2, <1>3, <2>1, SizeIsSum
  <2>3. Cardinality(T) \in Nat /\ Cardinality(T) <= Threads
    BY <1>1, <1>3, FS_CardinalityType, ThreadsAssumption
  <2> QED
    BY <2>2, <2>3 DEF IsBounded, T
<1> QED
  BY <1>4, <1>5

(* No more than that is read ahead.                                         *)
LEMMA ZipKeepsHeld ==
  ASSUME ListInv(ZipEntry), ZipTypes, ZipPhases, QueueInv, SlotsInv, HeldInv, ZipMoves
  PROVE  HeldInv'
<1> DEFINE T == HeldSmall(sources, slots, ready)
           U == HeldSmall(sources', slots', ready')
<1>1. sources \in Seq(SourceRecord) /\ T \in SUBSET SmallIn(sources) /\ IsBounded(T, sources)
  BY DEF ListInv, HeldSmall, HeldInv
<1>2. ASSUME sources' = sources, U = T \/ \E x : U = T \ {x} PROVE HeldInv'
  <2>1. IsBounded(U, sources)
    BY <1>1, <1>2, BoundsKept
  <2> QED
    BY <1>2, <2>1 DEF HeldInv
<1>3. ZipStays => sources' = sources
  BY DEF ZipStays
<1>4. SourcesOf(<<>>) = {}
  BY DEF SourcesOf
<1>5. CASE ZipBegins
  <2>1. slots' = <<>> /\ ready' = <<>>
    BY <1>5 DEF ZipBegins, ZipIdle, ZipPhases
  <2>2. U = {}
    BY <1>4, <2>1 DEF HeldSmall
  <2>3. IsBounded({}, sources')
    BY FS_EmptySet DEF IsBounded
  <2> QED
    BY <2>2, <2>3 DEF HeldInv
<1>6. ASSUME UNCHANGED <<sources, slots, ready>> PROVE HeldInv'
  <2>1. U = T
    BY <1>6
  <2> QED
    BY <1>2, <1>6, <2>1
<1>7. ASSUME NEW e, ZipWrites(e) PROVE HeldInv'
  BY <1>6, <1>7 DEF ZipWrites, ZipEnters, Finish, ZipIdle
<1>8. ASSUME NEW e, ZipTakes(e) PROVE HeldInv'
  <2>1. slots' = slots /\ sources' = sources
    BY <1>8 DEF ZipTakes, ZipEnters, Finish
  <2>2. /\ Len(ready') = Len(ready) - 1 /\ Len(ready) > 0 /\ Len(ready) \in Nat
        /\ \A j \in 1 .. Len(ready') : ready'[j] = ready[j + 1] /\ j + 1 \in 1 .. Len(ready)
        /\ ready[1].source = at
    BY <1>8, TakeFacts, QueueHolds
  <2>3. SourcesOf(ready) = SourcesOf(ready') \cup {at}
    <3>1. \A j \in 1 .. Len(ready') : ready'[j].source \in SourcesOf(ready)
      BY <2>2 DEF SourcesOf
    <3>2. at \in SourcesOf(ready)
      <4>1. 1 \in 1 .. Len(ready)
        BY <2>2
      <4> QED
        BY <2>2, <4>1 DEF SourcesOf
    <3>3. ASSUME NEW j \in 1 .. Len(ready) PROVE ready[j].source \in SourcesOf(ready') \cup {at}
      <4>1. CASE j = 1
        BY <2>2, <4>1
      <4>2. CASE j # 1
        <5>1. PICK i \in 1 .. Len(ready') : i + 1 = j
          <6>1. j - 1 \in 1 .. Len(ready') /\ (j - 1) + 1 = j
            BY <2>2, <4>2
          <6> QED
            BY <6>1
        <5>2. ready'[i].source = ready[j].source
          BY <2>2, <5>1
        <5> QED
          BY <5>2 DEF SourcesOf
      <4> QED
        BY <4>1, <4>2
    <3> QED
      BY <3>1, <3>2, <3>3 DEF SourcesOf
  <2>4. U = T \/ U = T \ {at}
    BY <2>1, <2>3 DEF HeldSmall
  <2> QED
    BY <1>2, <2>1, <2>4
<1>9. CASE ZipFills
  <2>1. sources' = sources /\ ready' = <<>>
    BY <1>3, <1>9 DEF ZipFills
  <2>2. PICK n \in 1 .. Threads : /\ next + n <= Len(Queue(sources)) /\ (n = 1 \/ OfZip!Fits(n)) /\ Len(slots') = n
                                  /\ \A j \in 1 .. n : slots'[j].source = Queue(sources)[next + j]
    BY <1>9, FillFacts
  <2>3. SourcesOf(slots') = {Queue(sources)[next + j] : j \in 1 .. n}
    BY <2>2 DEF SourcesOf
  <2>4. SourcesOf(slots') \subseteq SmallIn(sources)
    <3>1. ASSUME NEW j \in 1 .. n PROVE Queue(sources)[next + j] \in SmallIn(sources)
      <4>1. next \in Nat /\ Len(Queue(sources)) \in Nat
        BY QueueHolds
      <4>2. next + j \in 1 .. Len(Queue(sources))
        BY <2>2, <4>1, ThreadsAssumption
      <4> QED
        BY <4>2, QueueHolds
    <3> QED
      BY <2>3, <3>1
  <2>5. U = SourcesOf(slots')
    BY <1>4, <2>1, <2>4 DEF HeldSmall
  <2>6. IsBounded({Queue(sources)[next + j] : j \in 1 .. n}, sources)
    BY <2>2, WaveIsBounded
  <2> QED
    BY <2>1, <2>3, <2>5, <2>6 DEF HeldInv
<1>10. CASE ZipFilled
  <2>1. sources' = sources /\ ready' = slots /\ slots' = <<>> /\ phase = "wave"
    BY <1>3, <1>10 DEF ZipFilled
  <2>2. ready = <<>>
    BY <2>1 DEF ZipPhases
  <2>3. U = T
    BY <1>4, <2>1, <2>2 DEF HeldSmall
  <2> QED
    BY <1>2, <2>1, <2>3
<1>11. ASSUME NEW j, NEW t, ZipWorks(j, t) PROVE HeldInv'
  <2>1. sources' = sources /\ ready' = ready
    BY <1>3, <1>11 DEF ZipWorks
  <2>2. Len(slots') = Len(slots) /\ \A i \in 1 .. Len(slots) : slots'[i].source = slots[i].source
    BY <1>11, WorkFacts
  <2>3. SourcesOf(slots') = SourcesOf(slots)
    BY <2>2 DEF SourcesOf
  <2>4. U = T
    BY <2>1, <2>3 DEF HeldSmall
  <2> QED
    BY <1>2, <2>1, <2>4
<1>12. CASE ZipSplits \/ ZipOpens \/ ZipStreams \/ ZipStops
  BY <1>3, <1>6, <1>12 DEF ZipSplits, ZipOpens, ZipStreams, ZipStops, ZipIdle
<1>13. ASSUME phase = "chunks" PROVE at \notin SmallIn(sources)
  <2>1. at <= Len(sources) /\ IsLarge(Now)
    BY <1>13 DEF ZipPhases
  <2>2. Now.size \in Nat
    BY <2>1, NowFacts
  <2> QED
    BY <2>1, <2>2, ZipAssumption DEF IsLarge, Now, SmallIn
<1>14. CASE ZipOffers
  <2>1. sources' = sources /\ ready' = ready /\ slots = <<>> /\ phase = "chunks"
    BY <1>3, <1>14 DEF ZipOffers
  <2>2. \A j \in 1 .. Len(slots') : slots'[j].source = at
    BY <1>14, OfferFacts
  <2>3. SourcesOf(slots') \subseteq {at}
    BY <2>2 DEF SourcesOf
  <2>4. U = T
    BY <1>4, <1>13, <2>1, <2>3 DEF HeldSmall
  <2> QED
    BY <1>2, <2>1, <2>4
<1>15. CASE ZipGathers
  <2>1. sources' = sources /\ ready' = ready /\ slots' = <<>> /\ phase = "chunks"
    BY <1>3, <1>15 DEF ZipGathers
  <2>2. \A j \in 1 .. Len(slots) : slots[j].source = at
    BY <2>1 DEF SlotsInv, IsPiece
  <2>3. SourcesOf(slots) \subseteq {at}
    BY <2>2 DEF SourcesOf
  <2>4. U = T
    BY <1>4, <1>13, <2>1, <2>3 DEF HeldSmall
  <2> QED
    BY <1>2, <2>1, <2>4
<1>16. CASE ZipChanges
  BY <1>6, <1>16, ChangeFacts DEF ZipChanges, ZipIdle
<1> QED
  BY <1>5, <1>7, <1>8, <1>9, <1>10, <1>11, <1>12, <1>14, <1>15, <1>16 DEF ZipMoves

(* What ends a turn is what was there, whole if nobody changed it.          *)
LEMMA ZipEndHolds ==
  ASSUME ListInv(ZipEntry), ZipTypes, ZipPhases, NEW e, at <= Len(sources), ZipEnds(e)
  PROVE  ZipHolds(e, Now)
<1> DEFINE p == Now.path
           size == Now.size
<1>1. e.body = body
  BY DEF ZipEnds
<1>2. /\ p \in Paths /\ size \in Nat /\ disk[p].len \in Nat
      /\ Now.kind = "file" /\ p \notin changed => size = disk[p].len
  BY NowFacts
<1>3. CASE phase = "chunks" /\ slots = <<>> /\ chunk = Pieces(Now.size)
  <2>1. body = Units(p, 0, Edge(size, Pieces(size)))
    BY <1>3 DEF ZipPhases
  <2>2. Edge(size, Pieces(size)) = size
    BY <1>2, PieceFacts
  <2>3. Len(Units(p, 0, size)) = size
    BY <1>2, UnitsFacts
  <2> QED
    BY <1>1, <2>1, <2>2, <2>3 DEF ZipHolds
<1>4. CASE phase = "stream" /\ Len(body) >= disk[Now.path].len
  <2>1. /\ IsLarge(Now) /\ ~options.chunked /\ body = Units(p, 0, Len(body)) /\ body \in Seq(Token)
        /\ p \notin changed => Len(body) <= size
    BY <1>4 DEF ZipPhases
  <2>2. Len(body) \in Nat
    BY <2>1
  <2>3. p \notin changed => Len(body) = size
    BY <1>2, <1>4, <2>1, <2>2 DEF IsLarge
  <2> QED
    BY <1>1, <2>1, <2>3 DEF ZipHolds
<1> QED
  BY <1>3, <1>4 DEF ZipEnds

(* So is what is taken from those that were read ahead.                     *)
LEMMA ZipTakeHolds ==
  ASSUME ListInv(ZipEntry), ZipTypes, QueueInv, SlotsInv, NEW e, ZipTakes(e)
  PROVE  /\ ZipHolds(e, Now) /\ Now.kind = "file" /\ at <= Len(sources)
         /\ e \in ZipEntry /\ e.name = Now.name /\ e.kind = "file"
<1>1. /\ Head(ready) = ready[1] /\ ready[1] \in ZipSlot /\ ready[1].source = at /\ Len(ready) > 0
  BY TakeFacts
<1>2. /\ at <= Len(sources) /\ at \in SmallIn(sources)
      /\ e = [kind |-> "file", name |-> sources[Head(ready).source].name, body |-> Head(ready).data]
  BY DEF ZipTakes, ZipEnters
<1>3. e = [kind |-> "file", name |-> Now.name, body |-> ready[1].data]
  BY <1>1, <1>2 DEF Now
<1>4. Now.kind = "file" /\ Now.size \in Nat /\ Now.name \in Seq(Nat) /\ ~(Now.size > Threshold)
  <2>1. Now.size \in Nat /\ Now.name \in Seq(Nat)
    BY <1>2, NowFacts
  <2> QED
    BY <1>2, <2>1, ZipAssumption DEF SmallIn, Now
<1>5. ready[1].state = "done" /\ HasRead(ready[1])
  <2>1. 1 \in 1 .. Len(ready)
    BY <1>1, QueueHolds
  <2> QED
    BY <2>1 DEF SlotsInv
<1>6. /\ ready[1].data = Units(Now.path, 0, Len(ready[1].data))
      /\ Now.path \notin changed => Len(ready[1].data) = Now.size
  BY <1>1, <1>5 DEF HasRead, Now
<1>7. ready[1].data \in Seq(Token)
  BY ONLY <1>1 DEF ZipSlot
<1> QED
  BY <1>2, <1>3, <1>4, <1>6, <1>7 DEF ZipHolds, IsLarge, ZipEntry

(* Every file of the archive stays what was there of it.                    *)
LEMMA ZipKeepsContents ==
  ASSUME ListInv(ZipEntry), ZipTypes, ZipPhases, QueueInv, SlotsInv, ReadInv, ZipMoves
  PROVE  ReadInv'
<1>1. ASSUME changed \subseteq changed', options' = options, NEW e, NEW s, ZipHolds(e, s) PROVE ZipHolds(e, s)'
  BY <1>1 DEF ZipHolds, IsLarge, Units, Unit
<1>2. ASSUME changed \subseteq changed', options' = options, NEW es, es = entries', NEW ss, ss = sources',
             \A k \in 1 .. Len(es) : es[k].kind = "file" => ZipHolds(es[k], ss[k])
      PROVE  ReadInv'
  <2>1. \A k \in 1 .. Len(es) : es[k].kind = "file" => ZipHolds(es[k], ss[k])'
    BY <1>1, <1>2
  <2> QED
    BY <1>2, <2>1 DEF ReadInv, ZipHolds, IsLarge, Units, Unit
<1>3. ASSUME changed \subseteq changed', options' = options, entries' = entries, sources' = sources \/ entries = <<>>
      PROVE  ReadInv'
  <2>1. \A k \in 1 .. Len(entries) : entries[k].kind = "file" => ZipHolds(entries[k], sources'[k])
    BY <1>3 DEF ReadInv
  <2> QED
    BY <1>2, <1>3, <2>1
<1>4. ASSUME NEW e, ZipEnters(e), e.kind = "file" => ZipHolds(e, Now) PROVE ReadInv'
  <2>1. entries' = Append(entries, e) /\ sources' = sources /\ changed' = changed /\ options' = options /\ at <= Len(sources)
    BY <1>4 DEF ZipEnters, Finish, world
  <2>2. entries \in Seq(ZipEntry) /\ Len(entries) \in Nat /\ at = Len(entries) + 1
    <3>1. entries \in Seq(ZipEntry)
      BY DEF ListInv
    <3> QED
      BY <2>1, <3>1, NowFacts
  <2>3. PICK n \in Nat : n = Len(entries)
    BY <2>2
  <2>4. Len(Append(entries, e)) = n + 1 /\ Append(entries, e)[n + 1] = e /\ \A k \in 1 .. n : Append(entries, e)[k] = entries[k]
    BY <2>2, <2>3
  <2>5. ASSUME NEW k \in 1 .. n + 1, Append(entries, e)[k].kind = "file" PROVE ZipHolds(Append(entries, e)[k], sources[k])
    <3>1. CASE k = n + 1
      BY <1>4, <2>2, <2>3, <2>4, <2>5, <3>1 DEF Now
    <3>2. CASE k # n + 1
      <4>1. k \in 1 .. n
        BY <3>2
      <4> QED
        BY <2>3, <2>4, <2>5, <4>1 DEF ReadInv
    <3> QED
      BY <3>1, <3>2
  <2> QED
    BY <1>2, <2>1, <2>4, <2>5
<1>5. ZipStays => changed \subseteq changed' /\ options' = options /\ entries' = entries /\ sources' = sources
  BY DEF ZipStays, world
<1>6. CASE ZipBegins
  <2>1. changed \subseteq changed' /\ options' = options /\ entries' = entries /\ entries = <<>>
    BY <1>6 DEF ZipBegins, List, world, ListInv
  <2> QED
    BY <1>3, <2>1
<1>7. ASSUME NEW e, ZipWrites(e) PROVE ReadInv'
  <2>1. ZipEnters(e) /\ at <= Len(sources) /\ (ZipStores(e) \/ ZipEnds(e))
    BY <1>7 DEF ZipWrites, ZipEnters
  <2>2. CASE ZipStores(e)
    <3>1. e.kind # "file"
      BY <2>2 DEF ZipStores
    <3> QED
      BY <1>4, <2>1, <3>1
  <2>3. CASE ZipEnds(e)
    BY <1>4, <2>1, <2>3, ZipEndHolds
  <2> QED
    BY <2>1, <2>2, <2>3
<1>8. ASSUME NEW e, ZipTakes(e) PROVE ReadInv'
  <2>1. ZipEnters(e)
    BY <1>8 DEF ZipTakes
  <2> QED
    BY <1>4, <1>8, <2>1, ZipTakeHolds
<1>9. CASE ZipFills \/ ZipFilled \/ (\E j, t : ZipWorks(j, t)) \/ ZipSplits \/ ZipOffers \/ ZipGathers \/ ZipOpens \/ ZipStreams
           \/ ZipStops
  <2>1. ZipStays
    BY <1>9 DEF ZipFills, ZipFilled, ZipWorks, ZipSplits, ZipOffers, ZipGathers, ZipOpens, ZipStreams, ZipStops
  <2> QED
    BY <1>3, <1>5, <2>1
<1>10. CASE ZipChanges
  BY <1>3, <1>10, ChangeFacts DEF ZipChanges
<1> QED
  BY <1>6, <1>7, <1>8, <1>9, <1>10 DEF ZipMoves

(* So the list and its entries are kept.                                    *)
LEMMA ZipKeepsList ==
  ASSUME ListInv(ZipEntry), ZipTypes, ZipPhases, QueueInv, SlotsInv, ZipMoves
  PROVE  ListInv(ZipEntry)'
<1>1. ListStep(ZipEntry)
  <2>1. CASE ZipBegins
    BY <2>1 DEF ZipBegins, ListStep
  <2>2. ASSUME NEW e \in ZipEntry, ZipEnters(e), Answers(e, Now) PROVE ListStep(ZipEntry)
    <3>1. phase' # "begin" /\ Enters(e)
      BY <2>2 DEF ZipEnters, Enters
    <3> QED
      BY <3>1 DEF ListStep
  <2>3. ASSUME NEW e, ZipWrites(e) PROVE ListStep(ZipEntry)
    <3>1. ZipEnters(e) /\ at <= Len(sources)
      BY <2>3 DEF ZipWrites, ZipEnters
    <3>2. Now.name \in Seq(Nat) /\ Now.path \in Paths
      BY <3>1, NowFacts
    <3>3. e \in ZipEntry /\ Answers(e, Now)
      <4>1. CASE ZipStores(e)
        <5>1. <<>> \in Seq(Token) /\ 0 \in Nat /\ 1 \in Nat
          OBVIOUS
        <5>2. Units(Now.path, 0, 1) \in Seq(Token)
          BY <3>2, <5>1, PartsFacts
        <5>3. PICK b : e = [kind |-> Now.kind, name |-> Now.name, body |-> b] /\ (b = <<>> \/ b = Units(Now.path, 0, 1))
          BY <4>1 DEF ZipStores
        <5>4. b \in Seq(Token) /\ Now.kind \in {"dir", "link"}
          BY <4>1, <5>1, <5>2, <5>3 DEF ZipStores
        <5>5. e \in ZipEntry
          BY ONLY <3>2, <5>3, <5>4 DEF ZipEntry
        <5> QED
          BY <5>3, <5>5 DEF Answers
      <4>2. CASE ZipEnds(e)
        <5>1. body \in Seq(Token) /\ Now.kind = "file"
          BY <4>2 DEF ZipEnds, ZipPhases, IsLarge
        <5> QED
          BY <3>2, <4>2, <5>1 DEF ZipEnds, ZipEntry, Answers
      <4> QED
        BY <2>3, <4>1, <4>2 DEF ZipWrites
    <3> QED
      BY <2>2, <3>1, <3>3
  <2>4. ASSUME NEW e, ZipTakes(e) PROVE ListStep(ZipEntry)
    <3>1. ZipEnters(e)
      BY <2>4 DEF ZipTakes
    <3>2. e \in ZipEntry /\ Answers(e, Now)
      BY <2>4, ZipTakeHolds DEF Answers
    <3> QED
      BY <2>2, <3>1, <3>2
  <2>5. CASE ZipFills \/ ZipFilled \/ (\E j, t : ZipWorks(j, t)) \/ ZipSplits \/ ZipOffers \/ ZipGathers \/ ZipOpens \/ ZipStreams
             \/ ZipStops
    <3>1. ZipStays /\ phase' # "begin"
      BY <2>5 DEF ZipFills, ZipFilled, ZipWorks, ZipSplits, ZipOffers, ZipGathers, ZipOpens, ZipStreams, ZipStops
    <3> QED
      BY <3>1 DEF ZipStays, ListStep, Idles
  <2>6. CASE ZipChanges
    BY <2>6 DEF ZipChanges, ListStep
  <2> QED
    BY <2>1, <2>3, <2>4, <2>5, <2>6 DEF ZipMoves
<1> QED
  BY <1>1, ListInvKept

(* A zip starts as the invariant says.                                      *)
LEMMA ZipStartsSo ==
  ASSUME OfZip!Init
  PROVE  ZipInv
<1>1. next = 0 /\ ready = <<>> /\ slots = <<>> /\ chunk = 0 /\ SInit
  BY Starts DEF OfZip!Init
<1>2. /\ ListInv(ZipEntry) /\ phase = "begin" /\ entries = <<>> /\ body = <<>> /\ at = 1
      /\ sources = <<>>
  BY <1>1, Starts DEF SInit
<1>3. <<>> \in Seq(ZipSlot) /\ <<>> \in Seq(Token) /\ <<>> \in Seq(SourceRecord) /\ Len(<<>>) = 0
  OBVIOUS
<1>4. ZipTypes /\ ZipPhases
  BY <1>1, <1>2, <1>3 DEF ZipTypes, ZipPhases
<1>5. QueueInv
  <2>1. PICK q : q = Queue(sources)
    OBVIOUS
  <2>2. Len(q) \in Nat /\ \A n \in 1 .. Len(q) : q[n] \in 1 .. 0
    <3>1. Len(q) \in Nat /\ SmallIn(sources) \subseteq 1 .. Len(sources) /\ \A n \in 1 .. Len(q) : q[n] \in SmallIn(sources)
      BY <1>2, <1>3, <2>1, QueueFacts
    <3> QED
      BY <1>2, <1>3, <3>1
  <2>3. InTurn(q, 0, 1)
    BY <2>2 DEF InTurn
  <2>4. Follows(<<>>, q, 0) /\ 0 <= Len(q) /\ 0 - 0 = 0
    BY <2>2 DEF Follows
  <2> QED
    BY <1>1, <1>2, <1>3, <2>1, <2>3, <2>4 DEF QueueInv
<1>6. SlotsInv /\ ReadInv
  BY <1>1, <1>2 DEF SlotsInv, ReadInv
<1>7. HeldInv
  <2>1. HeldSmall(sources, slots, ready) = {}
    BY <1>1 DEF HeldSmall, SourcesOf
  <2> QED
    BY <2>1, FS_EmptySet DEF HeldInv, IsBounded
<1> QED
  BY <1>2, <1>4, <1>5, <1>6, <1>7 DEF ZipInv

(* What the invariant says of a zip: what its module promises.              *)
LEMMA ZipPromises ==
  ASSUME ZipInv
  PROVE  /\ OfZip!TypeOK /\ OfZip!HeldIsBounded
         /\ \A k \in DOMAIN entries : entries[k].kind = "file" => OfZip!Holds(entries[k], sources[k])
<1>0. ListInv(ZipEntry) /\ ZipTypes /\ ZipPhases /\ QueueInv /\ HeldInv /\ ReadInv
  BY DEF ZipInv
<1>1. OfZip!TypeOK
  <2>1. next \in 0 .. Len(OfZip!Small)
    BY <1>0, QueueHolds, QueueIsSmall
  <2>2. \A j \in DOMAIN slots : slots[j].state \in {"waiting", "reading", "done", "failed"}
    <3> TAKE j \in DOMAIN slots
    <3>1. slots[j] \in ZipSlot
      BY <1>0 DEF ZipTypes
    <3> QED
      BY ONLY <3>1 DEF ZipSlot
  <2> QED
    BY <1>0, <2>1, <2>2 DEF OfZip!TypeOK, ZipPhases
<1>2. OfZip!HeldIsBounded
  <2> DEFINE held == {s.source : s \in {t \in OfZip!ToSet(slots) \cup OfZip!ToSet(ready) : OfZip!IsSmall(sources[t.source])}}
             T == HeldSmall(sources, slots, ready)
  <2>1. /\ OfZip!ToSet(slots) = {slots[j] : j \in 1 .. Len(slots)} /\ OfZip!ToSet(ready) = {ready[j] : j \in 1 .. Len(ready)}
        /\ \A j \in 1 .. Len(slots) : slots[j].source \in DOMAIN sources
        /\ \A j \in 1 .. Len(ready) : ready[j].source \in DOMAIN sources
    BY <1>0 DEF OfZip!ToSet, ZipTypes
  <2>2. \A k \in DOMAIN sources : OfZip!IsSmall(sources[k]) <=> k \in SmallIn(sources)
    BY QueueIsSmall
  <2>3. held = T
    <3>1. T = {k \in SourcesOf(slots) \cup SourcesOf(ready) : OfZip!IsSmall(sources[k])}
      BY <2>1, <2>2 DEF HeldSmall, SourcesOf
    <3> QED
      BY <2>1, <3>1 DEF SourcesOf
  <2>4. sources \in Seq(SourceRecord)
    BY <1>0 DEF ListInv
  <2>5. T \in SUBSET DOMAIN sources /\ IsFiniteSet(T)
    <3>1. SmallIn(sources) \subseteq 1 .. Len(sources) /\ Len(sources) \in Nat
      BY <2>4, QueueFacts
    <3>2. T \subseteq 1 .. Len(sources) /\ DOMAIN sources = 1 .. Len(sources)
      BY <2>4, <3>1 DEF HeldSmall
    <3>3. IsFiniteSet(1 .. Len(sources))
      BY <3>1, CountUpto
    <3> QED
      BY <3>2, <3>3, FS_Subset
  <2>6. Cardinality(T) <= 1 \/ (Cardinality(T) <= Threads /\ SumFunctionOnSet(Sizes(sources), T) <= Budget)
    BY <1>0 DEF HeldInv, IsBounded
  <2> HIDE DEF held, T
  <2>7. OfZip!SizeOf(T) = SumFunctionOnSet(Sizes(sources), T)
    BY <2>5, SizeIsSum
  <2>8. Cardinality(held) <= 1 \/ (Cardinality(held) <= Threads /\ OfZip!SizeOf(held) <= Budget)
    BY <2>3, <2>6, <2>7
  <2>9. OfZip!Cardinality(held) = Cardinality(held)
    BY DEF OfZip!Cardinality, Cardinality
  <2> QED
    BY <2>8, <2>9 DEF OfZip!HeldIsBounded, held
<1>3. ASSUME NEW k \in DOMAIN entries, entries[k].kind = "file" PROVE OfZip!Holds(entries[k], sources[k])
  <2>1. k \in 1 .. Len(entries)
    BY <1>0 DEF ListInv
  <2>2. ZipHolds(entries[k], sources[k])
    BY <1>0, <1>3, <2>1 DEF ReadInv
  <2>3. \A p, a, b : OfZip!Units(p, a, b) = Units(p, a, b)
    BY OfZipSources
  <2> QED
    BY <2>2, <2>3 DEF OfZip!Holds, ZipHolds, OfZip!IsLarge, IsLarge
<1> QED
  BY <1>1, <1>2, <1>3

(* Every step of the specification keeps it.                                *)
LEMMA ZipInductive == Spec => [](format = "zip" => ZipInv)
<1>1. Init => (format = "zip" => ZipInv)
  BY ZipStartsSo DEF Init
<1>2. (format = "zip" => ZipInv) /\ [Next]_vars => (format = "zip" => ZipInv)'
  <2> SUFFICES ASSUME format = "zip" => ZipInv, [Next]_vars, format' = "zip" PROVE ZipInv'
    OBVIOUS
  <2>1. CASE UNCHANGED vars
    <3>1. format = "zip" /\ ZipInv
      BY <2>1 DEF vars
    <3>2. UNCHANGED <<svars, next, ready, slots, chunk>>
      BY <2>1 DEF vars, zipOnly
    <3> USE <3>1, <3>2 DEF ZipInv, svars, world, report
    <3>3. ListInv(ZipEntry)'
      BY DEF ListInv, IsWorld, InNameOrder, SizesHold
    <3>4. ZipTypes' /\ QueueInv' /\ HeldInv'
      BY DEF ZipTypes, QueueInv, HeldInv
    <3>5. ZipPhases'
      BY DEF ZipPhases, Now, Units, Unit
    <3>6. SlotsInv'
      BY DEF SlotsInv, HasRead, IsPiece, Now, Units, Unit
    <3>7. ReadInv'
      BY DEF ReadInv, ZipHolds, Units, Unit
    <3> QED
      BY <3>3, <3>4, <3>5, <3>6, <3>7
  <2>2. CASE Next
    <3>1. format = "zip" /\ OfZip!Next
      BY <2>2 DEF Next
    <3>2. ListInv(ZipEntry) /\ ZipTypes /\ ZipPhases /\ QueueInv /\ SlotsInv /\ HeldInv /\ ReadInv
      BY <3>1, <2>2 DEF Next, ZipInv
    <3>3. ZipMoves
      <4>1. /\ phase \in {"chunks", "stream"} => at <= Len(sources)
            /\ phase \in {"writing", "stream"} => slots = <<>>
        BY <3>2 DEF ZipPhases
      <4> QED
        BY <3>1, <3>2, <4>1, ZipSteps DEF ZipMoves
    <3> QED
      BY <3>2, <3>3, ZipKeepsList, ZipKeepsTypes, ZipKeepsPhases, ZipKeepsQueue, ZipKeepsSlots, ZipKeepsHeld,
         ZipKeepsContents DEF ZipInv
  <2> QED
    BY <2>1, <2>2
<1> QED
  BY <1>1, <1>2, PTL DEF Spec

-----------------------------------------------------------------------------
(* All the formats.                                                         *)

(* Whatever the format, its invariant holds.                                *)
AllInv ==
  /\ format \in {"zip", "tar", "7z"}
  /\ format = "zip" => ZipInv
  /\ format = "tar" => TarInv
  /\ format = "7z" => SevenZInv

(* The format stays what it was.                                            *)
LEMMA AllInductive == Spec => []AllInv
<1>1. Init => format \in {"zip", "tar", "7z"}
  BY DEF Init
<1>2. format \in {"zip", "tar", "7z"} /\ [Next]_vars => (format \in {"zip", "tar", "7z"})'
  BY DEF Next, vars
<1>3. Spec => [](format \in {"zip", "tar", "7z"})
  BY <1>1, <1>2, PTL DEF Spec
<1>4. /\ format \in {"zip", "tar", "7z"}
      /\ (format = "zip" => ZipInv) /\ (format = "tar" => TarInv) /\ (format = "7z" => SevenZInv)
      => AllInv
  BY DEF AllInv
<1> QED
  BY <1>3, <1>4, ZipInductive, TarInductive, SevenZInductive, PTL

(* What it says of the list and the entries.                                *)
LEMMA AllAnswer ==
  ASSUME AllInv
  PROVE  /\ at \in 1 .. Len(sources) + 1 /\ Len(entries) = at - 1 /\ InNameOrder
         /\ \A k \in DOMAIN entries : Answers(entries[k], sources[k])
<1>1. PICK E : ListInv(E)
  BY DEF AllInv, ZipInv, TarInv, SevenZInv
<1>2. entries \in Seq(E)
  BY <1>1 DEF ListInv
<1>3. DOMAIN entries = 1 .. Len(entries)
  BY <1>2
<1> QED
  BY <1>1, <1>3 DEF ListInv

(* Whatever is read ahead, in waves or in chunks, every variable of the     *)
(* creation stays in its type, and no more small files are handed over than *)
(* there are.                                                               *)
THEOREM TypeCorrect == Spec => []TypeOK
<1>1. AllInv => TypeOK
  <2> SUFFICES ASSUME AllInv PROVE TypeOK
    OBVIOUS
  <2>1. at \in 1 .. Len(sources) + 1
    BY AllAnswer
  <2>2. /\ format = "zip" => OfZip!TypeOK
        /\ format = "tar" => OfTar!TypeOK
        /\ format = "7z" => OfSevenZ!TypeOK
    BY ZipPromises, TarPromises, SevenZPromises DEF AllInv
  <2> QED
    BY <2>1, <2>2 DEF TypeOK, For
<1> QED
  BY <1>1, AllInductive, PTL

(* Entry k of an archive is source k of the list sorted by name, its kind,  *)
(* its name and its contents, whatever was read ahead and whoever changed   *)
(* the files: of a file nobody changed every byte that was listed.          *)
THEOREM EntriesMatchSources == Spec => []EntriesAreSources
<1>1. AllInv => EntriesAreSources
  <2> SUFFICES ASSUME AllInv PROVE EntriesAreSources
    OBVIOUS
  <2>1. /\ Len(entries) = at - 1 /\ InNameOrder
        /\ \A k \in DOMAIN entries : Answers(entries[k], sources[k])
    BY AllAnswer
  <2>2. ASSUME NEW k \in DOMAIN entries, entries[k].kind = "file" PROVE Holds(k)
    <3>1. format = "zip" => OfZip!Holds(entries[k], sources[k])
      BY <2>2, ZipPromises DEF AllInv
    <3>2. format = "tar" => OfTar!Holds(entries[k], sources[k])
      BY <2>2, TarPromises DEF AllInv
    <3>3. format = "7z" => OfSevenZ!Holds(k, sources[k])
      BY <2>2, SevenZPromises DEF AllInv
    <3> QED
      BY <3>1, <3>2, <3>3 DEF Holds, For
  <2> QED
    BY <2>1, <2>2 DEF EntriesAreSources, Answers, InNameOrder
<1> QED
  BY <1>1, AllInductive, PTL

(* What is held in memory stays within its bound: the files of a zip read   *)
(* ahead fit in the budget or are one file, the sink of a tar keeps no more *)
(* than its pieces, and a folder of a 7z is closed once it is full.         *)
THEOREM HeldStaysBounded == Spec => []HeldIsBounded
<1>1. AllInv => HeldIsBounded
  BY ZipPromises, TarPromises, SevenZPromises DEF AllInv, HeldIsBounded, For
<1> QED
  BY <1>1, AllInductive, PTL

-----------------------------------------------------------------------------
(* All the formats: what is counted and what is reported.                   *)

(* The sources whose sizes are not announced, and what has been reported of *)
(* files that are not in the archive yet.                                   *)
Apart == IF format = "tar" THEN DOMAIN links ELSE {}
ReadOf(ts) == SumFunction([j \in 1 .. Len(ts) |-> Len(ts[j].data)])
Underway ==
  IF format = "zip" THEN (ReadOf(ready) + ReadOf(slots)) + (IF phase = "chunks" THEN Len(body) ELSE 0)
  ELSE IF format = "tar" THEN Len(body) ELSE 0
SizesUpTo(k) == SumFunctionOnSet(Sizes(sources), (1 .. k) \ Apart)

IsTally(s) ==
  s \in [directories : Nat, symlinks : Nat, files : Nat, hardlinks : Nat, bytes : Nat, specials : {s.specials}]
Counted(s) == s.files + s.directories + s.symlinks + s.hardlinks

(* While it has not failed, the counts are those of the entries and the     *)
(* bytes, of files that nobody changed, those of the sources written.       *)
CountInv ==
  phase # "failed" =>
    /\ IsTally(summary) /\ processed \in Nat
    /\ finished = at - 1 /\ Counted(summary) = at - 1
    /\ \A k \in DOMAIN sources : sources[k].kind # "file" => sources[k].size = 0
    /\ phase # "begin" => totals = [bytes |-> SizesUpTo(Len(sources)), entries |-> Len(sources)]
    /\ phase = "begin" => summary.bytes = 0 /\ processed = 0
    /\ phase \in {"ending", "done"} => at > Len(sources) /\ Underway = 0
    /\ changed = {} => summary.bytes = SizesUpTo(at - 1) /\ processed = summary.bytes + Underway

Counters == {"directories", "symlinks", "files", "hardlinks"}

(* What any step of any format does to them.                                *)
CountStep ==
  \/ phase' = "failed"
  \/ phase = "begin" /\ phase' = "writing" /\ List(Apart') /\ Underway' = 0
  \/ \E e, c, n :
       /\ Finish(e, c, n) /\ c \in Counters /\ n \in Nat /\ processed' \in Nat
       /\ phase \notin {"begin", "failed"} /\ phase' = "writing" /\ at <= Len(sources) /\ Apart' = Apart
       /\ changed = {} => /\ n = IF at \in Apart THEN 0 ELSE Now.size
                          /\ processed' + Underway = (processed + n) + Underway'
  \/ /\ UNCHANGED <<sources, at, totals, summary, finished>> /\ Apart' = Apart
     /\ phase \notin {"begin", "failed"} /\ phase' # "begin" /\ processed' \in Nat /\ changed \subseteq changed'
     /\ changed' = {} => processed' + Underway = processed + Underway'
     /\ phase' \in {"ending", "done"} => at > Len(sources) /\ Underway' = 0

(* What is announced is the sum of the sizes of the sources that are stored.*)
LEMMA TotalIsSum ==
  ASSUME NEW l, IsFiniteSet(DOMAIN Collected)
  PROVE  Total(l) = SumFunctionOnSet(Sizes(Collected), DOMAIN Collected \ l)
<1> DEFINE ks == DOMAIN Collected \ l
           f == Sizes(Collected)
           Solves(h) == h = [s \in SUBSET ks |-> IF s = {} THEN 0 ELSE Collected[Some(s)].size + h[s \ {Some(s)}]]
           k == CHOOSE h : Solves(h)
<1>0. IsFiniteSet(ks)
  BY FS_Subset
<1>1. PICK h : IsSum(h, f, ks) /\ SumFunctionOnSet(f, ks) = h[ks]
  <2> HIDE DEF f, ks
  <2> QED
    BY <1>0, SumFunctionOnSetIsSum
<1>2. \A s \in SUBSET ks : s # {} => Collected[Some(s)].size = f[Some(s)]
  BY SomeFacts DEF Sizes
<1>7. Total(l) = k[ks]
  BY DEF Total, MapThenSumSet, MapThenFoldSet, Some
<1> HIDE DEF f, ks
<1>3. \A g : Solves(g) <=> IsSum(g, f, ks)
  <2> TAKE g
  <2>1. [s \in SUBSET ks |-> IF s = {} THEN 0 ELSE Collected[Some(s)].size + g[s \ {Some(s)}]]
        = [s \in SUBSET ks |-> IF s = {} THEN 0 ELSE f[Some(s)] + g[s \ {Some(s)}]]
    BY <1>2
  <2> QED
    BY <2>1 DEF IsSum
<1>4. IsSum(k, f, ks)
  <2>1. Solves(h)
    BY <1>1, <1>3
  <2>2. Solves(k)
    BY <2>1
  <2> QED
    BY <1>3, <2>2
<1>5. k[ks] = h[ks]
  <2>1. ks \in SUBSET (ks \cap ks)
    OBVIOUS
  <2> HIDE DEF k
  <2> QED
    BY SMTT(40), <1>0, <1>1, <1>4, <2>1, SumUnique
<1> QED
  BY <1>1, <1>5, <1>7 DEF f, ks

(* The sizes up to a source are those up to the one before it and its own.  *)
LEMMA SizesGrow ==
  ASSUME NEW ss \in Seq(SourceRecord), NEW k \in 1 .. Len(ss), NEW L
  PROVE  /\ SumFunctionOnSet(Sizes(ss), (1 .. k) \ L)
            = SumFunctionOnSet(Sizes(ss), (1 .. k - 1) \ L) + (IF k \in L THEN 0 ELSE ss[k].size)
         /\ SumFunctionOnSet(Sizes(ss), (1 .. k) \ L) \in Nat /\ SumFunctionOnSet(Sizes(ss), (1 .. k - 1) \ L) \in Nat
<1> DEFINE f == Sizes(ss)
           S == (1 .. k) \ L
           T == (1 .. k - 1) \ L
<1>1. \A x \in S \cup T : f[x] \in Nat /\ f[x] = ss[x].size
  <2> TAKE x \in S \cup T
  <2>1. x \in DOMAIN ss
    OBVIOUS
  <2>2. ss[x] \in SourceRecord
    BY <2>1
  <2> QED
    BY <2>1, <2>2 DEF Sizes, SourceRecord
<1>2. IsFiniteSet(S) /\ IsFiniteSet(T)
  <2>1. IsFiniteSet(1 .. k) /\ IsFiniteSet(1 .. k - 1)
    BY CountUpto
  <2> QED
    BY <2>1, FS_Subset
<1>3. k \in L => S = T
  OBVIOUS
<1>4. k \notin L => k \in S /\ S \ {k} = T
  OBVIOUS
<1>5. k \notin L => f[k] = ss[k].size
  BY <1>1, <1>4
<1> HIDE DEF f, S, T
<1>6. SumFunctionOnSet(f, S) \in Nat /\ SumFunctionOnSet(f, T) \in Nat
  BY <1>1, <1>2, SumType
<1>7. k \notin L => SumFunctionOnSet(f, S) = f[k] + SumFunctionOnSet(f, T)
  <2>1. IsFiniteSet(S) /\ \A x \in S : f[x] \in Nat
    BY <1>1, <1>2
  <2>2. \A x \in S : SumFunctionOnSet(f, S) = f[x] + SumFunctionOnSet(f, S \ {x})
    BY ONLY <2>1, SumWithout
  <2> QED
    BY <1>4, <2>2
<1>8. SumFunctionOnSet(f, S) = SumFunctionOnSet(f, T) + (IF k \in L THEN 0 ELSE ss[k].size)
  <2>1. CASE k \in L
    BY <1>3, <1>6, <2>1
  <2>2. CASE k \notin L
    <3>1. f[k] \in Nat
      BY <1>1, <1>4, <2>2
    <3> QED
      BY <1>5, <1>6, <1>7, <2>2, <3>1
  <2> QED
    BY <2>1, <2>2
<1> QED
  BY <1>6, <1>8 DEF f, S, T

(* Only files have a size.                                                  *)
LEMMA CollectedSizes ==
  ASSUME IsWorld
  PROVE  /\ Collected \in Seq(SourceRecord) /\ IsFiniteSet(DOMAIN Collected) /\ DOMAIN Collected = 1 .. Len(Collected)
         /\ \A k \in DOMAIN Collected : Collected[k].kind # "file" => Collected[k].size = 0
<1>1. Collected \in Seq(SourceRecord)
  BY CollectedIsList
<1>2. DOMAIN Collected = 1 .. Len(Collected) /\ Len(Collected) \in Nat
  BY <1>1
<1>3. IsFiniteSet(DOMAIN Collected)
  BY <1>2, CountUpto
<1>4. \A k \in DOMAIN Collected : Collected[k] \in Found
  BY CollectedFacts DEF Sorted
<1>5. \A s \in Found : s.kind # "file" => s.size = 0
  <2> SUFFICES ASSUME NEW s \in Found, s.kind # "file" PROVE s.size = 0
    OBVIOUS
  <2>1. PICK k \in Kept : s = Source(k[1], k[2])
    BY DEF Found
  <2>2. s.kind = KindOf(k[2]) /\ s.size = IF KindOf(k[2]) = "file" THEN disk[k[2]].len ELSE 0
    BY <2>1 DEF Source
  <2> QED
    BY <2>2
<1> QED
  BY <1>1, <1>2, <1>3, <1>4, <1>5

(* A tally by its counts.                                                   *)
TallyOf(d, l, f, h, b, x) ==
  [directories |-> d, symlinks |-> l, files |-> f, hardlinks |-> h, bytes |-> b, specials |-> x]
LEMMA TallyOfFacts ==
  ASSUME NEW d \in Nat, NEW l \in Nat, NEW f \in Nat, NEW h \in Nat, NEW b \in Nat, NEW x
  PROVE  /\ IsTally(TallyOf(d, l, f, h, b, x)) /\ TallyOf(d, l, f, h, b, x).bytes = b
         /\ Counted(TallyOf(d, l, f, h, b, x)) = f + d + l + h
<1>1. IsTally(TallyOf(d, l, f, h, b, x))
  BY DEF IsTally, TallyOf
<1>2. TallyOf(d, l, f, h, b, x).bytes = b /\ Counted(TallyOf(d, l, f, h, b, x)) = f + d + l + h
  BY DEF Counted, TallyOf
<1> QED
  BY <1>1, <1>2

(* One more is counted, with its bytes.                                     *)
CountsOne(s, c, n, t) == t = [s EXCEPT ![c] = @ + 1, !.bytes = @ + n]
LEMMA TallyGrows ==
  ASSUME NEW s, IsTally(s), NEW c \in Counters, NEW n \in Nat, NEW t, CountsOne(s, c, n, t)
  PROVE  IsTally(t) /\ Counted(t) = Counted(s) + 1 /\ t.bytes = s.bytes + n
<1>1. PICK d \in Nat, l \in Nat, f \in Nat, h \in Nat, b \in Nat, x \in {s.specials} : s = TallyOf(d, l, f, h, b, x)
  BY DEF IsTally, TallyOf
<1>2. Counted(s) = f + d + l + h /\ s.bytes = b
  BY <1>1, TallyOfFacts
<1>3. ASSUME NEW dd \in Nat, NEW ll \in Nat, NEW ff \in Nat, NEW hh \in Nat,
             t = TallyOf(dd, ll, ff, hh, b + n, x), ff + dd + ll + hh = f + d + l + h + 1
      PROVE  IsTally(t) /\ Counted(t) = Counted(s) + 1 /\ t.bytes = s.bytes + n
  <2>1. b + n \in Nat
    OBVIOUS
  <2>2. IsTally(t) /\ t.bytes = b + n /\ Counted(t) = ff + dd + ll + hh
    BY ONLY <1>3, <2>1, TallyOfFacts
  <2> QED
    BY ONLY <1>2, <1>3, <2>2
<1>4. CASE c = "directories"
  <2>1. t = TallyOf(d + 1, l, f, h, b + n, x)
    BY <1>1, <1>4 DEF TallyOf, CountsOne
  <2>2. d + 1 \in Nat /\ f + (d + 1) + l + h = f + d + l + h + 1
    OBVIOUS
  <2> QED
    BY <1>3, <2>1, <2>2
<1>5. CASE c = "symlinks"
  <2>1. t = TallyOf(d, l + 1, f, h, b + n, x)
    BY <1>1, <1>5 DEF TallyOf, CountsOne
  <2>2. l + 1 \in Nat /\ f + d + (l + 1) + h = f + d + l + h + 1
    OBVIOUS
  <2> QED
    BY <1>3, <2>1, <2>2
<1>6. CASE c = "files"
  <2>1. t = TallyOf(d, l, f + 1, h, b + n, x)
    BY <1>1, <1>6 DEF TallyOf, CountsOne
  <2>2. f + 1 \in Nat /\ (f + 1) + d + l + h = f + d + l + h + 1
    OBVIOUS
  <2> QED
    BY <1>3, <2>1, <2>2
<1>7. CASE c = "hardlinks"
  <2>1. t = TallyOf(d, l, f, h + 1, b + n, x)
    BY <1>1, <1>7 DEF TallyOf, CountsOne
  <2>2. h + 1 \in Nat /\ f + d + l + (h + 1) = f + d + l + h + 1
    OBVIOUS
  <2> QED
    BY <1>3, <2>1, <2>2
<1> QED
  BY <1>4, <1>5, <1>6, <1>7 DEF Counters

(* Nothing is counted before anything is listed.                            *)
LEMMA CountStarts ==
  ASSUME SInit, Underway = 0
  PROVE  CountInv
<1>1. /\ phase = "begin" /\ sources = <<>> /\ at = 1 /\ summary = TallyOf(0, 0, 0, 0, 0, 0) /\ processed = 0 /\ finished = 0
  BY DEF SInit, Empty, TallyOf
<1>2. IsTally(summary) /\ summary.bytes = 0 /\ Counted(summary) = 0
  BY <1>1, TallyOfFacts
<1>3. SizesUpTo(0) = 0
  <2>1. (1 .. 0) \ Apart = {}
    OBVIOUS
  <2> QED
    BY <2>1, SumOfNothing DEF SizesUpTo
<1> QED
  BY <1>1, <1>2, <1>3 DEF CountInv

(* What is reported is what is written and what is under way.               *)
LEMMA Balance ==
  ASSUME NEW p \in Nat, NEW q \in Nat, NEW b \in Nat, NEW n \in Nat, NEW u \in Nat, NEW v \in Nat,
         p = b + u, q + u = (p + n) + v
  PROVE  q = (b + n) + v
OBVIOUS

(* Every step keeps the counts and the bytes.                               *)
LEMMA CountKept ==
  ASSUME NEW E, ListInv(E), CountInv, CountStep, Underway \in Nat, Underway' \in Nat
  PROVE  CountInv'
<1>0. /\ sources \in Seq(SourceRecord) /\ at \in 1 .. Len(sources) + 1 /\ IsWorld
      /\ phase = "begin" => at = 1 /\ sources = <<>> /\ changed = {}
  BY DEF ListInv
<1> SUFFICES ASSUME phase' # "failed" PROVE CountInv'
  BY DEF CountInv
<1>1. CASE phase = "begin" /\ phase' = "writing" /\ List(Apart') /\ Underway' = 0
  <2>1. /\ IsTally(summary) /\ Counted(summary) = 0 /\ finished = 0 /\ summary.bytes = 0 /\ processed = 0 /\ at = 1
    BY <1>0, <1>1 DEF CountInv
  <2>2. /\ sources' = Collected /\ totals' = [bytes |-> Total(Apart'), entries |-> Len(Collected)]
        /\ \E x : summary' = [summary EXCEPT !.specials = x]
        /\ at' = at /\ finished' = finished /\ processed' = processed
    BY <1>1 DEF List
  <2>3. IsTally(summary') /\ Counted(summary') = 0 /\ summary'.bytes = 0
    BY <2>1, <2>2 DEF IsTally, Counted
  <2>4. /\ Collected \in Seq(SourceRecord) /\ IsFiniteSet(DOMAIN Collected) /\ DOMAIN Collected = 1 .. Len(Collected)
        /\ \A k \in DOMAIN Collected : Collected[k].kind # "file" => Collected[k].size = 0
    BY <1>0, CollectedSizes
  <2>5. Total(Apart') = SumFunctionOnSet(Sizes(Collected), (1 .. Len(Collected)) \ Apart')
    BY <2>4, TotalIsSum
  <2>6. SizesUpTo(Len(sources))' = Total(Apart')
    BY <2>2, <2>5 DEF SizesUpTo
  <2>7. SizesUpTo(at - 1)' = 0
    <3>1. (1 .. at' - 1) \ Apart' = {}
      BY <2>1, <2>2
    <3> QED
      BY <3>1, SumOfNothing DEF SizesUpTo
  <2> QED
    BY <1>1, <2>1, <2>2, <2>3, <2>4, <2>6, <2>7 DEF CountInv
<1>2. ASSUME NEW e, NEW c \in Counters, NEW n \in Nat, Finish(e, c, n), processed' \in Nat,
             phase \notin {"begin", "failed"}, phase' = "writing", at <= Len(sources), Apart' = Apart,
             changed = {} => /\ n = IF at \in Apart THEN 0 ELSE Now.size
                             /\ processed' + Underway = (processed + n) + Underway'
      PROVE  CountInv'
  <2>1. /\ IsTally(summary) /\ processed \in Nat /\ finished = at - 1 /\ Counted(summary) = at - 1
        /\ \A k \in DOMAIN sources : sources[k].kind # "file" => sources[k].size = 0
        /\ totals = [bytes |-> SizesUpTo(Len(sources)), entries |-> Len(sources)]
        /\ changed = {} => summary.bytes = SizesUpTo(at - 1) /\ processed = summary.bytes + Underway
    BY <1>2 DEF CountInv
  <2>2. /\ CountsOne(summary, c, n, summary') /\ finished' = finished + 1 /\ at' = at + 1
        /\ sources' = sources /\ totals' = totals /\ changed' = changed
    BY <1>2 DEF Finish, CountsOne
  <2>3. IsTally(summary') /\ Counted(summary') = Counted(summary) + 1 /\ summary'.bytes = summary.bytes + n
    BY <1>2, <2>1, <2>2, TallyGrows
  <2>4. at \in 1 .. Len(sources)
    BY <1>0, <1>2
  <2>5. /\ SizesUpTo(at) = SizesUpTo(at - 1) + (IF at \in Apart THEN 0 ELSE Now.size)
        /\ SizesUpTo(at - 1) \in Nat
    BY SMTT(40), <1>0, <2>4, SizesGrow DEF SizesUpTo, Now
  <2>6. SizesUpTo(Len(sources))' = SizesUpTo(Len(sources)) /\ SizesUpTo(at - 1)' = SizesUpTo(at)
    <3>1. at' - 1 = at
      BY <2>2, <2>4
    <3> QED
      BY <1>2, <2>2, <3>1 DEF SizesUpTo
  <2>7. changed = {} => summary'.bytes = SizesUpTo(at) /\ processed' = summary'.bytes + Underway'
    <3> SUFFICES ASSUME changed = {} PROVE summary'.bytes = SizesUpTo(at) /\ processed' = summary'.bytes + Underway'
      OBVIOUS
    <3>1. summary'.bytes = SizesUpTo(at)
      BY <1>2, <2>1, <2>3, <2>5
    <3>2. summary.bytes \in Nat
      BY <2>1, <2>5
    <3>3. processed' = summary'.bytes + Underway'
      <4>1. /\ processed = summary.bytes + Underway /\ processed' + Underway = (processed + n) + Underway'
            /\ processed \in Nat /\ processed' \in Nat /\ n \in Nat /\ Underway \in Nat /\ Underway' \in Nat
        BY <1>2, <2>1
      <4>2. processed' = (summary.bytes + n) + Underway'
        BY ONLY <3>2, <4>1, Balance
      <4> QED
        BY <2>3, <4>2
    <3> QED
      BY <3>1, <3>3
  <2>8. finished' = at' - 1 /\ Counted(summary') = at' - 1
    BY <2>1, <2>2, <2>3, <2>4
  <2> QED
    BY <1>2, <2>1, <2>2, <2>3, <2>6, <2>7, <2>8 DEF CountInv
<1>3. CASE /\ UNCHANGED <<sources, at, totals, summary, finished>> /\ Apart' = Apart
           /\ phase \notin {"begin", "failed"} /\ phase' # "begin" /\ processed' \in Nat /\ changed \subseteq changed'
           /\ changed' = {} => processed' + Underway = processed + Underway'
           /\ phase' \in {"ending", "done"} => at > Len(sources) /\ Underway' = 0
  <2>1. /\ IsTally(summary) /\ processed \in Nat /\ finished = at - 1 /\ Counted(summary) = at - 1
        /\ \A k \in DOMAIN sources : sources[k].kind # "file" => sources[k].size = 0
        /\ totals = [bytes |-> SizesUpTo(Len(sources)), entries |-> Len(sources)]
        /\ changed = {} => summary.bytes = SizesUpTo(at - 1) /\ processed = summary.bytes + Underway
    BY <1>3 DEF CountInv
  <2>2. SizesUpTo(Len(sources))' = SizesUpTo(Len(sources)) /\ SizesUpTo(at - 1)' = SizesUpTo(at - 1)
    BY <1>3 DEF SizesUpTo
  <2>3. summary.bytes \in Nat
    BY ONLY <2>1 DEF IsTally
  <2>4. changed' = {} => summary.bytes = SizesUpTo(at - 1) /\ processed' = summary.bytes + Underway'
    <3> SUFFICES ASSUME changed' = {} PROVE summary.bytes = SizesUpTo(at - 1) /\ processed' = summary.bytes + Underway'
      OBVIOUS
    <3>1. changed = {}
      BY <1>3
    <3>2. /\ processed = summary.bytes + Underway /\ processed' + Underway = (processed + 0) + Underway'
          /\ processed \in Nat /\ processed' \in Nat /\ 0 \in Nat /\ Underway \in Nat /\ Underway' \in Nat
      BY <1>3, <2>1, <3>1
    <3>3. processed' = (summary.bytes + 0) + Underway'
      BY ONLY <2>3, <3>2, Balance
    <3> QED
      BY <2>1, <2>3, <3>1, <3>3
  <2> QED
    BY <1>3, <2>1, <2>2, <2>4 DEF CountInv
<1> QED
  BY <1>1, <1>2, <1>3 DEF CountStep

(* What others change counts for nothing.                                   *)
LEMMA ChangeCounts ==
  ASSUME Change, CountInv, Apart' = Apart, Underway \in Nat, Underway' = Underway
  PROVE  CountStep
<1>1. /\ phase \notin {"begin", "done", "failed"} /\ phase' = phase
      /\ UNCHANGED <<sources, at, totals, summary, finished, processed>>
      /\ \E p : changed' = changed \cup {p}
  BY DEF Change, report
<1>2. processed \in Nat /\ (phase = "ending" => at > Len(sources) /\ Underway = 0)
  BY <1>1 DEF CountInv
<1>3. changed' # {} /\ changed \subseteq changed'
  BY <1>1
<1> QED
  BY <1>1, <1>2, <1>3 DEF CountStep

(* What a source without contents adds to a format's archive.               *)
LEMMA PlainCounts ==
  ASSUME NEW E, ListInv(E), CountInv, Apart' = Apart, Underway \in Nat, Underway' = Underway,
         (WriteDirectory /\ at \notin Apart) \/ (WriteSymlink /\ at \notin Apart)
  PROVE  CountStep
<1>1. /\ phase = "writing" /\ phase' = "writing" /\ at <= Len(sources) /\ processed' = processed /\ Now.kind # "file"
      /\ \E e : Finish(e, "directories", 0) \/ Finish(e, "symlinks", 0)
  BY DEF WriteDirectory, WriteSymlink, Turn, Now
<1>2. processed \in Nat /\ \A k \in DOMAIN sources : sources[k].kind # "file" => sources[k].size = 0
  BY <1>1 DEF CountInv
<1>3. at \in DOMAIN sources
  <2>1. sources \in Seq(SourceRecord)
    BY DEF ListInv
  <2> QED
    BY <1>1, <2>1, NowFacts
<1>4. Now.size = 0
  BY <1>1, <1>2, <1>3 DEF Now
<1>5. \E e : \E c \in Counters : Finish(e, c, 0)
  <2>1. "directories" \in Counters /\ "symlinks" \in Counters
    BY DEF Counters
  <2> QED
    BY <1>1, <2>1
<1>6. 0 \in Nat /\ processed + Underway = (processed + 0) + Underway
  BY <1>2
<1> QED
  BY <1>1, <1>2, <1>4, <1>5, <1>6 DEF CountStep

(* A 7z reports a file when it is in the archive.                           *)
LEMMA SevenZCounts ==
  ASSUME format = "7z", format' = "7z", SevenZInv, CountInv, OfSevenZ!Next
  PROVE  CountStep
<1>1. /\ OfSevenZ!Now = Now /\ (OfSevenZ!Fail => Fail)
      /\ \A e, c, n : OfSevenZ!Finish(e, c, n) => Finish(e, c, n)
      /\ \A k : OfSevenZ!Turn(k) => Turn(k)
  BY OfSevenZSources
<1>2. Fail => CountStep
  BY DEF Fail, CountStep
<1>3. Apart = {} /\ Apart' = {} /\ Underway = 0 /\ Underway' = 0
  BY DEF Apart, Underway
<1>4. ListInv(SevenZEntry) /\ (phase = "body" => at <= Len(sources))
  BY DEF SevenZInv, SevenZPhases
<1>5. ASSUME NEW n \in Nat, NEW e, Finish(e, "files", n), phase \in {"writing", "body"}, phase' = "writing", at <= Len(sources),
             n = Now.size, processed' = processed + n
      PROVE  CountStep
  <2>1. processed \in Nat
    BY <1>5 DEF CountInv
  <2>2. processed' \in Nat /\ processed' + 0 = (processed + n) + 0
    BY ONLY <1>5, <2>1
  <2>3. "files" \in Counters
    BY DEF Counters
  <2> QED
    BY ONLY <1>3, <1>5, <2>2, <2>3 DEF CountStep
<1>6. CASE OfSevenZ!SBegin
  <2>1. List({}) /\ phase' = "writing"
    BY <1>6, OfSevenZSources DEF OfSevenZ!SBegin, OfSevenZ!Begin
  <2>2. phase = "begin"
    BY <2>1 DEF List
  <2> QED
    BY <1>3, <2>1, <2>2 DEF CountStep
<1>7. ASSUME NEW e, NEW c \in {"directories", "symlinks"}, NEW k \in {"dir", "link"},
             OfSevenZ!Finish(e, c, 0), OfSevenZ!Turn(k), UNCHANGED <<phase, processed>>
      PROVE  CountStep
  <2>1. Finish(e, c, 0) /\ phase = "writing" /\ at <= Len(sources) /\ Now.kind # "file" /\ phase' = "writing" /\ processed' = processed
    BY <1>1, <1>7 DEF Turn, Now
  <2>2. processed \in Nat /\ \A i \in DOMAIN sources : sources[i].kind # "file" => sources[i].size = 0
    BY <2>1 DEF CountInv
  <2>3. at \in DOMAIN sources
    <3>1. sources \in Seq(SourceRecord)
      BY <1>4 DEF ListInv
    <3> QED
      BY <1>4, <2>1, <3>1, NowFacts
  <2>4. Now.size = 0
    BY <2>1, <2>2, <2>3 DEF Now
  <2>5. c \in Counters /\ processed + 0 = (processed + 0) + 0 /\ 0 \in Nat
    BY <2>2 DEF Counters
  <2> QED
    BY ONLY <1>3, <2>1, <2>2, <2>4, <2>5 DEF CountStep
<1>8. CASE OfSevenZ!SDirectory
  BY <1>7, <1>8 DEF OfSevenZ!SDirectory
<1>9. CASE OfSevenZ!SSymlink
  BY <1>7, <1>9 DEF OfSevenZ!SSymlink
<1>10. CASE OfSevenZ!EmptyFile
  <2>1. /\ \E e : Finish(e, "files", 0)
        /\ phase = "writing" /\ phase' = "writing" /\ at <= Len(sources) /\ Now.size = 0 /\ processed' = processed
    BY <1>1, <1>10 DEF OfSevenZ!EmptyFile, Turn
  <2>2. processed \in Nat
    BY <2>1 DEF CountInv
  <2>3. processed' = processed + 0 /\ 0 \in Nat
    BY <2>1, <2>2
  <2> QED
    BY <1>5, <2>1, <2>3
<1>11. CASE OfSevenZ!Unopenable
  BY <1>1, <1>2, <1>11 DEF OfSevenZ!Unopenable
<1>12. CASE OfSevenZ!EndFile
  <2>1. /\ \E e : Finish(e, "files", Now.size)
        /\ phase = "body" /\ phase' = "writing" /\ processed' = processed + Now.size
    BY <1>1, <1>12 DEF OfSevenZ!EndFile
  <2>2. at <= Len(sources) /\ Now.size \in Nat
    BY <1>4, <2>1, NowFacts
  <2> QED
    BY <1>5, <2>1, <2>2
<1>13. ASSUME UNCHANGED <<sources, at, totals, summary, finished, processed, changed>>, phase \in {"writing", "body"},
              phase' = "body" \/ (phase' = "done" /\ at > Len(sources))
       PROVE  CountStep
  <2>1. processed \in Nat
    BY <1>13 DEF CountInv
  <2> QED
    BY ONLY <1>3, <1>13, <2>1 DEF CountStep
<1>14. CASE OfSevenZ!StartFile
  <2>1. phase = "writing"
    BY <1>1, <1>14 DEF OfSevenZ!StartFile, Turn
  <2> QED
    BY <1>13, <1>14, <2>1 DEF OfSevenZ!StartFile, OfSevenZ!report
<1>15. CASE OfSevenZ!Read
  BY <1>13, <1>15 DEF OfSevenZ!Read, OfSevenZ!report
<1>16. CASE OfSevenZ!SClose
  <2>1. Close
    BY <1>16, OfSevenZSources DEF OfSevenZ!SClose
  <2> QED
    BY <1>13, <2>1 DEF Close, report
<1>17. CASE OfSevenZ!Others
  <2>1. OfSevenZ!Refuse \/ CannotCollect \/ SymlinkGone \/ WriteFails => Fail
    BY OfSevenZSources DEF OfSevenZ!Refuse, CannotCollect, SymlinkGone, WriteFails
  <2>2. Fail \/ Change
    BY <1>17, <2>1, OfSevenZSources DEF OfSevenZ!Others
  <2>3. CASE Change
    BY <1>3, <2>3, ChangeCounts
  <2> QED
    BY <1>2, <2>2, <2>3
<1> QED
  BY <1>6, <1>8, <1>9, <1>10, <1>11, <1>12, <1>14, <1>15, <1>16, <1>17 DEF OfSevenZ!Next

(* A tar reports a file as it is read, but for its zeros.                   *)
LEMMA TarCounts ==
  ASSUME format = "tar", format' = "tar", TarInv, CountInv, OfTar!Next
  PROVE  CountStep
<1> USE DEF OfTar!sink
<1>1. /\ OfTar!Now = Now /\ (OfTar!Fail => Fail)
      /\ \A e, c, n : OfTar!Finish(e, c, n) => Finish(e, c, n)
      /\ \A k : OfTar!Turn(k) => Turn(k)
      /\ \A p, a, b : OfTar!Units(p, a, b) = Units(p, a, b)
      /\ \A p, a : OfTar!Unit(p, a) = Unit(p, a)
  BY OfTarSources
<1>2. Fail => CountStep
  BY DEF Fail, CountStep
<1>3. Apart = DOMAIN links /\ Apart' = DOMAIN links' /\ Underway = Len(body) /\ Underway' = Len(body')
  BY DEF Apart, Underway
<1>4. /\ ListInv(TarEntry) /\ PhaseInv /\ LinkInv /\ body \in Seq(Token) /\ Len(body) \in Nat
      /\ phase \in {"writing", "ending"} => body = <<>>
      /\ phase = "body" => at <= Len(sources) /\ Now.kind = "file" /\ at \notin DOMAIN links /\ Len(body) <= Now.size
  BY DEF TarInv, PhaseInv, Copying
<1>5. Len(<<>>) = 0
  OBVIOUS
<1>6. CASE OfTar!TBegin
  <2>1. List(DOMAIN OfTar!FindHardLinks) /\ phase' = "writing" /\ links' = OfTar!FindHardLinks
    BY <1>6, OfTarSources DEF OfTar!TBegin, OfTar!Begin
  <2>2. phase = "begin" /\ body' = body /\ body = <<>>
    BY <1>4, <2>1 DEF List, ListInv
  <2>3. List(Apart')
    BY <1>3, <2>1
  <2> QED
    BY <1>3, <1>5, <2>1, <2>2, <2>3 DEF CountStep
<1>7. ASSUME NEW e, NEW c \in Counters, NEW n \in Nat, NEW r \in Nat, Finish(e, c, n), processed' = processed + r,
             phase \in {"writing", "body"}, phase' = "writing", at <= Len(sources), links' = links,
             changed = {} => n = (IF at \in DOMAIN links THEN 0 ELSE Now.size) /\ r + Len(body) = n
      PROVE  CountStep
  <2>1. processed \in Nat
    BY <1>7 DEF CountInv
  <2>2. body' = <<>>
    BY <1>7 DEF Finish
  <2>3. processed' \in Nat /\ (changed = {} => processed' + Len(body) = (processed + n) + 0)
    BY ONLY <1>4, <1>7, <2>1
  <2>4. Apart' = Apart /\ Underway' = 0
    BY <1>3, <1>5, <1>7, <2>2
  <2>5. changed = {} => /\ n = IF at \in Apart THEN 0 ELSE Now.size
                        /\ processed' + Underway = (processed + n) + Underway'
    BY ONLY <1>3, <1>7, <2>3, <2>4
  <2> QED
    BY <1>7, <2>3, <2>4, <2>5 DEF CountStep
<1>8. CASE OfTar!WriteHardLink
  <2>1. /\ \E e : Finish(e, "hardlinks", 0)
        /\ phase = "writing" /\ phase' = "writing" /\ at <= Len(sources) /\ at \in DOMAIN links
        /\ links' = links /\ processed' = processed
    BY <1>1, <1>8 DEF OfTar!WriteHardLink, OfTar!Ready, OfTar!Linked, OfTar!Emit, Turn
  <2>2. processed \in Nat
    BY <2>1 DEF CountInv
  <2>3. "hardlinks" \in Counters /\ 0 \in Nat /\ processed' = processed + 0 /\ 0 + Len(body) = 0
    BY <1>4, <1>5, <2>1, <2>2 DEF Counters
  <2> QED
    BY <1>7, <2>1, <2>3
<1>9. CASE OfTar!WriteOther
  <2>1. WriteDirectory \/ WriteSymlink
    BY <1>9, OfTarSources DEF OfTar!WriteOther
  <2>2. phase = "writing" /\ links' = links
    BY <1>9 DEF OfTar!WriteOther, OfTar!Ready, OfTar!Emit
  <2>3. at \notin DOMAIN links
    <3>1. Now.kind # "file"
      BY <2>1 DEF WriteDirectory, WriteSymlink, Turn, Now
    <3> QED
      BY <1>4, <3>1 DEF LinkInv, Now
  <2>4. body' = <<>>
    BY <2>1 DEF WriteDirectory, WriteSymlink, Finish
  <2> QED
    BY <1>3, <1>4, <1>5, <2>1, <2>2, <2>3, <2>4, PlainCounts
<1>10. CASE OfTar!WriteSparse
  <2> DEFINE d == Units(Now.path, 0, disk[Now.path].len)
  <2>1. /\ \E e : Finish(e, "files", Len(d))
        /\ phase = "writing" /\ phase' = "writing" /\ at <= Len(sources) /\ at \notin DOMAIN links /\ Now.kind = "file"
        /\ links' = links /\ processed' = processed + Len(d)
    BY <1>1, <1>10 DEF OfTar!WriteSparse, OfTar!Ready, OfTar!Linked, OfTar!Emit, Turn, Now
  <2>2. /\ Now.path \in Paths /\ disk[Now.path].len \in Nat /\ Now.size \in Nat
        /\ changed = {} => Now.size = disk[Now.path].len
    BY <1>4, <2>1, NowFacts
  <2>3. Len(d) = disk[Now.path].len
    BY <2>2, UnitsFacts
  <2> HIDE DEF d
  <2>4. "files" \in Counters /\ Len(d) \in Nat /\ Len(d) + Len(body) = Len(d)
    BY <1>4, <1>5, <2>1, <2>2, <2>3 DEF Counters
  <2> QED
    BY <1>7, <2>1, <2>2, <2>3, <2>4
<1>11. CASE OfTar!Unopenable
  BY <1>1, <1>2, <1>11 DEF OfTar!Unopenable
<1>12. CASE OfTar!EndFile
  <2>1. /\ \E e : Finish(e, "files", Now.size)
        /\ phase = "body" /\ phase' = "writing" /\ processed' = processed /\ links' = links
        /\ Len(body) = Now.size \/ Len(body) >= disk[Now.path].len
    BY <1>1, <1>12 DEF OfTar!EndFile, OfTar!Emit
  <2>2. /\ at <= Len(sources) /\ at \notin DOMAIN links /\ Len(body) <= Now.size
        /\ Now.size \in Nat /\ disk[Now.path].len \in Nat
        /\ changed = {} => Now.size = disk[Now.path].len
    BY <1>4, <2>1, NowFacts
  <2>3. changed = {} => 0 + Len(body) = Now.size
    BY <1>4, <2>1, <2>2
  <2>4. processed \in Nat
    BY <2>1 DEF CountInv
  <2>5. "files" \in Counters /\ 0 \in Nat /\ processed' = processed + 0
    BY SMTT(40), <2>1, <2>4 DEF Counters
  <2> QED
    BY <1>7, <2>1, <2>2, <2>3, <2>5
<1>13. ASSUME UNCHANGED <<sources, at, totals, summary, finished, changed, links>>, phase \in {"writing", "body", "ending"},
              processed' + Len(body) = processed + Len(body'), processed' \in Nat, phase' # "begin",
              phase' \in {"ending", "done"} => at > Len(sources) /\ body' = <<>>
       PROVE  CountStep
  BY ONLY <1>3, <1>5, <1>13 DEF CountStep
<1>14. ASSUME phase \in {"writing", "body", "ending"} PROVE processed \in Nat
  BY <1>14 DEF CountInv
<1>15. CASE OfTar!StartFile
  <2>1. /\ phase = "writing" /\ phase' = "body" /\ UNCHANGED <<sources, at, totals, summary, finished, changed, links, body, processed>>
    BY <1>15 DEF OfTar!StartFile, OfTar!Ready, OfTar!Emit, OfTar!report
  <2> QED
    BY <1>4, <1>13, <1>14, <2>1
<1>16. CASE OfTar!Copy
  <2>1. /\ phase = "body" /\ phase' = "body" /\ UNCHANGED <<sources, at, totals, summary, finished, changed, links>>
        /\ processed' = processed + 1 /\ body' = Append(body, Unit(Now.path, Len(body)))
    BY <1>1, <1>16 DEF OfTar!Copy, OfTar!Emit
  <2>2. Len(body') = Len(body) + 1
    BY <1>4, <2>1
  <2>3. processed' + Len(body) = processed + Len(body') /\ processed' \in Nat
    BY SMTT(40), <1>4, <1>14, <2>1, <2>2
  <2> QED
    BY <1>13, <2>1, <2>3
<1>17. CASE OfTar!Push
  <2>1. /\ phase \in {"writing", "body", "ending"} /\ phase' = phase
        /\ UNCHANGED <<sources, at, totals, summary, finished, changed, links, body, processed>>
    BY <1>17 DEF OfTar!Push, OfTar!svars, OfTar!report
  <2>2. phase = "ending" => at > Len(sources) /\ body = <<>>
    BY <1>4 DEF CountInv
  <2> QED
    BY <1>4, <1>13, <1>14, <2>1, <2>2
<1>18. CASE OfTar!WriteEnd
  <2>1. /\ phase = "writing" /\ phase' = "ending" /\ at > Len(sources)
        /\ UNCHANGED <<sources, at, totals, summary, finished, changed, links, body, processed>>
    BY <1>18 DEF OfTar!WriteEnd, OfTar!Ready, OfTar!Emit, OfTar!report
  <2> QED
    BY <1>4, <1>13, <1>14, <2>1
<1>19. CASE OfTar!FinishSink
  <2>1. /\ phase = "ending" /\ phase' = "done"
        /\ UNCHANGED <<sources, at, totals, summary, finished, changed, links, body, processed>>
    BY <1>19 DEF OfTar!FinishSink, OfTar!report
  <2>2. at > Len(sources)
    BY <2>1 DEF CountInv
  <2> QED
    BY <1>4, <1>13, <1>14, <2>1, <2>2
<1>20. CASE OfTar!Others /\ UNCHANGED <<links, pending, OfTar!sink>>
  <2>1. OfTar!Refuse \/ CannotCollect \/ SymlinkGone \/ WriteFails => Fail
    BY OfTarSources DEF OfTar!Refuse, CannotCollect, SymlinkGone, WriteFails
  <2>2. Fail \/ Change
    BY <1>20, <2>1, OfTarSources DEF OfTar!Others
  <2>3. CASE Change
    <3>1. body' = body /\ links' = links
      BY <1>20, <2>3 DEF Change
    <3> QED
      BY <1>3, <1>4, <2>3, <3>1, ChangeCounts
  <2> QED
    BY <1>2, <2>2, <2>3
<1> QED
  BY <1>6, <1>8, <1>9, <1>10, <1>11, <1>12, <1>15, <1>16, <1>17, <1>18, <1>19, <1>20 DEF OfTar!Next

-----------------------------------------------------------------------------
(* Zip: what has been read ahead.                                           *)

LensOf(ts) == [j \in 1 .. Len(ts) |-> Len(ts[j].data)]

(* It is the sum of what each slot has read.                                *)
LEMMA LensFacts ==
  ASSUME NEW ts \in Seq(ZipSlot)
  PROVE  /\ LensOf(ts) \in Seq(Nat) /\ Len(LensOf(ts)) = Len(ts) /\ DOMAIN LensOf(ts) = 1 .. Len(ts)
         /\ \A j \in 1 .. Len(ts) : LensOf(ts)[j] = Len(ts[j].data) /\ Len(ts[j].data) \in Nat
         /\ ReadOf(ts) = SumFunctionOnSet(LensOf(ts), 1 .. Len(ts)) /\ ReadOf(ts) = SumFunction(LensOf(ts))
         /\ ReadOf(ts) \in Nat
<1>1. \A j \in 1 .. Len(ts) : Len(ts[j].data) \in Nat
  <2> TAKE j \in 1 .. Len(ts)
  <2>1. ts[j] \in ZipSlot
    OBVIOUS
  <2>2. ts[j].data \in Seq(Token)
    BY ONLY <2>1 DEF ZipSlot
  <2> QED
    BY <2>2
<1>2. LensOf(ts) \in Seq(Nat) /\ Len(LensOf(ts)) = Len(ts) /\ DOMAIN LensOf(ts) = 1 .. Len(ts)
  BY <1>1 DEF LensOf
<1>3. \A j \in 1 .. Len(ts) : LensOf(ts)[j] = Len(ts[j].data)
  BY DEF LensOf
<1>4. ReadOf(ts) = SumFunction(LensOf(ts))
  BY DEF ReadOf, LensOf
<1>5. SumFunction(LensOf(ts)) = SumFunctionOnSet(LensOf(ts), 1 .. Len(ts))
  BY <1>2 DEF SumFunction
<1>6. ReadOf(ts) \in Nat
  BY <1>2, <1>4, SumOfSequenceType
<1> QED
  BY <1>1, <1>2, <1>3, <1>4, <1>5, <1>6

(* Nothing has been read by none, nor by slots that have not begun.         *)
LEMMA NothingRead ==
  /\ ReadOf(<<>>) = 0
  /\ \A ts \in Seq(ZipSlot) : (\A j \in 1 .. Len(ts) : ts[j].data = <<>>) => ReadOf(ts) = 0
<1>1. ASSUME NEW ts \in Seq(ZipSlot), \A j \in 1 .. Len(ts) : ts[j].data = <<>> PROVE ReadOf(ts) = 0
  <2>1. \A j \in 1 .. Len(ts) : LensOf(ts)[j] = 0
    BY <1>1, LensFacts
  <2>2. IsFiniteSet(1 .. Len(ts))
    BY CountUpto
  <2> DEFINE z == [j \in 1 .. Len(ts) |-> 0]
  <2>3. \A j \in 1 .. Len(ts) : LensOf(ts)[j] = z[j]
    BY <2>1
  <2>4. SumFunctionOnSet(z, 1 .. Len(ts)) = 0
    BY <2>2, SumOfZeros
  <2> HIDE DEF z
  <2>5. SumFunctionOnSet(LensOf(ts), 1 .. Len(ts)) = SumFunctionOnSet(z, 1 .. Len(ts))
    BY <2>2, <2>3, SumAgree
  <2> QED
    BY <2>4, <2>5, LensFacts
<1>2. <<>> \in Seq(ZipSlot) /\ \A j \in 1 .. Len(<<>>) : <<>>[j].data = <<>>
  OBVIOUS
<1> QED
  BY <1>1, <1>2

(* One slot's reading is everyone's.                                        *)
LEMMA OneReads ==
  ASSUME NEW ts \in Seq(ZipSlot), NEW j \in 1 .. Len(ts), NEW t \in ZipSlot
  PROVE  /\ [ts EXCEPT ![j] = t] \in Seq(ZipSlot)
         /\ ReadOf([ts EXCEPT ![j] = t]) + Len(ts[j].data) = ReadOf(ts) + Len(t.data)
<1> DEFINE us == [ts EXCEPT ![j] = t]
           S == 1 .. Len(ts)
<1>1. us \in Seq(ZipSlot) /\ Len(us) = Len(ts) /\ us[j] = t /\ \A i \in S \ {j} : us[i] = ts[i]
  OBVIOUS
<1> HIDE DEF us
<1>2. /\ IsFiniteSet(S) /\ j \in S /\ \A i \in S : LensOf(ts)[i] \in Nat
      /\ LensOf(us)[j] = Len(t.data) /\ LensOf(us)[j] \in Nat /\ LensOf(ts)[j] = Len(ts[j].data)
      /\ \A i \in S \ {j} : LensOf(us)[i] = LensOf(ts)[i]
  <2>1. IsFiniteSet(S)
    BY CountUpto
  <2>2. \A i \in S : /\ LensOf(ts)[i] = Len(ts[i].data) /\ Len(ts[i].data) \in Nat
                     /\ LensOf(us)[i] = Len(us[i].data) /\ Len(us[i].data) \in Nat
    BY <1>1, LensFacts
  <2> QED
    BY <1>1, <2>1, <2>2
<1>3. SumFunctionOnSet(LensOf(us), S) + LensOf(ts)[j] = SumFunctionOnSet(LensOf(ts), S) + LensOf(us)[j]
  <2>1. PICK f, g, T, w : f = LensOf(ts) /\ g = LensOf(us) /\ T = S /\ w = j
    OBVIOUS
  <2>2. /\ IsFiniteSet(T) /\ w \in T /\ \A i \in T : f[i] \in Nat
        /\ g[w] \in Nat /\ \A i \in T \ {w} : g[i] = f[i]
    BY <1>2, <2>1
  <2>3. SumFunctionOnSet(g, T) + f[w] = SumFunctionOnSet(f, T) + g[w]
    BY ONLY <2>2, SumExcept
  <2> QED
    BY <2>1, <2>3
<1>4. ReadOf(us) = SumFunctionOnSet(LensOf(us), S) /\ ReadOf(ts) = SumFunctionOnSet(LensOf(ts), S)
  BY <1>1, LensFacts
<1> QED
  BY <1>1, <1>2, <1>3, <1>4 DEF us

(* The first of several, and the others.                                    *)
LEMMA FirstRead ==
  ASSUME NEW ts \in Seq(ZipSlot), ts # <<>>
  PROVE  /\ Tail(ts) \in Seq(ZipSlot) /\ ReadOf(ts) = Len(Head(ts).data) + ReadOf(Tail(ts))
         /\ Len(Head(ts).data) \in Nat
<1>1. Tail(ts) \in Seq(ZipSlot) /\ Len(ts) \in Nat \ {0} /\ Head(ts) = ts[1]
      /\ Len(Tail(ts)) = Len(ts) - 1 /\ \A j \in 1 .. Len(ts) - 1 : Tail(ts)[j] = ts[j + 1]
  BY SMTT(40)
<1>2. /\ LensOf(ts) \in Seq(Nat) /\ Len(LensOf(ts)) = Len(ts)
      /\ \A j \in 1 .. Len(ts) : LensOf(ts)[j] = Len(ts[j].data) /\ Len(ts[j].data) \in Nat
      /\ LensOf(Tail(ts)) \in Seq(Nat) /\ Len(LensOf(Tail(ts))) = Len(ts) - 1
      /\ \A j \in 1 .. Len(ts) - 1 : LensOf(Tail(ts))[j] = Len(Tail(ts)[j].data)
      /\ ReadOf(ts) = SumFunction(LensOf(ts)) /\ ReadOf(Tail(ts)) = SumFunction(LensOf(Tail(ts)))
  BY <1>1, LensFacts
<1>3. Tail(LensOf(ts)) = LensOf(Tail(ts)) /\ LensOf(ts) # <<>> /\ Head(LensOf(ts)) = Len(Head(ts).data)
  <2>1. LensOf(ts) # <<>> /\ Head(LensOf(ts)) = LensOf(ts)[1]
    BY ONLY <1>1, <1>2
  <2>2. 1 \in 1 .. Len(ts)
    BY <1>1
  <2>3. /\ Tail(LensOf(ts)) \in Seq(Nat) /\ Len(Tail(LensOf(ts))) = Len(ts) - 1
        /\ \A j \in 1 .. Len(ts) - 1 : Tail(LensOf(ts))[j] = LensOf(ts)[j + 1]
    BY ONLY <1>1, <1>2, <2>1
  <2>4. \A j \in 1 .. Len(ts) - 1 : Tail(LensOf(ts))[j] = LensOf(Tail(ts))[j]
    <3> TAKE j \in 1 .. Len(ts) - 1
    <3>1. j + 1 \in 1 .. Len(ts)
      BY ONLY <1>1, j \in 1 .. Len(ts) - 1
    <3> QED
      BY <1>1, <1>2, <2>3, <3>1
  <2>5. Tail(LensOf(ts)) = LensOf(Tail(ts))
    BY ONLY ZenonT(40), <1>2, <2>3, <2>4, SameSequence
  <2> QED
    BY <1>1, <1>2, <2>1, <2>2, <2>5
<1>4. SumFunction(LensOf(ts)) = Head(LensOf(ts)) + SumFunction(Tail(LensOf(ts)))
  BY <1>2, <1>3, SumOfTail
<1>5. Len(Head(ts).data) \in Nat
  BY <1>1, <1>2
<1> QED
  BY <1>1, <1>2, <1>3, <1>4, <1>5

(* What is laid end to end is as long as its parts together.                *)
LEMMA EndToEndLength ==
  ASSUME NEW B, NEW ss \in Seq(Seq(B)), NEW s, \A j \in 1 .. Len(ss) : s[j] = Len(ss[j])
  PROVE  Len(EndToEnd(ss)) = SumFunctionOnSet(s, 1 .. Len(ss))
<1> DEFINE Upto(n) == SubSeq(ss, 1, n)
           Bad == {n \in 0 .. Len(ss) : Len(EndToEnd(Upto(n))) # SumFunctionOnSet(s, 1 .. n)}
<1>1. Len(ss) \in Nat /\ \A j \in 1 .. Len(ss) : ss[j] \in Seq(B) /\ s[j] \in Nat
  OBVIOUS
<1>2. /\ \A n \in 0 .. Len(ss) : Upto(n) \in Seq(Seq(B))
      /\ \A n \in 1 .. Len(ss) : Upto(n) = Append(Upto(n - 1), ss[n])
      /\ Upto(0) = <<>> /\ Upto(Len(ss)) = ss
  <2>1. \A n \in 0 .. Len(ss) : Upto(n) \in Seq(Seq(B)) /\ Len(Upto(n)) = n /\ \A k \in 1 .. n : Upto(n)[k] = ss[k]
    BY <1>1
  <2>2. Upto(0) = <<>>
    OBVIOUS
  <2>3. Upto(Len(ss)) = ss
    OBVIOUS
  <2>4. ASSUME NEW n \in 1 .. Len(ss) PROVE Upto(n) = Append(Upto(n - 1), ss[n])
    BY <1>1
  <2> QED
    BY <2>1, <2>2, <2>3, <2>4
<1> HIDE DEF Upto
<1>3. SUFFICES Bad = {}
  <2>1. Len(ss) \in 0 .. Len(ss)
    BY <1>1
  <2> QED
    BY <1>2, <2>1
<1>4. SUFFICES ASSUME Bad # {} PROVE FALSE
  OBVIOUS
<1>5. PICK n \in Bad : \A m \in Bad : n <= m
  <2>1. Bad \in SUBSET Nat
    BY <1>1
  <2> QED
    BY <1>4, <2>1, LeastNat
<1>6. n # 0
  <2>1. EndToEnd(<<>>) = <<>> /\ Len(<<>>) = 0
    BY DEF EndToEnd, Flatten
  <2>2. \A i \in 1 .. 0 : s[i] \in Nat
    OBVIOUS
  <2>3. SumFunctionOnSet(s, 1 .. 0) = 0
    BY <2>2, SumOfPrefix
  <2> QED
    BY <1>2, <2>1, <2>3
<1>7. n \in 1 .. Len(ss) /\ n - 1 \in 0 .. Len(ss) /\ n - 1 \notin Bad /\ n \in Nat
  BY <1>1, <1>5, <1>6
<1>8. SumFunctionOnSet(s, 1 .. n) = s[n] + SumFunctionOnSet(s, 1 .. (n - 1)) /\ s[n] = Len(ss[n]) /\ s[n] \in Nat
  <2>1. \A i \in 1 .. n : s[i] \in Nat
    BY <1>1, <1>7
  <2>2. SumFunctionOnSet(s, 1 .. n) = s[n] + SumFunctionOnSet(s, 1 .. (n - 1))
    BY <1>6, <1>7, <2>1, SumOfPrefix
  <2> QED
    BY <1>1, <1>7, <2>2
<1>9. EndToEnd(Upto(n)) = EndToEnd(Upto(n - 1)) \o ss[n] /\ EndToEnd(Upto(n - 1)) \in Seq(B) /\ ss[n] \in Seq(B)
  <2>1. Upto(n - 1) \in Seq(Seq(B)) /\ ss[n] \in Seq(B) /\ Upto(n) = Append(Upto(n - 1), ss[n])
    BY <1>1, <1>2, <1>7
  <2> QED
    BY <2>1, EndToEndFacts
<1>10. Len(EndToEnd(Upto(n))) = Len(EndToEnd(Upto(n - 1))) + Len(ss[n]) /\ Len(EndToEnd(Upto(n - 1))) \in Nat
  BY ONLY <1>9, ConcatFacts
<1>11. Len(EndToEnd(Upto(n - 1))) = SumFunctionOnSet(s, 1 .. (n - 1))
  BY <1>7
<1>12. Len(EndToEnd(Upto(n))) = SumFunctionOnSet(s, 1 .. n)
  <2>1. PICK a, b, c, d, e : /\ a = Len(EndToEnd(Upto(n))) /\ b = Len(EndToEnd(Upto(n - 1))) /\ c = Len(ss[n])
                             /\ d = SumFunctionOnSet(s, 1 .. n) /\ e = SumFunctionOnSet(s, 1 .. (n - 1))
    OBVIOUS
  <2>2. a = b + c /\ b \in Nat /\ d = c + e /\ c \in Nat /\ b = e
    BY ONLY <1>8, <1>10, <1>11, <2>1
  <2>3. a = d
    BY ONLY <2>2
  <2> QED
    BY ONLY <2>1, <2>3
<1> QED
  BY <1>5, <1>12

(* The pieces that are laid end to end are what has been read of them.      *)
LEMMA LaidOutRead ==
  ASSUME NEW ts \in Seq(ZipSlot)
  PROVE  /\ EndToEnd([j \in DOMAIN ts |-> ts[j].data]) \in Seq(Token)
         /\ Len(EndToEnd([j \in DOMAIN ts |-> ts[j].data])) = ReadOf(ts)
<1> DEFINE ss == [j \in DOMAIN ts |-> ts[j].data]
<1>1. \A j \in 1 .. Len(ts) : ts[j].data \in Seq(Token)
  <2> TAKE j \in 1 .. Len(ts)
  <2>1. ts[j] \in ZipSlot
    OBVIOUS
  <2> QED
    BY ONLY <2>1 DEF ZipSlot
<1>2. ss \in Seq(Seq(Token)) /\ Len(ss) = Len(ts) /\ \A j \in 1 .. Len(ts) : ss[j] = ts[j].data
  BY <1>1
<1> HIDE DEF ss
<1>3. \A j \in 1 .. Len(ss) : LensOf(ts)[j] = Len(ss[j])
  <2>1. \A j \in 1 .. Len(ts) : LensOf(ts)[j] = Len(ts[j].data)
    BY LensFacts
  <2> QED
    BY ONLY <1>2, <2>1
<1>4. Len(EndToEnd(ss)) = SumFunctionOnSet(LensOf(ts), 1 .. Len(ss))
  BY <1>2, <1>3, EndToEndLength
<1>5. EndToEnd(ss) \in Seq(Token)
  BY <1>2, EndToEndFacts
<1> QED
  BY <1>2, <1>4, <1>5, LensFacts DEF ss

(* A piece that is not done has read nothing.                               *)
ZipFresh == phase = "chunks" => \A j \in 1 .. Len(slots) : slots[j].state # "done" => slots[j].data = <<>>

(* What a slot reads is reported, whichever of them reads.                  *)
ZipReads(j, t) ==
  /\ t \in ZipSlot /\ slots' = [slots EXCEPT ![j] = t]
  /\ phase = "chunks" => (t.state # "done" => t.data = <<>>)
  /\ processed' \in Nat /\ processed' + Len(slots[j].data) = processed + Len(t.data)
  /\ phase \in {"wave", "chunks"} /\ phase' = phase
  /\ UNCHANGED <<changed, sources, at, body, totals, summary, finished, ready>>
LEMMA SlotReads ==
  ASSUME ListInv(ZipEntry), ZipTypes, SlotsInv, phase = "chunks" => at <= Len(sources), ZipFresh, processed \in Nat,
         NEW j \in DOMAIN slots, OfZip!Open(j) \/ OfZip!ReadSmall(j) \/ OfZip!ReadChunk(j)
  PROVE  \E t : ZipReads(j, t)
<1> DEFINE s == slots[j]
           p == sources[s.source].path
           n == Len(s.data)
<1>1. /\ \A q, a, b : OfZip!Units(q, a, b) = Units(q, a, b)
      /\ \A q, a : OfZip!Unit(q, a) = Unit(q, a)
      /\ OfZip!svars = svars /\ report = <<summary, processed, finished>>
  BY OfZipSources DEF report
<1>2. j \in 1 .. Len(slots) /\ s \in ZipSlot /\ s.source \in DOMAIN sources
  BY DEF ZipTypes
<1>3. p \in Paths /\ OfZip!PathOf(j) = p /\ disk[p].len \in Nat
  <2>1. sources[s.source] \in SourceRecord
    BY <1>2 DEF ListInv
  <2>2. p \in Paths
    BY ONLY <2>1 DEF SourceRecord
  <2>3. disk[p] \in Node
    BY <2>2 DEF ListInv, IsWorld
  <2>4. disk[p].len \in Nat
    BY ONLY <2>3 DEF Node
  <2> QED
    BY <2>2, <2>4 DEF OfZip!PathOf
<1>4. s.data \in Seq(Token) /\ n \in Nat /\ s.from \in Nat /\ s.upto \in Nat
  <2>1. s.data \in Seq(Token) /\ s.from \in Nat /\ s.upto \in Nat
    BY ONLY <1>2 DEF ZipSlot
  <2> QED
    BY <2>1
<1>5. phase = "chunks" => (s.state # "done" => s.data = <<>>)
  BY <1>2 DEF ZipFresh
<1>6. ASSUME NEW t, t \in ZipSlot, slots' = [slots EXCEPT ![j] = t], phase = "chunks" => (t.state # "done" => t.data = <<>>),
             NEW k \in Nat, Len(t.data) = n + k, processed' = processed + k,
             phase \in {"wave", "chunks"}, phase' = phase,
             UNCHANGED <<changed, sources, at, body, totals, summary, finished, ready>>
      PROVE  \E u : ZipReads(j, u)
  <2>1. processed' \in Nat /\ processed' + n = processed + (n + k)
    BY ONLY <1>4, <1>6, processed \in Nat
  <2> QED
    BY ONLY <1>6, <2>1 DEF ZipReads
<1>7. CASE OfZip!Open(j)
  <2>1. PICK c \in {"reading", "failed"} : slots' = [slots EXCEPT ![j].state = c]
    BY <1>7 DEF OfZip!Open
  <2> DEFINE t == [s EXCEPT !.state = c]
  <2>2. /\ s.state = "waiting" /\ phase \in {"wave", "chunks"} /\ phase' = phase
        /\ UNCHANGED <<changed, sources, at, body, totals, summary, finished, ready>> /\ processed' = processed
    BY <1>1, <1>7 DEF OfZip!Open, OfZip!Work, OfZip!svars, OfZip!report
  <2>3. t \in ZipSlot /\ t.data = s.data
    BY <1>2 DEF ZipSlot
  <2>4. slots' = [slots EXCEPT ![j] = t]
    BY <2>1
  <2> HIDE DEF t
  <2>5. Len(t.data) = n + 0 /\ processed' = processed + 0 /\ (phase = "chunks" => t.data = <<>>)
    BY <1>4, <1>5, <2>2, <2>3
  <2> QED
    BY <1>6, <2>2, <2>3, <2>4, <2>5
<1>8. CASE OfZip!ReadSmall(j)
  <2>1. /\ s.state = "reading" /\ phase = "wave" /\ phase' = phase
        /\ UNCHANGED <<changed, sources, at, body, totals, summary, finished, ready>>
    BY <1>8 DEF OfZip!ReadSmall
  <2>2. CASE n < disk[p].len
    <3> DEFINE t == [s EXCEPT !.data = Append(s.data, Unit(p, n))]
    <3>1. slots' = [slots EXCEPT ![j] = t] /\ processed' = processed + 1
      BY <1>1, <1>3, <1>8, <2>2 DEF OfZip!ReadSmall
    <3>2. Unit(p, n) \in Token
      BY <1>3, <1>4, UnitsFacts
    <3>3. Append(s.data, Unit(p, n)) \in Seq(Token) /\ Len(Append(s.data, Unit(p, n))) = n + 1
      BY <1>4, <3>2
    <3>4. t \in ZipSlot /\ t.data = Append(s.data, Unit(p, n))
      BY <1>2, <3>3 DEF ZipSlot
    <3> HIDE DEF t
    <3> QED
      BY <1>6, <2>1, <3>1, <3>3, <3>4
  <2>3. CASE ~(n < disk[p].len)
    <3> DEFINE t == [s EXCEPT !.state = "done"]
    <3>1. slots' = [slots EXCEPT ![j] = t] /\ processed' = processed + 0
      BY <1>3, <1>8, <2>3 DEF OfZip!ReadSmall
    <3>2. t \in ZipSlot /\ t.data = s.data
      BY <1>2 DEF ZipSlot
    <3> HIDE DEF t
    <3>3. Len(t.data) = n + 0
      BY <1>4, <3>2
    <3> QED
      BY <1>6, <2>1, <3>1, <3>2, <3>3
  <2> QED
    BY <2>2, <2>3
<1>9. CASE OfZip!ReadChunk(j)
  <2>1. /\ s.state = "reading" /\ phase = "chunks" /\ phase' = phase
        /\ UNCHANGED <<changed, sources, at, body, totals, summary, finished, ready>>
    BY <1>9 DEF OfZip!ReadChunk
  <2>2. s.data = <<>> /\ n = 0
    BY <1>5, <2>1
  <2>3. CASE disk[p].len < s.upto
    <3> DEFINE t == [s EXCEPT !.state = "failed"]
    <3>1. slots' = [slots EXCEPT ![j] = t] /\ processed' = processed + 0
      BY <1>3, <1>9, <2>3 DEF OfZip!ReadChunk
    <3>2. t \in ZipSlot /\ t.data = s.data
      BY <1>2 DEF ZipSlot
    <3> HIDE DEF t
    <3>3. Len(t.data) = n + 0
      BY <1>4, <3>2
    <3> QED
      BY <1>6, <2>1, <2>2, <3>1, <3>2, <3>3
  <2>4. CASE ~(disk[p].len < s.upto)
    <3> DEFINE d == Units(p, s.from, s.upto)
               t == [s EXCEPT !.data = d, !.state = "done"]
    <3>1. slots' = [slots EXCEPT ![j].data = d, ![j].state = "done"] /\ processed' = processed + (s.upto - s.from)
      BY <1>1, <1>3, <1>9, <2>4 DEF OfZip!ReadChunk
    <3>2. s.from <= s.upto
      <4>1. PICK i : i = chunk + j - 1
        OBVIOUS
      <4>2. IsPiece(s, i)
        BY <1>2, <2>1, <4>1 DEF SlotsInv
      <4>3. Now.size \in Nat
        BY <2>1, NowFacts
      <4>4. i \in Nat
        BY <1>2, <4>1 DEF ZipTypes
      <4>5. PICK a \in Nat, b \in Nat : a = Edge(Now.size, i) /\ b = Edge(Now.size, i + 1) /\ a <= b
        <5>1. i + 1 \in Nat
          BY <4>4
        <5>2. Edge(Now.size, i) \in Nat /\ Edge(Now.size, i + 1) \in Nat /\ Edge(Now.size, i) <= Edge(Now.size, i + 1)
          BY ONLY <4>3, <4>4, <5>1, PieceFacts
        <5> QED
          BY ONLY <5>2
      <4> QED
        <5>1. s.from = Edge(Now.size, i) /\ s.upto = Edge(Now.size, i + 1)
          BY ONLY <4>2 DEF IsPiece
        <5> QED
          BY ONLY <4>5, <5>1
    <3>3. d \in Seq(Token) /\ Len(d) = s.upto - s.from /\ s.upto - s.from \in Nat
      <4>1. PICK q \in Paths, a \in Nat, b \in Nat : q = p /\ a = s.from /\ b = s.upto
        BY <1>3, <1>4
      <4>2. a <= b
        BY <3>2, <4>1
      <4>3. Units(q, a, b) \in Seq(Token) /\ Len(Units(q, a, b)) = b - a
        BY <4>2, PartsFacts
      <4>4. b - a \in Nat
        BY <4>2
      <4> QED
        BY <4>1, <4>3, <4>4
    <3> HIDE DEF d
    <3>4. slots' = [slots EXCEPT ![j] = t]
      BY <1>2, <3>1
    <3>5. t \in ZipSlot /\ t.data = d /\ t.state = "done"
      BY <1>2, <3>3 DEF ZipSlot
    <3> HIDE DEF t
    <3>6. Len(t.data) = n + (s.upto - s.from)
      BY <2>2, <3>3, <3>5
    <3> QED
      BY <1>6, <2>1, <3>1, <3>3, <3>4, <3>5, <3>6
  <2> QED
    BY <2>3, <2>4
<1> QED
  BY <1>7, <1>8, <1>9

(* The pieces that are offered have read nothing.                           *)
LEMMA OfferIsFresh ==
  ASSUME ListInv(ZipEntry), ZipTypes, ZipPhases, SlotsInv, ZipMoves, phase = "chunks", slots = <<>>, phase' = phase, UNCHANGED <<sources, at>>
  PROVE  slots' \in Seq(ZipSlot) /\ \A j \in 1 .. Len(slots') : slots'[j].data = <<>>
<1>1. CASE ZipOffers
  <2>1. slots' \in Seq(ZipSlot)
    BY <1>1, OfferFacts
  <2>2. PICK n \in 1 .. Pieces(Now.size) - chunk :
          slots' = [j \in 1 .. n |-> NewSlot(at, (chunk + j - 1) * Chunk, Edge(Now.size, chunk + j))]
    BY <1>1 DEF ZipOffers
  <2>3. DOMAIN slots' = 1 .. n /\ DOMAIN slots' = 1 .. Len(slots')
    BY <2>1, <2>2
  <2>4. \A j \in 1 .. n : slots'[j].data = <<>>
    BY <2>2 DEF NewSlot
  <2> QED
    BY <2>1, <2>3, <2>4
<1>2. slots' = <<>> => slots' \in Seq(ZipSlot) /\ \A j \in 1 .. Len(slots') : slots'[j].data = <<>>
  OBVIOUS
<1>3. ~ZipBegins /\ ~ZipFills /\ ~ZipFilled /\ ~ZipSplits /\ ~ZipOpens /\ ~ZipStreams /\ ~ZipStops
  BY DEF ZipBegins, ZipFills, ZipFilled, ZipSplits, ZipOpens, ZipStreams, ZipStops
<1>4. \A e : ~ZipWrites(e) /\ ~ZipTakes(e)
  BY DEF ZipWrites, ZipTakes, ZipEnters
<1>5. \A j, t : ~ZipWorks(j, t)
  BY DEF ZipWorks
<1>6. ZipGathers \/ ZipChanges => slots' = <<>>
  BY DEF ZipGathers, ZipChanges, ZipIdle
<1> QED
  BY <1>1, <1>2, <1>3, <1>4, <1>5, <1>6 DEF ZipMoves

(* And stays so until it is done.                                           *)
LEMMA FreshKept ==
  ASSUME ZipInv, ZipFresh, phase # "failed" => processed \in Nat, OfZip!Next
  PROVE  ZipFresh'
<1>1. /\ OfZip!Now = Now /\ (OfZip!Fail => Fail)
      /\ \A e, c, n : OfZip!Finish(e, c, n) => Finish(e, c, n)
  BY OfZipSources
<1>2. ListInv(ZipEntry) /\ ZipTypes /\ ZipPhases /\ QueueInv /\ SlotsInv
  BY DEF ZipInv
<1>3. /\ phase \in {"writing", "stream"} => slots = <<>>
      /\ phase \in {"chunks", "stream"} => at <= Len(sources)
  BY <1>2 DEF ZipPhases
<1> SUFFICES ASSUME phase' = "chunks" PROVE ZipFresh'
  BY DEF ZipFresh
<1>4. slots' = <<>> => ZipFresh'
  BY DEF ZipFresh
<1>5. ~Fail
  BY DEF Fail
<1>6. CASE \E j \in DOMAIN slots : OfZip!Open(j) \/ OfZip!ReadSmall(j) \/ OfZip!ReadChunk(j)
  <2>1. PICK j \in DOMAIN slots : OfZip!Open(j) \/ OfZip!ReadSmall(j) \/ OfZip!ReadChunk(j)
    BY <1>6
  <2>2. PICK t : ZipReads(j, t)
    <3>1. phase \in {"wave", "chunks"}
      BY <2>1 DEF OfZip!Open, OfZip!ReadSmall, OfZip!ReadChunk, OfZip!Work
    <3> QED
      BY <1>2, <1>3, <2>1, <3>1, SlotReads
  <2>3. slots \in Seq(ZipSlot) /\ j \in 1 .. Len(slots)
    BY <1>2 DEF ZipTypes
  <2>4. /\ Len(slots') = Len(slots) /\ slots'[j] = t /\ phase = "chunks" /\ (t.state # "done" => t.data = <<>>)
        /\ \A i \in 1 .. Len(slots) : i # j => slots'[i] = slots[i]
    BY <2>2, <2>3 DEF ZipReads
  <2> QED
    BY <2>4 DEF ZipFresh
<1>7. CASE OfZip!StartLarge
  <2>1. slots' = <<>>
    BY <1>3, <1>7 DEF OfZip!StartLarge
  <2> QED
    BY <1>4, <2>1
<1>8. CASE OfZip!StartChunks
  <2>1. phase = "chunks" /\ slots = <<>> /\ UNCHANGED <<phase, sources, at>>
    BY <1>8 DEF OfZip!StartChunks, OfZip!svars
  <2>2. ZipMoves
    BY <1>2, <1>3, ZipSteps DEF ZipMoves
  <2>3. \A j \in 1 .. Len(slots') : slots'[j].data = <<>>
    BY <1>2, <2>1, <2>2, OfferIsFresh
  <2> QED
    BY <2>3 DEF ZipFresh
<1>9. CASE OfZip!ChunksDone
  BY <1>4, <1>9 DEF OfZip!ChunksDone
<1>10. CASE OfZip!Others /\ UNCHANGED <<next, ready, slots, chunk>>
  <2>1. Change \/ CannotCollect \/ WriteDirectory \/ WriteSymlink \/ SymlinkGone \/ Close \/ WriteFails
    BY <1>10, OfZipSources DEF OfZip!Others
  <2>2. Change
    BY <1>5, <2>1 DEF CannotCollect, WriteDirectory, WriteSymlink, SymlinkGone, Close, WriteFails, Turn
  <2> QED
    BY <1>10, <2>2 DEF Change, ZipFresh
<1>11. ~OfZip!ZBegin /\ ~OfZip!Fill /\ ~OfZip!Filled /\ ~OfZip!EndLarge /\ ~OfZip!StartStream /\ ~OfZip!EndStream
  BY DEF OfZip!ZBegin, OfZip!Fill, OfZip!Filled, OfZip!EndLarge, OfZip!StartStream, OfZip!EndStream
<1>12. ~OfZip!Stream /\ ~OfZip!Take
  BY DEF OfZip!Stream, OfZip!Take, OfZip!Turn
<1>13. ~OfZip!WaveFails /\ ~OfZip!WorkerCannotOpen
  BY <1>1, <1>5 DEF OfZip!WaveFails, OfZip!WorkerCannotOpen
<1> QED
  BY <1>6, <1>7, <1>8, <1>9, <1>10, <1>11, <1>12, <1>13 DEF OfZip!Next

(* When all sources are in the archive, nothing is read ahead.              *)
LEMMA NoneLeft ==
  ASSUME ListInv(ZipEntry), ZipTypes, QueueInv, at > Len(sources)
  PROVE  ready = <<>>
<1>1. /\ Len(ready) \in Nat /\ next \in 0 .. Len(Queue(sources)) /\ next - Len(ready) \in 0 .. Len(Queue(sources))
      /\ Len(Queue(sources)) \in Nat /\ ready \in Seq(ZipSlot)
      /\ \A n \in 1 .. Len(Queue(sources)) : Queue(sources)[n] \in DOMAIN sources
  BY QueueHolds DEF ZipTypes
<1>2. InTurn(Queue(sources), next - Len(ready), at)
  BY DEF QueueInv
<1>3. sources \in Seq(SourceRecord) /\ at \in 1 .. Len(sources) + 1
  BY DEF ListInv
<1> SUFFICES ASSUME Len(ready) # 0 PROVE FALSE
  BY <1>1
<1>4. next \in 1 .. Len(Queue(sources)) /\ ~(next <= next - Len(ready))
  BY <1>1
<1>5. ~(Queue(sources)[next] < at)
  BY <1>2, <1>4 DEF InTurn
<1>6. Queue(sources)[next] \in 1 .. Len(sources)
  BY <1>1, <1>3, <1>4
<1> QED
  BY <1>3, <1>5, <1>6

(* A zip reports a file as it is read, and a streamed one when it is in the *)
(* archive.                                                                 *)
LEMMA ZipCounts ==
  ASSUME format = "zip", format' = "zip", ZipInv, ZipFresh, CountInv, OfZip!Next, Underway' \in Nat
  PROVE  CountStep
<1> DEFINE C == IF phase = "chunks" THEN Len(body) ELSE 0
           D == IF phase' = "chunks" THEN Len(body') ELSE 0
<1>1. /\ OfZip!Now = Now /\ (OfZip!Fail => Fail)
      /\ \A e, c, n : OfZip!Finish(e, c, n) => Finish(e, c, n)
      /\ \A k : OfZip!Turn(k) => Turn(k)
  BY OfZipSources
<1>2. Fail => CountStep
  BY DEF Fail, CountStep
<1>3. Apart = {} /\ Apart' = {} /\ Underway = (ReadOf(ready) + ReadOf(slots)) + C /\ Underway' = (ReadOf(ready') + ReadOf(slots')) + D
  BY DEF Apart, Underway, ReadOf
<1>4. ListInv(ZipEntry) /\ ZipTypes /\ ZipPhases /\ QueueInv /\ SlotsInv
  BY DEF ZipInv
<1>5. /\ phase \in {"writing", "stream"} => slots = <<>>
      /\ phase \in {"chunks", "stream"} => at <= Len(sources)
      /\ phase \in {"begin", "writing", "wave"} => body = <<>>
      /\ phase \in {"begin", "wave"} => ready = <<>>
      /\ phase = "begin" => slots = <<>>
  BY <1>4 DEF ZipPhases
<1>6. ready \in Seq(ZipSlot) /\ slots \in Seq(ZipSlot) /\ body \in Seq(Token)
  BY <1>4 DEF ZipTypes, ZipPhases
<1>7. ReadOf(ready) \in Nat /\ ReadOf(slots) \in Nat /\ ReadOf(<<>>) = 0 /\ C \in Nat /\ Len(body) \in Nat /\ Len(<<>>) = 0
  <2>1. Len(body) \in Nat
    BY <1>6
  <2> QED
    BY <1>6, <2>1, LensFacts, NothingRead
<1>8. phase \notin {"begin", "failed"} => processed \in Nat
  BY DEF CountInv
<1>9. ASSUME NEW e, NEW n \in Nat, NEW r \in Nat, Finish(e, "files", n), processed' = processed + r,
             phase \notin {"begin", "failed"}, phase' = "writing", at <= Len(sources),
             changed = {} => n = Now.size /\ r + Underway = n + Underway'
      PROVE  CountStep
  <2>1. processed \in Nat /\ Underway \in Nat
    BY <1>3, <1>7, <1>8, <1>9
  <2>2. processed' \in Nat
    BY <1>9, <2>1
  <2>3. ASSUME changed = {} PROVE processed' + Underway = (processed + n) + Underway'
    <3>1. PICK v : v = Underway'
      OBVIOUS
    <3>2. r + Underway = n + v
      BY <1>9, <2>3, <3>1
    <3>3. v \in Nat
      BY <3>1
    <3>4. processed' + Underway = (processed + n) + v
      BY ONLY <1>9, <2>1, <3>2, <3>3
    <3> QED
      BY <3>1, <3>4
  <2>4. "files" \in Counters /\ Apart' = Apart
    BY <1>3 DEF Counters
  <2>5. changed = {} => /\ n = IF at \in Apart THEN 0 ELSE Now.size
                        /\ processed' + Underway = (processed + n) + Underway'
    BY <1>3, <1>9, <2>3
  <2> QED
    BY ONLY <1>9, <2>2, <2>4, <2>5 DEF CountStep
<1>10. ASSUME NEW r \in Nat, UNCHANGED <<sources, at, totals, summary, finished>>, changed \subseteq changed',
              processed' = processed + r, phase \notin {"begin", "failed"}, phase' \notin {"begin", "ending"},
              r + Underway = Underway', phase' = "done" => at > Len(sources) /\ Underway' = 0
       PROVE  CountStep
  <2>1. processed \in Nat /\ Underway \in Nat
    BY SMTT(40), <1>3, <1>7, <1>8, <1>10
  <2>2. processed' \in Nat
    BY <1>10, <2>1
  <2>3. processed' + Underway = processed + Underway'
    <3>1. PICK p, q, u, v : p = processed /\ q = processed' /\ u = Underway /\ v = Underway'
      OBVIOUS
    <3>2. q = p + r /\ r + u = v /\ p \in Nat /\ u \in Nat /\ v \in Nat /\ r \in Nat
      BY <1>10, <2>1, <3>1
    <3>3. q + u = p + v
      BY ONLY <3>2
    <3> QED
      BY <3>1, <3>3
  <2>4. Apart' = Apart
    BY <1>3
  <2> QED
    BY ONLY <1>10, <2>2, <2>3, <2>4 DEF CountStep
<1>11. CASE OfZip!ZBegin
  <2>1. List({}) /\ phase' \in {"writing", "failed"} /\ UNCHANGED <<ready, slots>>
    BY <1>11, OfZipSources DEF OfZip!ZBegin
  <2>2. phase = "begin"
    BY <2>1 DEF List
  <2>3. Underway' = 0
    <3>1. D = 0
      BY <2>1
    <3>2. ready' = <<>> /\ slots' = <<>>
      BY <1>5, <2>1, <2>2
    <3> HIDE DEF C, D
    <3> QED
      BY <1>3, <1>7, <3>1, <3>2
  <2> QED
    BY <1>3, <2>1, <2>2, <2>3 DEF CountStep
<1>12. CASE OfZip!Fill
  <2>1. /\ phase = "writing" /\ phase' = "wave" /\ ready = <<>> /\ ready' = ready
        /\ UNCHANGED <<sources, at, totals, summary, finished, changed, processed>>
    BY <1>1, <1>12 DEF OfZip!Fill, OfZip!report, Turn
  <2>2. ZipMoves
    BY <1>4, <1>5, ZipSteps DEF ZipMoves
  <2>3. ZipFills
    <3>1. ~ZipBegins /\ ~ZipFilled /\ ~ZipSplits /\ ~ZipOffers /\ ~ZipGathers /\ ~ZipOpens /\ ~ZipStreams /\ ~ZipStops
      BY <2>1 DEF ZipBegins, ZipFilled, ZipSplits, ZipOffers, ZipGathers, ZipOpens, ZipStreams, ZipStops
    <3>2. \A e : ~ZipWrites(e) /\ ~ZipTakes(e)
      BY <2>1 DEF ZipWrites, ZipTakes, ZipEnters
    <3>3. ~ZipChanges /\ \A j, t : ~ZipWorks(j, t)
      BY <2>1 DEF ZipWorks, ZipChanges, Change
    <3> QED
      BY <2>2, <3>1, <3>2, <3>3 DEF ZipMoves
  <2>4. slots' \in Seq(ZipSlot) /\ \A j \in 1 .. Len(slots') : slots'[j].data = <<>>
    BY <1>4, <2>3, FillFacts
  <2>5. ReadOf(slots') = 0 /\ slots = <<>>
    BY <1>5, <2>1, <2>4, NothingRead
  <2>6. Underway = 0 /\ Underway' = 0 /\ processed' = processed + 0
    BY <1>3, <1>7, <1>8, <2>1, <2>5
  <2> QED
    BY <1>10, <2>1, <2>6
<1>13. CASE OfZip!Filled
  <2>1. /\ phase = "wave" /\ phase' = "writing" /\ ready = <<>> /\ ready' = slots /\ slots' = <<>>
        /\ UNCHANGED <<sources, at, totals, summary, finished, changed, processed>>
    BY <1>5, <1>13 DEF OfZip!Filled, OfZip!report
  <2>2. Underway = ReadOf(slots) /\ Underway' = ReadOf(slots) /\ processed' = processed + 0
    BY <1>3, <1>7, <1>8, <2>1
  <2> QED
    BY <1>7, <1>10, <2>1, <2>2
<1>14. CASE OfZip!Take
  <2> DEFINE e == [kind |-> "file", name |-> sources[Head(ready).source].name, body |-> Head(ready).data]
             n == Len(Head(ready).data)
  <2>1. /\ Finish(e, "files", n) /\ Turn("file") /\ ready # <<>> /\ OfZip!IsSmall(Now)
        /\ ready' = Tail(ready) /\ UNCHANGED <<phase, processed, next, slots, chunk>>
    BY <1>1, <1>14 DEF OfZip!Take
  <2>2. phase = "writing" /\ at <= Len(sources)
    BY <2>1 DEF Turn
  <2>3. ZipTakes(e)
    <3>1. at \in 1 .. Len(sources)
      BY <1>4, <2>2, NowFacts
    <3>2. at \in SmallIn(sources)
      BY <1>4, <2>1, <3>1 DEF OfZip!IsSmall, SmallIn, Now, ListInv
    <3> QED
      BY <2>1, <2>2, <3>2 DEF ZipTakes, ZipEnters
  <2>4. Now.path \notin changed => n = Now.size
    BY <1>4, <2>3, ZipTakeHolds DEF ZipHolds
  <2>5. ReadOf(ready) = n + ReadOf(ready') /\ n \in Nat /\ ReadOf(ready') \in Nat
    BY <1>6, <2>1, FirstRead, LensFacts
  <2> HIDE DEF n, e
  <2>6. 0 + Underway = n + Underway' /\ processed' = processed + 0
    BY SMTT(40), <1>3, <1>7, <1>8, <2>1, <2>2, <2>5
  <2>7. changed = {} => n = Now.size
    BY <2>4
  <2>8. 0 \in Nat
    OBVIOUS
  <2> QED
    BY <1>9, <2>1, <2>2, <2>5, <2>6, <2>7, <2>8
<1>15. CASE \E j \in DOMAIN slots : OfZip!Open(j) \/ OfZip!ReadSmall(j) \/ OfZip!ReadChunk(j)
  <2>1. PICK j \in DOMAIN slots : OfZip!Open(j) \/ OfZip!ReadSmall(j) \/ OfZip!ReadChunk(j)
    BY <1>15
  <2>2. phase \in {"wave", "chunks"}
    BY <2>1 DEF OfZip!Open, OfZip!ReadSmall, OfZip!ReadChunk, OfZip!Work
  <2>3. PICK t : ZipReads(j, t)
    BY <1>4, <1>5, <1>8, <2>1, <2>2, SlotReads
  <2>4. j \in 1 .. Len(slots)
    BY <1>6
  <2>5. /\ ReadOf(slots') + Len(slots[j].data) = ReadOf(slots) + Len(t.data) /\ slots' \in Seq(ZipSlot)
    BY <1>6, <2>3, <2>4, OneReads DEF ZipReads
  <2>6. /\ processed' \in Nat /\ processed' + Len(slots[j].data) = processed + Len(t.data)
        /\ phase' = phase /\ UNCHANGED <<changed, sources, at, body, totals, summary, finished, ready>>
    BY <2>3 DEF ZipReads
  <2>7. ReadOf(slots') \in Nat /\ Len(slots[j].data) \in Nat /\ Len(t.data) \in Nat /\ processed \in Nat
    <3>1. slots[j].data \in Seq(Token) /\ t.data \in Seq(Token)
      <4>1. slots[j] \in ZipSlot /\ t \in ZipSlot
        BY <1>6, <2>3, <2>4 DEF ZipReads
      <4> QED
        BY ONLY <4>1 DEF ZipSlot
    <3> QED
      BY <1>8, <2>2, <2>5, <3>1, LensFacts
  <2>8. processed' + Underway = processed + Underway'
    <3>1. Underway' = (ReadOf(ready) + ReadOf(slots')) + C
      BY <1>3, <2>6
    <3>2. PICK a, b, c, d, x, y : a = ReadOf(ready) /\ b = ReadOf(slots) /\ c = ReadOf(slots') /\ d = C
                                 /\ x = Len(slots[j].data) /\ y = Len(t.data)
      OBVIOUS
    <3>3. /\ a \in Nat /\ b \in Nat /\ c \in Nat /\ d \in Nat /\ x \in Nat /\ y \in Nat
          /\ c + x = b + y /\ processed' + x = processed + y
      BY <1>7, <2>5, <2>6, <2>7, <3>2
    <3>4. processed' + ((a + b) + d) = processed + ((a + c) + d)
      <4>1. PICK p \in Nat, q \in Nat : p = processed /\ q = processed'
        BY <2>6, <2>7
      <4>2. q + x = p + y
        BY <3>3, <4>1
      <4>3. q + ((a + b) + d) = p + ((a + c) + d)
        BY ONLY <3>3, <4>2, p \in Nat, q \in Nat
      <4> QED
        BY <4>1, <4>3
    <3> QED
      BY <1>3, <3>1, <3>2, <3>4
  <2>9. Apart' = Apart
    BY <1>3
  <2> QED
    BY ONLY <2>2, <2>6, <2>8, <2>9 DEF CountStep
<1>16. CASE OfZip!WaveFails \/ OfZip!WorkerCannotOpen
  BY <1>1, <1>2, <1>16 DEF OfZip!WaveFails, OfZip!WorkerCannotOpen
<1>17. CASE OfZip!StartLarge
  <2>1. /\ phase = "writing" /\ phase' = "chunks" /\ UNCHANGED <<ready, slots, body>>
        /\ UNCHANGED <<sources, at, totals, summary, finished, changed, processed>>
    BY <1>17 DEF OfZip!StartLarge, OfZip!report
  <2>2. Underway = ReadOf(ready) /\ Underway' = ReadOf(ready) /\ processed' = processed + 0
    BY <1>3, <1>5, <1>7, <1>8, <2>1
  <2> QED
    BY <1>7, <1>10, <2>1, <2>2
<1>18. CASE OfZip!StartChunks
  <2>1. /\ phase = "chunks" /\ slots = <<>> /\ UNCHANGED <<phase, ready, body>>
        /\ UNCHANGED <<sources, at, totals, summary, finished, changed, processed>>
    BY <1>18 DEF OfZip!StartChunks, OfZip!svars, OfZip!report
  <2>2. ZipMoves
    BY <1>4, <1>5, ZipSteps DEF ZipMoves
  <2>3. slots' \in Seq(ZipSlot) /\ \A j \in 1 .. Len(slots') : slots'[j].data = <<>>
    BY <1>4, <2>1, <2>2, OfferIsFresh
  <2>4. ReadOf(slots') = 0
    BY <2>3, NothingRead
  <2>5. 0 + Underway = Underway' /\ processed' = processed + 0
    BY <1>3, <1>7, <1>8, <2>1, <2>4
  <2> QED
    BY <1>10, <2>1, <2>5
<1>19. CASE OfZip!ChunksDone
  <2>1. /\ phase = "chunks" /\ phase' = phase /\ slots' = <<>> /\ ready' = ready
        /\ body' = body \o OfZip!FlattenSeq([j \in DOMAIN slots |-> slots[j].data])
        /\ UNCHANGED <<sources, at, totals, summary, finished, changed, processed>>
    BY <1>19 DEF OfZip!ChunksDone, OfZip!report
  <2>2. OfZip!FlattenSeq([j \in DOMAIN slots |-> slots[j].data]) = EndToEnd([j \in DOMAIN slots |-> slots[j].data])
    BY DEF OfZip!FlattenSeq, EndToEnd, Flatten
  <2>3. PICK d : d = EndToEnd([j \in DOMAIN slots |-> slots[j].data])
    OBVIOUS
  <2>4. d \in Seq(Token) /\ Len(d) = ReadOf(slots)
    BY <1>6, <2>3, LaidOutRead
  <2>5. body' = body \o d
    BY <2>1, <2>2, <2>3
  <2>6. Len(body') = Len(body) + ReadOf(slots)
    BY ONLY <1>6, <2>4, <2>5, ConcatFacts
  <2>7. 0 + Underway = Underway' /\ processed' = processed + 0
    BY <1>3, <1>7, <1>8, <2>1, <2>6
  <2> QED
    BY <1>10, <2>1, <2>7
<1>20. CASE OfZip!EndLarge
  <2>1. /\ phase = "chunks" /\ phase' = "writing" /\ slots = <<>> /\ chunk = Pieces(Now.size)
        /\ (\E e : Finish(e, "files", Now.size)) /\ UNCHANGED <<processed, ready, slots>>
    BY <1>1, <1>20 DEF OfZip!EndLarge, OfZip!Chunks, Pieces
  <2>2. at <= Len(sources) /\ Now.size \in Nat /\ Now.path \in Paths
    BY <1>4, <1>5, <2>1, NowFacts
  <2>3. Len(body) = Now.size
    <3>1. body = Units(Now.path, 0, Edge(Now.size, Pieces(Now.size)))
      BY <1>4, <2>1 DEF ZipPhases
    <3>2. Edge(Now.size, Pieces(Now.size)) = Now.size
      BY <2>2, PieceFacts
    <3> QED
      BY <2>2, <3>1, <3>2, UnitsFacts
  <2>4. 0 + Underway = Now.size + Underway' /\ processed' = processed + 0
    BY <1>3, <1>7, <1>8, <2>1, <2>2, <2>3
  <2> QED
    BY <1>9, <2>1, <2>2, <2>4
<1>21. CASE OfZip!StartStream
  <2>1. /\ phase = "writing" /\ phase' \in {"stream", "failed"} /\ UNCHANGED <<ready, slots>>
        /\ UNCHANGED <<sources, at, totals, summary, finished, changed, processed>>
    BY <1>21 DEF OfZip!StartStream, OfZip!report
  <2>2. 0 + Underway = Underway' /\ processed' = processed + 0
    BY <1>3, <1>7, <1>8, <2>1
  <2> QED
    BY <1>10, <2>1, <2>2
<1>22. CASE OfZip!Stream
  <2>1. /\ phase = "stream" /\ phase' = phase /\ UNCHANGED <<ready, slots>>
        /\ UNCHANGED <<sources, at, totals, summary, finished, changed, processed>>
    BY <1>22 DEF OfZip!Stream, OfZip!report
  <2>2. 0 + Underway = Underway' /\ processed' = processed + 0
    BY <1>3, <1>7, <1>8, <2>1
  <2> QED
    BY <1>10, <2>1, <2>2
<1>23. CASE OfZip!EndStream
  <2>1. /\ phase = "stream" /\ phase' = "writing" /\ UNCHANGED <<ready, slots>>
        /\ (\E e : Finish(e, "files", Now.size)) /\ processed' = processed + Now.size
    BY <1>1, <1>23 DEF OfZip!EndStream
  <2>2. at <= Len(sources) /\ Now.size \in Nat
    BY <1>4, <1>5, <2>1, NowFacts
  <2>3. Now.size + Underway = Now.size + Underway'
    BY <1>3, <2>1
  <2> QED
    BY <1>9, <2>1, <2>2, <2>3
<1>24. CASE OfZip!Others /\ UNCHANGED <<next, ready, slots, chunk>>
  <2>1. CannotCollect \/ SymlinkGone \/ WriteFails => Fail
    BY DEF CannotCollect, SymlinkGone, WriteFails
  <2>2. Fail \/ WriteDirectory \/ WriteSymlink \/ Close \/ Change
    BY <1>24, <2>1, OfZipSources DEF OfZip!Others
  <2>3. UNCHANGED <<ready, slots>> /\ Underway \in Nat /\ Apart' = Apart /\ at \notin Apart
    BY <1>3, <1>7, <1>24
  <2>4. CASE WriteDirectory \/ WriteSymlink
    <3>1. phase = "writing" /\ phase' = "writing"
      BY <2>4 DEF WriteDirectory, WriteSymlink, Turn
    <3>2. Underway' = Underway
      BY <1>3, <2>3, <3>1
    <3> QED
      BY <1>4, <2>3, <2>4, <3>2, PlainCounts
  <2>5. CASE Change
    <3>1. phase' = phase /\ body' = body
      BY <2>5 DEF Change
    <3>2. Underway' = Underway
      BY <1>3, <2>3, <3>1
    <3> QED
      BY <2>3, <2>5, <3>2, ChangeCounts
  <2>6. CASE Close
    <3>1. /\ phase = "writing" /\ phase' = "done" /\ at > Len(sources)
          /\ UNCHANGED <<sources, at, totals, summary, finished, changed, processed>>
      BY <2>6 DEF Close, report
    <3>2. ready = <<>> /\ slots = <<>>
      BY <1>4, <1>5, <3>1, NoneLeft
    <3>3. Underway = 0 /\ Underway' = 0 /\ processed' = processed + 0
      BY <1>3, <1>7, <1>8, <2>3, <3>1, <3>2
    <3> QED
      BY <1>10, <3>1, <3>3
  <2> QED
    BY <1>2, <2>2, <2>4, <2>5, <2>6
<1> QED
  BY <1>11, <1>12, <1>13, <1>14, <1>15, <1>16, <1>17, <1>18, <1>19, <1>20, <1>21, <1>22, <1>23, <1>24 DEF OfZip!Next

-----------------------------------------------------------------------------
(* All the formats: the counts and the bytes.                               *)

(* So much is under way at any moment.                                      *)
LEMMA UnderwayIsCount == Spec => [](Underway \in Nat)
<1>1. AllInv => Underway \in Nat
  <2> SUFFICES ASSUME AllInv PROVE Underway \in Nat
    OBVIOUS
  <2>1. CASE format = "zip"
    <3>1. ready \in Seq(ZipSlot) /\ slots \in Seq(ZipSlot) /\ body \in Seq(Token)
      BY <2>1 DEF AllInv, ZipInv, ZipTypes, ZipPhases
    <3>2. ReadOf(ready) \in Nat /\ ReadOf(slots) \in Nat /\ Len(body) \in Nat
      BY <3>1, LensFacts
    <3> QED
      BY <2>1, <3>2 DEF Underway
  <2>2. CASE format = "tar"
    <3>1. body \in Seq(Token)
      BY <2>2 DEF AllInv, TarInv, PhaseInv
    <3> QED
      BY <2>2, <3>1 DEF Underway
  <2>3. CASE format = "7z"
    BY <2>3 DEF Underway
  <2> QED
    BY <2>1, <2>2, <2>3 DEF AllInv
<1> QED
  BY <1>1, AllInductive, PTL

(* Nothing is under way at the start.                                       *)
LEMMA NothingUnderway ==
  ASSUME Init
  PROVE  SInit /\ Underway = 0 /\ phase = "begin"
<1>1. SInit
  BY Starts DEF Init, OfZip!Init, OfTar!Init, OfSevenZ!Init
<1>2. phase = "begin" /\ body = <<>> /\ Len(<<>>) = 0
  BY <1>1 DEF SInit
<1>3. CASE format = "zip"
  <2>1. ready = <<>> /\ slots = <<>>
    BY <1>3 DEF Init, OfZip!Init
  <2> QED
    BY <1>1, <1>2, <1>3, <2>1, NothingRead DEF Underway
<1>4. CASE format # "zip"
  BY <1>1, <1>2, <1>4 DEF Underway
<1> QED
  BY <1>3, <1>4

(* Every step of the specification keeps the counts.                        *)
LEMMA CountInductive == Spec => [](CountInv /\ (format = "zip" => ZipFresh))
<1>1. Init => CountInv /\ (format = "zip" => ZipFresh)
  BY NothingUnderway, CountStarts DEF ZipFresh
<1>2. AllInv /\ Underway \in Nat /\ (Underway \in Nat)' /\ CountInv /\ (format = "zip" => ZipFresh) /\ [Next]_vars
      => (CountInv /\ (format = "zip" => ZipFresh))'
  <2> SUFFICES ASSUME AllInv, Underway \in Nat, Underway' \in Nat, CountInv, format = "zip" => ZipFresh, [Next]_vars
               PROVE  CountInv' /\ (format' = "zip" => ZipFresh')
    OBVIOUS
  <2>1. CASE UNCHANGED vars
    <3>1. UNCHANGED <<format, svars, ready, slots, links>>
      BY <2>1 DEF vars, zipOnly, tarOnly
    <3>2. UNCHANGED <<format, phase, sources, at, body, summary, totals, processed, finished, changed, ready, slots, links>>
      BY <3>1 DEF svars, report
    <3>3. ZipFresh' <=> ZipFresh
      BY <3>2 DEF ZipFresh
    <3>4. Underway' = Underway /\ \A k : SizesUpTo(k)' = SizesUpTo(k)
      BY <3>2 DEF Underway, ReadOf, SizesUpTo, Apart
    <3>5. CountInv'
      BY <3>2, <3>4 DEF CountInv, SizesUpTo, Apart
    <3> QED
      BY <3>2, <3>3, <3>5
  <2>2. CASE Next
    <3>1. format' = format /\ format \in {"zip", "tar", "7z"}
      BY <2>2 DEF Next, AllInv
    <3>2. CASE format = "zip"
      <4>1. OfZip!Next /\ ZipInv /\ ZipFresh
        BY <2>2, <3>2 DEF Next, AllInv
      <4>2. CountStep
        BY <3>1, <3>2, <4>1, ZipCounts
      <4>3. ListInv(ZipEntry)
        BY <4>1 DEF ZipInv
      <4>4. CountInv'
        BY <4>2, <4>3, CountKept
      <4>5. phase # "failed" => processed \in Nat
        BY DEF CountInv
      <4>6. ZipFresh'
        BY <4>1, <4>5, FreshKept
      <4> QED
        BY <4>4, <4>6
    <3>3. CASE format = "tar"
      <4>1. OfTar!Next /\ TarInv
        BY <2>2, <3>3 DEF Next, AllInv
      <4>2. CountStep
        BY <3>1, <3>3, <4>1, TarCounts
      <4>3. ListInv(TarEntry)
        BY <4>1 DEF TarInv
      <4> QED
        BY <3>1, <3>3, <4>2, <4>3, CountKept
    <3>4. CASE format = "7z"
      <4>1. OfSevenZ!Next /\ SevenZInv
        BY <2>2, <3>4 DEF Next, AllInv
      <4>2. CountStep
        BY <3>1, <3>4, <4>1, SevenZCounts
      <4>3. ListInv(SevenZEntry)
        BY <4>1 DEF SevenZInv
      <4> QED
        BY <3>1, <3>4, <4>2, <4>3, CountKept
    <3> QED
      BY <3>1, <3>2, <3>3, <3>4
  <2> QED
    BY <2>1, <2>2
<1> QED
  BY <1>1, <1>2, AllInductive, UnderwayIsCount, PTL DEF Spec

(* When an archive is done every source that was listed has been written,   *)
(* counted and reported, and of files that nobody changed exactly the bytes *)
(* that were announced: what was read ahead, in waves, pieces or chunks, is *)
(* reported once.                                                           *)
THEOREM CreationCompletes == Spec => []Complete
<1>1. AllInv /\ CountInv => Complete
  <2> SUFFICES ASSUME AllInv, CountInv, phase = "done"
               PROVE  /\ finished = totals.entries
                      /\ summary.files + summary.directories + summary.symlinks + summary.hardlinks = Len(sources)
                      /\ changed = {} => processed = totals.bytes /\ summary.bytes = totals.bytes
    BY DEF Complete
  <2>1. /\ IsTally(summary) /\ processed \in Nat /\ finished = at - 1 /\ Counted(summary) = at - 1
        /\ totals = [bytes |-> SizesUpTo(Len(sources)), entries |-> Len(sources)]
        /\ at > Len(sources) /\ Underway = 0
        /\ changed = {} => summary.bytes = SizesUpTo(at - 1) /\ processed = summary.bytes + Underway
    BY DEF CountInv
  <2>2. at \in 1 .. Len(sources) + 1 /\ Len(sources) \in Nat
    <3>1. PICK E : ListInv(E)
      BY DEF AllInv, ZipInv, TarInv, SevenZInv
    <3>2. sources \in Seq(SourceRecord)
      BY <3>1 DEF ListInv
    <3> QED
      BY <3>2, AllAnswer
  <2>3. at - 1 = Len(sources)
    BY <2>1, <2>2
  <2>4. totals.entries = Len(sources) /\ totals.bytes = SizesUpTo(Len(sources))
    BY <2>1
  <2>5. changed = {} => summary.bytes = SizesUpTo(Len(sources)) /\ processed = summary.bytes
    <3>1. summary.bytes \in Nat
      BY ONLY <2>1 DEF IsTally
    <3> QED
      BY <2>1, <2>3, <3>1
  <2> QED
    BY <2>1, <2>3, <2>4, <2>5 DEF Counted
<1> QED
  BY <1>1, AllInductive, CountInductive, PTL

=============================================================================
