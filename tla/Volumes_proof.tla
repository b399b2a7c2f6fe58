--------------------------- MODULE Volumes_proof ---------------------------
(***************************************************************************)
(* Proofs about Volumes, for any bytes, volume sizes and bounds: the two    *)
(* sinks keep their types, their bookkeeping is what is on disk, volumes    *)
(* stay within the size asked for and records whole, and either sink        *)
(* implements one flat file.                                                *)
(***************************************************************************)
EXTENDS Volumes, Collections_proof

-----------------------------------------------------------------------------
(* Sequences laid end to end.                                               *)

(* n pieces of bytes of B, and where each begins when they follow each     *)
(* other.                                                                  *)
Pieces(B, n, ss, st) ==
  /\ n \in Nat \ {0}
  /\ ss \in [1 .. n -> Seq(B)] /\ st \in [1 .. n -> Nat]
  /\ st[1] = 0
  /\ \A i \in 1 .. (n - 1) : st[i + 1] = st[i] + Len(ss[i])

(* F is the n pieces, each where it begins.                                *)
Flattened(B, n, ss, st, F) ==
  /\ F \in Seq(B)
  /\ Len(F) = st[n] + Len(ss[n])
  /\ \A i \in 1 .. n : \A k \in 1 .. Len(ss[i]) : F[st[i] + k] = ss[i][k]
  /\ \A p \in 1 .. Len(F) : \E i \in 1 .. n : st[i] < p /\ p <= st[i] + Len(ss[i])

(* The pieces follow each other: each ends before a later one begins.       *)
LEMMA PiecesInOrder ==
  ASSUME NEW n \in Nat, NEW st, NEW len,
         \A i \in 1 .. n : st[i] \in Nat /\ len[i] \in Nat,
         \A i \in 1 .. (n - 1) : st[i + 1] = st[i] + len[i]
  PROVE  \A i, j \in 1 .. n : i < j => st[i] + len[i] <= st[j]
<1> SUFFICES ASSUME NEW i \in 1 .. n,
                    {j \in 1 .. n : i < j /\ ~ (st[i] + len[i] <= st[j])} # {}
             PROVE  FALSE
  OBVIOUS
<1> DEFINE Bad == {j \in 1 .. n : i < j /\ ~ (st[i] + len[i] <= st[j])}
<1>1. PICK j \in Bad : \A k \in Bad : j <= k
  <2>1. Bad \in SUBSET Nat /\ Bad # {}
    OBVIOUS
  <2> HIDE DEF Bad
  <2> QED
    BY <2>1, LeastNat
<1>2. j \in 1 .. n /\ i < j /\ ~ (st[i] + len[i] <= st[j])
  OBVIOUS
<1>3. j - 1 \in 1 .. n /\ j - 1 \in 1 .. (n - 1) /\ j - 1 \notin Bad
  <2> HIDE DEF Bad
  <2> QED
    BY <1>1, <1>2
<1>4. st[j] = st[j - 1] + len[j - 1]
  BY <1>3
<1>5. CASE i = j - 1
  BY <1>2, <1>4, <1>5
<1>6. CASE i # j - 1
  <2>1. st[i] + len[i] <= st[j - 1]
    BY <1>2, <1>3, <1>6
  <2> QED
    BY <1>2, <1>3, <1>4, <2>1
<1> QED
  BY <1>5, <1>6

(* Where each byte of each piece is in the whole.                           *)
LEMMA FlattenFacts ==
  ASSUME NEW B, NEW n, NEW ss, NEW st, Pieces(B, n, ss, st)
  PROVE  Flattened(B, n, ss, st, Flatten(ss))
<1> DEFINE Solves(f) == f = [i \in 1 .. n |-> IF i = 1 THEN ss[i] ELSE f[i - 1] \o ss[i]]
           f == CHOOSE f : Solves(f)
           Good(i) == /\ f[i] \in Seq(B)
                      /\ Len(f[i]) = st[i] + Len(ss[i])
                      /\ \A j \in 1 .. i : \A k \in 1 .. Len(ss[j]) : f[i][st[j] + k] = ss[j][k]
                      /\ \A j \in 1 .. i : st[j] + Len(ss[j]) <= Len(f[i])
                      /\ \A p \in 1 .. Len(f[i]) :
                           \E j \in 1 .. i : st[j] < p /\ p <= st[j] + Len(ss[j])
           Bad == {i \in 1 .. n : ~ Good(i)}
<1>0. /\ n \in Nat /\ n # 0 /\ ss \in [1 .. n -> Seq(B)] /\ st \in [1 .. n -> Nat] /\ st[1] = 0
      /\ \A i \in 1 .. (n - 1) : st[i + 1] = st[i] + Len(ss[i])
  BY DEF Pieces
<1>1. Len(ss) = n
  BY <1>0
<1>2. Flatten(ss) = f[n]
  BY <1>1 DEF Flatten
<1>3. Solves(f)
  BY <1>0, FlattenExists
<1>4. f[1] = ss[1] /\ \A i \in 1 .. n : i # 1 => f[i] = f[i - 1] \o ss[i]
  <2> HIDE DEF f
  <2>1. \A i \in 1 .. n : f[i] = IF i = 1 THEN ss[i] ELSE f[i - 1] \o ss[i]
    BY <1>3, Zenon
  <2>2. 1 \in 1 .. n
    BY <1>0
  <2> HIDE DEF Solves
  <2> QED
    BY <2>1, <2>2
<1> HIDE DEF f
<1>5. \A i \in 1 .. n : Good(i)
  <2> SUFFICES ASSUME Bad # {} PROVE FALSE
    OBVIOUS
  <2>1. PICK i \in Bad : \A j \in Bad : i <= j
    <3>1. Bad \in SUBSET Nat
      OBVIOUS
    <3> HIDE DEF Bad
    <3> QED
      BY <3>1, LeastNat
  <2>2. i \in 1 .. n /\ ~ Good(i)
    OBVIOUS
  <2>3. CASE i = 1
    BY <1>0, <1>4, <2>2, <2>3
  <2>4. CASE i # 1
    <3>1. i - 1 \in 1 .. n /\ i - 1 \notin Bad
      <4> HIDE DEF Bad
      <4> QED
        BY SMTT(40), <1>0, <2>1, <2>2, <2>4
    <3>2. Good(i - 1)
      BY <3>1
    <3> HIDE DEF Bad
    <3>3. f[i] = f[i - 1] \o ss[i] /\ f[i - 1] \in Seq(B) /\ ss[i] \in Seq(B)
      BY <1>0, <1>4, <2>2, <2>4, <3>2
    <3>4. st[i] = Len(f[i - 1]) /\ st[i] \in Nat
      BY <1>0, <2>2, <3>1, <3>2
    <3>5. f[i] \in Seq(B) /\ Len(f[i]) = st[i] + Len(ss[i])
      BY <3>3, <3>4
    <3>6. /\ \A k \in 1 .. Len(f[i - 1]) : f[i][k] = f[i - 1][k]
          /\ \A k \in 1 .. Len(ss[i]) : f[i][st[i] + k] = ss[i][k]
      <4> DEFINE a == f[i - 1]
                 b == ss[i]
      <4>1. a \in Seq(B) /\ b \in Seq(B) /\ f[i] = a \o b /\ st[i] = Len(a)
        BY <3>3, <3>4
      <4> HIDE DEF a, b
      <4>2. /\ \A k \in 1 .. Len(a) : (a \o b)[k] = a[k]
            /\ \A k \in 1 .. Len(b) : (a \o b)[Len(a) + k] = b[k]
        BY <4>1, ConcatFacts
      <4>3. /\ \A k \in 1 .. Len(a) : f[i][k] = a[k]
            /\ \A k \in 1 .. Len(b) : f[i][st[i] + k] = b[k]
        BY <4>1, <4>2
      <4> QED
        BY <4>3 DEF a, b
    <3>7. ASSUME NEW j \in 1 .. i, NEW k \in 1 .. Len(ss[j]) PROVE f[i][st[j] + k] = ss[j][k]
      <4>1. CASE j = i
        BY <3>6, <4>1
      <4>2. CASE j # i
        <5>1. j \in 1 .. (i - 1) /\ j \in 1 .. n
          BY <1>0, <2>2, <4>2, SMTT(30)
        <5>2. f[i - 1][st[j] + k] = ss[j][k]
          BY <3>2, <5>1
        <5>3. st[j] + k \in 1 .. Len(f[i - 1])
          <6>1. k \in Nat /\ k >= 1 /\ st[j] \in Nat /\ Len(ss[j]) \in Nat /\ k <= Len(ss[j])
            BY <1>0, <5>1
          <6>2. st[j] + Len(ss[j]) <= Len(f[i - 1])
            BY <3>2, <5>1
          <6> QED
            BY <3>3, <6>1, <6>2
        <5> QED
          BY <3>6, <5>2, <5>3
      <4> QED
        BY <4>1, <4>2
    <3>8. ASSUME NEW p \in 1 .. Len(f[i])
          PROVE  \E j \in 1 .. i : st[j] < p /\ p <= st[j] + Len(ss[j])
      <4>1. CASE p <= st[i]
        <5>1. p \in 1 .. Len(f[i - 1])
          BY <3>4, <3>5, <4>1
        <5>2. PICK j \in 1 .. (i - 1) : st[j] < p /\ p <= st[j] + Len(ss[j])
          BY <3>2, <5>1
        <5> QED
          BY <2>2, <5>2
      <4>2. CASE p > st[i]
        BY <1>0, <2>2, <3>5, <4>2
      <4> QED
        BY <3>4, <4>1, <4>2
    <3>9. ASSUME NEW j \in 1 .. i PROVE st[j] + Len(ss[j]) <= Len(f[i])
      <4>1. CASE j = i
        BY <3>5, <4>1
      <4>2. CASE j # i
        <5>1. j \in 1 .. (i - 1) /\ j \in 1 .. n
          BY <1>0, <2>2, <4>2
        <5>2. st[j] + Len(ss[j]) <= Len(f[i - 1]) /\ st[j] \in Nat /\ Len(ss[j]) \in Nat
          BY <1>0, <3>2, <5>1
        <5>3. Len(ss[i]) \in Nat /\ st[j] + Len(ss[j]) <= st[i] /\ Len(f[i]) = st[i] + Len(ss[i])
          BY <3>3, <3>4, <3>5, <5>2
        <5>4. \A a, b, c \in Nat : a <= b => a <= b + c
          OBVIOUS
        <5>5. st[j] + Len(ss[j]) \in Nat
          BY <5>2
        <5> HIDE DEF Good
        <5> QED
          BY <3>4, <5>3, <5>4, <5>5
      <4> QED
        BY <4>1, <4>2
    <3> QED
      BY <2>2, <3>5, <3>7, <3>8, <3>9
  <2> QED
    BY <2>3, <2>4
<1>6. n \in 1 .. n
  BY <1>0
<1>7. Good(n)
  <2> HIDE DEF Good
  <2> QED
    BY <1>5, <1>6
<1> QED
  BY <1>2, <1>7 DEF Flattened

(* What an overlay holds, and where.                                        *)
LEMMA OverlayFacts ==
  ASSUME NEW B, NEW f \in Seq(B), NEW s \in Seq(B), NEW at \in 0 .. Len(f)
  PROVE  /\ Flat!Overlay(f, at, s) \in Seq(B)
         /\ Len(Flat!Overlay(f, at, s)) = IF at + Len(s) > Len(f) THEN at + Len(s) ELSE Len(f)
         /\ \A i \in 1 .. Len(Flat!Overlay(f, at, s)) :
              Flat!Overlay(f, at, s)[i] = IF at < i /\ i <= at + Len(s) THEN s[i - at] ELSE f[i]
<1> DEFINE m == IF at + Len(s) > Len(f) THEN at + Len(s) ELSE Len(f)
           o == [i \in 1 .. m |-> IF at < i /\ i <= at + Len(s) THEN s[i - at] ELSE f[i]]
<1>1. m \in Nat /\ Len(s) \in Nat /\ Len(f) \in Nat
  OBVIOUS
<1>2. \A i \in 1 .. m : (IF at < i /\ i <= at + Len(s) THEN s[i - at] ELSE f[i]) \in B
  <2> SUFFICES ASSUME NEW i \in 1 .. m
               PROVE  (IF at < i /\ i <= at + Len(s) THEN s[i - at] ELSE f[i]) \in B
    OBVIOUS
  <2>1. CASE at < i /\ i <= at + Len(s)
    <3>1. i - at \in 1 .. Len(s)
      BY <1>1, <2>1
    <3> QED
      BY <2>1, <3>1
  <2>2. CASE ~ (at < i /\ i <= at + Len(s))
    <3>1. i \in 1 .. Len(f)
      BY <1>1, <2>2
    <3> QED
      BY <2>2, <3>1
  <2> QED
    BY <2>1, <2>2
<1>3. o \in Seq(B) /\ Len(o) = m
  <2> HIDE DEF m
  <2> QED
    BY <1>1, <1>2
<1> QED
  BY <1>3 DEF Flat!Overlay

(* tt is the pieces ss with s laid over the one at v, from offset at; only *)
(* the last piece may grow.                                                *)
Laid(B, n, ss, v, at, s, tt) ==
  /\ v \in 1 .. n /\ at \in 0 .. Len(ss[v]) /\ s \in Seq(B)
  /\ v # n => at + Len(s) <= Len(ss[v])
  /\ tt \in [1 .. n -> Seq(B)]
  /\ tt[v] = Flat!Overlay(ss[v], at, s)
  /\ \A i \in (1 .. n) \ {v} : tt[i] = ss[i]

(* Bytes laid over one piece land where they would in the whole, whether    *)
(* they stay within the piece or the piece is the last and grows.           *)
LEMMA FlattenOverlay ==
  ASSUME NEW B, NEW n, NEW ss, NEW st, Pieces(B, n, ss, st),
         NEW v, NEW at, NEW s, NEW tt, Laid(B, n, ss, v, at, s, tt)
  PROVE  Flatten(tt) = Flat!Overlay(Flatten(ss), st[v] + at, s)
<1> USE DEF Laid
<1> DEFINE F == Flatten(ss)
           G == Flatten(tt)
           O == Flat!Overlay(F, st[v] + at, s)
<1>0. /\ n \in Nat \ {0} /\ Len(s) \in Nat /\ at \in Nat /\ at <= Len(ss[v])
      /\ \A i \in 1 .. n : /\ ss[i] \in Seq(B) /\ Len(ss[i]) \in Nat /\ st[i] \in Nat
                           /\ tt[i] \in Seq(B) /\ Len(tt[i]) \in Nat
  BY SMTT(40) DEF Pieces
<1>1. /\ F \in Seq(B) /\ Len(F) = st[n] + Len(ss[n])
      /\ \A i \in 1 .. n : \A k \in 1 .. Len(ss[i]) : F[st[i] + k] = ss[i][k]
  BY FlattenFacts DEF Flattened
<1>2. ss[v] \in Seq(B) /\ Len(ss[v]) \in Nat /\ Len(s) \in Nat /\ st[v] \in Nat
  BY <1>0
<1>3. Len(tt[v]) = IF at + Len(s) > Len(ss[v]) THEN at + Len(s) ELSE Len(ss[v])
  <2>1. tt[v] = Flat!Overlay(ss[v], at, s) /\ at \in 0 .. Len(ss[v]) /\ s \in Seq(B)
    OBVIOUS
  <2> HIDE DEF Laid, F, G, O
  <2> QED
    <3>1. Len(Flat!Overlay(ss[v], at, s)) = IF at + Len(s) > Len(ss[v]) THEN at + Len(s) ELSE Len(ss[v])
      BY <1>2, <2>1, OverlayFacts, Zenon
    <3> QED
      BY <2>1, <3>1, Zenon
<1>4. Pieces(B, n, tt, st)
  <2>1. \A i \in 1 .. (n - 1) : st[i + 1] = st[i] + Len(tt[i])
    <3> SUFFICES ASSUME NEW i \in 1 .. (n - 1) PROVE st[i + 1] = st[i] + Len(tt[i])
      OBVIOUS
    <3>1. i \in 1 .. n /\ i # n /\ st[i + 1] = st[i] + Len(ss[i])
      BY SMTT(40), <1>0 DEF Pieces
    <3>2. CASE i = v
      BY SMTT(40), <1>0, <1>3, <3>1, <3>2
    <3>3. CASE i # v
      BY <3>1, <3>3
    <3> QED
      BY <3>2, <3>3
  <2> QED
    BY <2>1 DEF Pieces
<1>5. Flattened(B, n, tt, st, G)
  BY <1>4, FlattenFacts
<1>6. /\ G \in Seq(B) /\ Len(G) = st[n] + Len(tt[n])
      /\ \A i \in 1 .. n : \A k \in 1 .. Len(tt[i]) : G[st[i] + k] = tt[i][k]
      /\ \A p \in 1 .. Len(G) : \E i \in 1 .. n : st[i] < p /\ p <= st[i] + Len(tt[i])
  BY <1>5 DEF Flattened
<1>7. \A i, j \in 1 .. n : i < j => st[i] + Len(ss[i]) <= st[j]
  <2> DEFINE len == [i \in 1 .. n |-> Len(ss[i])]
  <2>1. \A i \in 1 .. n : st[i] \in Nat /\ len[i] \in Nat
    BY <1>0
  <2>2. \A i \in 1 .. (n - 1) : st[i + 1] = st[i] + len[i]
    BY <1>0 DEF Pieces
  <2>3. \A i, j \in 1 .. n : i < j => st[i] + len[i] <= st[j]
    <3> HIDE DEF len
    <3> QED
      BY <1>0, <2>1, <2>2, PiecesInOrder
  <2> QED
    BY <2>3
<1>8. st[v] + Len(ss[v]) <= Len(F) /\ st[n] \in Nat /\ Len(ss[n]) \in Nat /\ Len(F) \in Nat
  <2>1. st[n] \in Nat /\ Len(ss[n]) \in Nat /\ n \in 1 .. n
    BY <1>0
  <2>2. v # n => st[v] + Len(ss[v]) <= st[n]
    BY <1>0, <1>7, <2>1
  <2> QED
    BY <1>1, <1>2, <2>1, <2>2, SMTT(30)
<1> HIDE DEF F, G
<1>9. /\ O \in Seq(B)
      /\ Len(O) = IF st[v] + at + Len(s) > Len(F) THEN st[v] + at + Len(s) ELSE Len(F)
      /\ \A p \in 1 .. Len(O) :
           O[p] = IF st[v] + at < p /\ p <= st[v] + at + Len(s) THEN s[p - (st[v] + at)] ELSE F[p]
  <2> DEFINE x == st[v] + at
  <2>1. x \in 0 .. Len(F)
    <3>1. \A a, b, c, d \in Nat : a <= b /\ c + b <= d => c + a \in 0 .. d
      OBVIOUS
    <3> QED
      BY <1>0, <1>2, <1>8, <3>1
  <2> HIDE DEF x
  <2>2. /\ Flat!Overlay(F, x, s) \in Seq(B)
        /\ Len(Flat!Overlay(F, x, s)) = IF x + Len(s) > Len(F) THEN x + Len(s) ELSE Len(F)
        /\ \A p \in 1 .. Len(Flat!Overlay(F, x, s)) :
             Flat!Overlay(F, x, s)[p] = IF x < p /\ p <= x + Len(s) THEN s[p - x] ELSE F[p]
    BY <1>1, <2>1, OverlayFacts
  <2> QED
    BY <2>2 DEF x
<1> HIDE DEF O
<1>10. Len(O) = Len(G)
  <2>1. /\ Len(O) = IF st[v] + at + Len(s) > Len(F) THEN st[v] + at + Len(s) ELSE Len(F)
        /\ Len(F) = st[n] + Len(ss[n]) /\ Len(G) = st[n] + Len(tt[n])
    BY <1>1, <1>6, <1>9
  <2>2. CASE v = n
    <3>1. \A a, b, c, d \in Nat : (c + a + b > c + d) <=> (a + b > d)
      OBVIOUS
    <3>2. (st[v] + at + Len(s) > Len(F)) <=> (at + Len(s) > Len(ss[v]))
      BY <1>0, <1>2, <2>1, <2>2, <3>1, SMTT(30)
    <3>3. CASE at + Len(s) > Len(ss[v])
      BY <1>0, <1>2, <1>3, <2>1, <2>2, <3>2, <3>3
    <3>4. CASE ~ (at + Len(s) > Len(ss[v]))
      BY <1>0, <1>2, <1>3, <2>1, <2>2, <3>2, <3>4
    <3> QED
      BY <3>3, <3>4
  <2>3. CASE v # n
    <3>1. Len(tt[n]) = Len(ss[n])
      BY <1>0, <2>3
    <3>2. \A a, b, c, d, e \in Nat : a + b <= d /\ c + d <= e => ~ (c + a + b > e)
      OBVIOUS
    <3>3. ~ (st[v] + at + Len(s) > Len(F))
      BY <1>0, <1>2, <1>8, <2>3, <3>2
    <3> QED
      BY <2>1, <3>1, <3>3
  <2> QED
    BY <2>2, <2>3
<1>11. ASSUME NEW p \in 1 .. Len(G) PROVE O[p] = G[p]
  <2>1. PICK i \in 1 .. n : st[i] < p /\ p <= st[i] + Len(tt[i])
    BY <1>6
  <2> DEFINE k == p - st[i]
  <2>2. /\ st[i] \in Nat /\ tt[i] \in Seq(B) /\ ss[i] \in Seq(B) /\ p \in Nat
        /\ Len(tt[i]) \in Nat /\ Len(ss[i]) \in Nat
    BY SMTT(40), <1>0, <1>6
  <2>3. k \in 1 .. Len(tt[i]) /\ st[i] + k = p
    BY SMTT(40), <2>1, <2>2
  <2> HIDE DEF k
  <2>4. G[p] = tt[i][k]
    BY <1>6, <2>3
  <2>5. O[p] = IF st[v] + at < p /\ p <= st[v] + at + Len(s) THEN s[p - (st[v] + at)] ELSE F[p]
    BY <1>9, <1>10
  <2>6. CASE i = v
    <3>1. tt[v][k] = IF at < k /\ k <= at + Len(s) THEN s[k - at] ELSE ss[v][k]
      <4>1. tt[v] = Flat!Overlay(ss[v], at, s) /\ at \in 0 .. Len(ss[v]) /\ s \in Seq(B)
        OBVIOUS
      <4>2. k \in 1 .. Len(tt[v])
        BY <2>3, <2>6
      <4> HIDE DEF Laid, F, G, O
      <4>3. \A j \in 1 .. Len(tt[v]) :
              tt[v][j] = IF at < j /\ j <= at + Len(s) THEN s[j - at] ELSE ss[v][j]
        BY SMTT(40), <1>2, <4>1, OverlayFacts
      <4> QED
        BY <4>2, <4>3
    <3>2. CASE at < k /\ k <= at + Len(s)
      <4>1. st[v] + at < p /\ p <= st[v] + at + Len(s) /\ p - (st[v] + at) = k - at
        BY SMTT(40), <1>2, <2>3, <2>6, <3>2
      <4> QED
        BY <2>4, <2>5, <2>6, <3>1, <3>2, <4>1
    <3>3. CASE ~ (at < k /\ k <= at + Len(s))
      <4>1. ~ (st[v] + at < p /\ p <= st[v] + at + Len(s)) /\ k \in 1 .. Len(ss[v])
        BY SMTT(40), <1>2, <1>3, <2>3, <2>6, <3>3
      <4>2. F[p] = ss[v][k]
        BY <1>1, <2>3, <2>6, <4>1
      <4> QED
        BY <2>4, <2>5, <2>6, <3>1, <3>3, <4>1, <4>2
    <3> QED
      BY <3>2, <3>3
  <2>7. CASE i # v
    <3>1. tt[i] = ss[i]
      BY <2>7
    <3>2. F[p] = ss[i][k]
      BY <1>1, <2>3, <3>1
    <3>3. ~ (st[v] + at < p /\ p <= st[v] + at + Len(s))
      <4>1. CASE i < v
        <5>1. st[i] + Len(ss[i]) <= st[v]
          BY <1>7, <4>1
        <5> QED
          BY SMTT(40), <1>2, <2>1, <2>2, <3>1, <5>1
      <4>2. CASE v < i
        <5>1. st[v] + Len(ss[v]) <= st[i] /\ at + Len(s) <= Len(ss[v])
          BY <1>7, <4>2
        <5> QED
          BY <1>2, <2>1, <2>2, <5>1, SMTT(30)
      <4> QED
        BY <2>7, <4>1, <4>2
    <3> QED
      BY <2>4, <2>5, <3>1, <3>2, <3>3
  <2> QED
    BY <2>6, <2>7
<1>12. O = G
  BY <1>6, <1>9, <1>10, <1>11, SameSequence
<1> QED
  BY <1>12 DEF O, F, G

-----------------------------------------------------------------------------
(* The volumes of a sink.                                                   *)

(* The first n names of a directory hold bytes of B; len and st are their   *)
(* lengths and where each begins.                                           *)
Kept(B, n, dir, st, len) ==
  /\ n \in Nat \ {0}
  /\ \A i \in 1 .. n : /\ i \in DOMAIN dir /\ dir[i] \in Seq(B) /\ len[i] = Len(dir[i])
                       /\ st[i] = SumFunctionOnSet(len, 1 .. (i - 1))

(* Those names as one run of bytes.                                         *)
Whole(dir, n) == Flatten([i \in 1 .. n |-> dir[i]])

(* Lengths and starts are numbers, and each start follows from the last.    *)
LEMMA KeptFacts ==
  ASSUME NEW B, NEW n, NEW dir, NEW st, NEW len, Kept(B, n, dir, st, len)
  PROVE  /\ n \in Nat \ {0} /\ 1 \in 1 .. n /\ n \in 1 .. n
         /\ \A i \in 1 .. n : len[i] \in Nat /\ st[i] \in Nat /\ dir[i] \in Seq(B)
         /\ st[1] = 0
         /\ \A i \in 1 .. (n - 1) : st[i + 1] = st[i] + len[i]
<1>1. /\ n \in Nat \ {0}
      /\ \A i \in 1 .. n : /\ i \in DOMAIN dir /\ dir[i] \in Seq(B) /\ len[i] = Len(dir[i])
                           /\ st[i] = SumFunctionOnSet(len, 1 .. (i - 1))
  BY DEF Kept
<1>2. \A i \in 1 .. n : len[i] \in Nat
  BY <1>1
<1>3. ASSUME NEW i \in 1 .. n
      PROVE  /\ SumFunctionOnSet(len, 1 .. (i - 1)) \in Nat
             /\ SumFunctionOnSet(len, 1 .. i) = len[i] + SumFunctionOnSet(len, 1 .. (i - 1))
             /\ SumFunctionOnSet(len, 1 .. 0) = 0
  <2>1. i \in Nat /\ i # 0 /\ i - 1 \in Nat
    BY <1>1
  <2>2. (\A j \in 1 .. i : len[j] \in Nat) /\ (\A j \in 1 .. (i - 1) : len[j] \in Nat)
    BY <1>1, <1>2
  <2>3. SumFunctionOnSet(len, 1 .. (i - 1)) \in Nat
    BY <2>1, <2>2, SumOfPrefix
  <2> QED
    BY <2>1, <2>2, <2>3, SumOfPrefix
<1>4. 1 \in 1 .. n /\ n \in 1 .. n /\ n \in Nat
  BY <1>1
<1>5. \A i \in 1 .. n : st[i] \in Nat
  BY <1>1, <1>3
<1>6. st[1] = 0
  <2>1. st[1] = SumFunctionOnSet(len, 1 .. (1 - 1)) /\ 1 - 1 = 0
    BY <1>1, <1>4
  <2> QED
    BY <1>3, <1>4, <2>1
<1>7. ASSUME NEW i \in 1 .. (n - 1) PROVE st[i + 1] = st[i] + len[i]
  <2>1. i \in 1 .. n /\ i + 1 \in 1 .. n /\ (i + 1) - 1 = i
    BY <1>1
  <2>2. st[i + 1] = SumFunctionOnSet(len, 1 .. i) /\ st[i] = SumFunctionOnSet(len, 1 .. (i - 1))
    BY <1>1, <2>1
  <2>3. SumFunctionOnSet(len, 1 .. i) = len[i] + SumFunctionOnSet(len, 1 .. (i - 1))
    BY <1>3, <2>1
  <2>4. st[i] \in Nat /\ len[i] \in Nat
    BY <1>2, <1>5, <2>1
  <2> QED
    BY <2>2, <2>3, <2>4
<1> QED
  BY <1>1, <1>2, <1>4, <1>5, <1>6, <1>7

(* As pieces they follow each other.                                        *)
LEMMA KeptPieces ==
  ASSUME NEW B, NEW n, NEW dir, NEW st, NEW len, Kept(B, n, dir, st, len)
  PROVE  Pieces(B, n, [i \in 1 .. n |-> dir[i]], [i \in 1 .. n |-> st[i]])
<1> DEFINE ss == [i \in 1 .. n |-> dir[i]]
           tt == [i \in 1 .. n |-> st[i]]
<1>1. /\ n \in Nat \ {0} /\ 1 \in 1 .. n /\ st[1] = 0
      /\ \A i \in 1 .. n : st[i] \in Nat /\ dir[i] \in Seq(B)
      /\ \A i \in 1 .. (n - 1) : st[i + 1] = st[i] + len[i]
  BY KeptFacts
<1>2. \A i \in 1 .. n : len[i] = Len(dir[i])
  BY DEF Kept
<1>3. ss \in [1 .. n -> Seq(B)] /\ tt \in [1 .. n -> Nat]
  BY <1>1
<1>4. tt[1] = 0
  BY <1>1
<1>5. ASSUME NEW i \in 1 .. (n - 1) PROVE tt[i + 1] = tt[i] + Len(ss[i])
  <2>1. i \in 1 .. n /\ i + 1 \in 1 .. n
    BY <1>1
  <2>2. tt[i + 1] = st[i + 1] /\ tt[i] = st[i] /\ ss[i] = dir[i] /\ len[i] = Len(dir[i])
    BY <1>2, <2>1
  <2> QED
    BY <1>1, <2>2
<1> HIDE DEF ss, tt
<1>6. Pieces(B, n, ss, tt)
  BY <1>1, <1>3, <1>4, <1>5 DEF Pieces
<1> QED
  BY <1>6 DEF ss, tt

(* Sums up to a piece depend on the lengths before it alone.                *)
LEMMA SumBefore ==
  ASSUME NEW i \in Nat, NEW f, NEW g, \A j \in 1 .. (i - 1) : f[j] = g[j]
  PROVE  SumFunctionOnSet(f, 1 .. (i - 1)) = SumFunctionOnSet(g, 1 .. (i - 1))
<1>1. i - 1 \in Int
  OBVIOUS
<1>2. IsFiniteSet(1 .. (i - 1))
  BY <1>1, FS_Interval
<1> QED
  BY <1>2, SumAgree

(* The whole is as long as the start of the last piece and its length say.  *)
LEMMA WholeType ==
  ASSUME NEW B, NEW n, NEW dir, NEW st, NEW len, Kept(B, n, dir, st, len)
  PROVE  Whole(dir, n) \in Seq(B) /\ Len(Whole(dir, n)) = st[n] + len[n]
<1> DEFINE ss == [i \in 1 .. n |-> dir[i]]
           tt == [i \in 1 .. n |-> st[i]]
<1>1. n \in 1 .. n /\ Pieces(B, n, ss, tt)
  BY KeptFacts, KeptPieces
<1>2. ss[n] = dir[n] /\ tt[n] = st[n] /\ len[n] = Len(dir[n])
  BY <1>1 DEF Kept
<1> HIDE DEF ss, tt
<1>3. Flattened(B, n, ss, tt, Flatten(ss))
  BY <1>1, FlattenFacts
<1>4. Flatten(ss) \in Seq(B) /\ Len(Flatten(ss)) = tt[n] + Len(ss[n])
  BY <1>3 DEF Flattened
<1>5. Whole(dir, n) = Flatten(ss)
  BY DEF Whole, ss
<1> QED
  BY <1>2, <1>4, <1>5

(* A directory with s laid over its piece v, from offset at.                *)
Patched(n, dir, len, v, at, s, new) ==
  /\ v \in 1 .. n /\ at \in 0 .. len[v] /\ (v # n => at + Len(s) <= len[v])
  /\ DOMAIN dir \subseteq DOMAIN new
  /\ new[v] = Flat!Overlay(dir[v], at, s)
  /\ \A i \in (1 .. n) \ {v} : new[i] = dir[i]

(* Bytes laid over one piece are laid over the whole.                       *)
LEMMA WholeOverlay ==
  ASSUME NEW B, NEW n, NEW dir, NEW st, NEW len, Kept(B, n, dir, st, len),
         NEW v, NEW at, NEW s \in Seq(B), NEW new, Patched(n, dir, len, v, at, s, new)
  PROVE  Whole(new, n) = Flat!Overlay(Whole(dir, n), st[v] + at, s)
<1> DEFINE ss == [i \in 1 .. n |-> dir[i]]
           tt == [i \in 1 .. n |-> st[i]]
           nn == [i \in 1 .. n |-> new[i]]
<1>1. Pieces(B, n, ss, tt) /\ \A i \in 1 .. n : dir[i] \in Seq(B) /\ len[i] = Len(dir[i])
  <2>1. Pieces(B, n, ss, tt)
    BY KeptPieces
  <2>2. \A i \in 1 .. n : dir[i] \in Seq(B) /\ len[i] = Len(dir[i])
    BY DEF Kept
  <2> QED
    BY <2>1, <2>2
<1>2. /\ ss[v] = dir[v] /\ tt[v] = st[v] /\ nn[v] = new[v]
      /\ dir[v] \in Seq(B) /\ len[v] = Len(dir[v])
  BY <1>1 DEF Patched
<1>3. Flat!Overlay(dir[v], at, s) \in Seq(B)
  BY <1>2, OverlayFacts DEF Patched
<1>4. nn \in [1 .. n -> Seq(B)]
  BY <1>1, <1>3 DEF Patched
<1>5. \A i \in (1 .. n) \ {v} : nn[i] = ss[i]
  BY DEF Patched
<1>6. Whole(dir, n) = Flatten(ss) /\ Whole(new, n) = Flatten(nn)
  BY DEF Whole
<1> HIDE DEF ss, tt, nn
<1>7. at \in 0 .. Len(ss[v]) /\ (v # n => at + Len(s) <= Len(ss[v]))
      /\ nn[v] = Flat!Overlay(ss[v], at, s) /\ v \in 1 .. n
  BY <1>2 DEF Patched
<1>8. Flatten(nn) = Flat!Overlay(Flatten(ss), tt[v] + at, s)
  <2>1. Laid(B, n, ss, v, at, s, nn)
    BY <1>4, <1>5, <1>7 DEF Laid
  <2> QED
    BY <1>1, <2>1, FlattenOverlay
<1> QED
  BY <1>2, <1>6, <1>8

(* An empty piece at the end adds nothing to the whole.                     *)
LEMMA WholeGrows ==
  ASSUME NEW B, NEW n \in Nat \ {0}, NEW dir, NEW new, new[n + 1] = <<>>,
         \A i \in 1 .. n : new[i] = dir[i] /\ dir[i] \in Seq(B), Whole(dir, n) \in Seq(B)
  PROVE  Whole(new, n + 1) = Whole(dir, n)
<1> DEFINE ss == [i \in 1 .. n |-> dir[i]]
           nn == [i \in 1 .. n + 1 |-> new[i]]
           Solves(f, g, m) == f = [i \in 1 .. m |-> IF i = 1 THEN g[i] ELSE f[i - 1] \o g[i]]
           f == CHOOSE f : Solves(f, ss, n)
           h == CHOOSE h : Solves(h, nn, n + 1)
           Bad == {i \in 1 .. n : f[i] # h[i]}
<1>1. n \in Nat /\ n # 0 /\ n + 1 \in Nat /\ Len(ss) = n /\ Len(nn) = n + 1
  OBVIOUS
<1>2. Whole(dir, n) = f[n] /\ Whole(new, n + 1) = h[n + 1]
  <2>1. Whole(dir, n) = Flatten(ss) /\ Whole(new, n + 1) = Flatten(nn)
    BY SMTT(40) DEF Whole
  <2> HIDE DEF ss, nn
  <2> QED
    BY <1>1, <2>1 DEF Flatten
<1>3. Solves(f, ss, n) /\ Solves(h, nn, n + 1)
  <2> HIDE DEF ss, nn
  <2> QED
    BY <1>1, FlattenExists
<1>4. (\A i \in 1 .. n : ss[i] = dir[i]) /\ (\A i \in 1 .. n + 1 : nn[i] = new[i])
  OBVIOUS
<1> HIDE DEF f, h, ss, nn
<1>5. /\ \A i \in 1 .. n : f[i] = IF i = 1 THEN ss[i] ELSE f[i - 1] \o ss[i]
      /\ \A i \in 1 .. n + 1 : h[i] = IF i = 1 THEN nn[i] ELSE h[i - 1] \o nn[i]
  BY <1>3, Zenon
<1> HIDE DEF Solves
<1>6. \A i \in 1 .. n : f[i] = h[i]
  <2> SUFFICES ASSUME Bad # {} PROVE FALSE
    OBVIOUS
  <2>1. PICK i \in Bad : \A j \in Bad : i <= j
    <3>1. Bad \in SUBSET Nat
      OBVIOUS
    <3> HIDE DEF Bad
    <3> QED
      BY <3>1, LeastNat
  <2>2. i \in 1 .. n /\ i \in 1 .. n + 1 /\ f[i] # h[i] /\ ss[i] = nn[i]
    BY <1>1, <1>4
  <2>3. i # 1 => i - 1 \in 1 .. n /\ i - 1 \notin Bad
    <3> HIDE DEF Bad
    <3> QED
      BY <1>1, <2>1, <2>2
  <2>4. i # 1 => f[i - 1] = h[i - 1]
    BY <2>3
  <2> HIDE DEF Bad
  <2> QED
    BY <1>5, <2>2, <2>4
<1>7. h[n + 1] = h[n] \o <<>>
  <2>1. n + 1 \in 1 .. n + 1 /\ n + 1 # 1 /\ (n + 1) - 1 = n /\ nn[n + 1] = <<>>
    BY <1>1, <1>4
  <2> QED
    BY <1>5, <2>1
<1>8. h[n] = f[n] /\ f[n] \in Seq(B)
  BY <1>1, <1>2, <1>6
<1> QED
  BY <1>2, <1>7, <1>8

(* A piece that is overlaid is kept when its length is brought up to date.  *)
LEMMA KeptOverlay ==
  ASSUME NEW B, NEW n, NEW dir, NEW st, NEW len, Kept(B, n, dir, st, len),
         NEW v, NEW at, NEW s \in Seq(B), NEW new, Patched(n, dir, len, v, at, s, new),
         NEW now, now[v] = (IF at + Len(s) > len[v] THEN at + Len(s) ELSE len[v]),
         \A i \in (1 .. n) \ {v} : now[i] = len[i]
  PROVE  Kept(B, n, new, st, now)
<1> USE DEF Patched
<1>1. /\ n \in Nat \ {0} /\ st[1] = 0
      /\ \A i \in 1 .. n : /\ i \in DOMAIN new /\ dir[i] \in Seq(B) /\ len[i] = Len(dir[i])
                           /\ st[i] = SumFunctionOnSet(len, 1 .. (i - 1)) /\ len[i] \in Nat
  <2>1. st[1] = 0
    BY KeptFacts
  <2> QED
    BY <2>1 DEF Kept
<1>2. /\ Flat!Overlay(dir[v], at, s) \in Seq(B)
      /\ Len(Flat!Overlay(dir[v], at, s)) = IF at + Len(s) > len[v] THEN at + Len(s) ELSE len[v]
  BY <1>1, OverlayFacts
<1>3. ASSUME NEW i \in 1 .. n PROVE new[i] \in Seq(B) /\ now[i] = Len(new[i])
  BY <1>1, <1>2
<1>4. v # n => now[v] = len[v]
  BY <1>1
<1>5. ASSUME NEW i \in 1 .. n PROVE st[i] = SumFunctionOnSet(now, 1 .. (i - 1))
  <2>1. \A j \in 1 .. (i - 1) : len[j] = now[j]
    BY <1>1, <1>4
  <2>2. i \in Nat
    BY <1>1
  <2>3. SumFunctionOnSet(len, 1 .. (i - 1)) = SumFunctionOnSet(now, 1 .. (i - 1))
    BY <2>1, <2>2, SumBefore
  <2> QED
    BY <1>1, <2>3
<1> QED
  BY <1>1, <1>3, <1>5 DEF Kept

(* A piece that is patched within its length needs nothing else.            *)
LEMMA KeptPatched ==
  ASSUME NEW B, NEW n, NEW dir, NEW st, NEW len, Kept(B, n, dir, st, len),
         NEW v, NEW at, NEW s \in Seq(B), NEW new, Patched(n, dir, len, v, at, s, new),
         at + Len(s) <= len[v]
  PROVE  Kept(B, n, new, st, len)
<1>1. /\ n \in Nat \ {0} /\ v \in 1 .. n /\ at \in 0 .. Len(dir[v]) /\ at + Len(s) <= Len(dir[v])
      /\ dir[v] \in Seq(B) /\ len[v] = Len(dir[v])
  BY DEF Kept, Patched
<1>2. /\ Len(s) \in Nat /\ Flat!Overlay(dir[v], at, s) \in Seq(B)
      /\ Len(Flat!Overlay(dir[v], at, s)) = IF at + Len(s) > Len(dir[v]) THEN at + Len(s) ELSE Len(dir[v])
  BY <1>1, OverlayFacts
<1>3. Len(Flat!Overlay(dir[v], at, s)) = len[v]
  BY <1>1, <1>2
<1>4. /\ new[v] = Flat!Overlay(dir[v], at, s)
      /\ \A i \in 1 .. n : i \in DOMAIN new /\ (i # v => new[i] = dir[i])
  BY DEF Kept, Patched
<1>5. ASSUME NEW i \in 1 .. n PROVE i \in DOMAIN new /\ new[i] \in Seq(B) /\ len[i] = Len(new[i])
  <2>1. CASE i = v
    BY <1>2, <1>3, <1>4, <2>1
  <2>2. CASE i # v
    BY <1>4, <2>2 DEF Kept
  <2> QED
    BY <2>1, <2>2
<1> QED
  BY <1>5 DEF Kept

(* A directory, starts and lengths that have one more piece, empty.         *)
Grown(n, dir, st, len, new, at, now) ==
  /\ DOMAIN dir \cup {n + 1} \subseteq DOMAIN new
  /\ new[n + 1] = <<>> /\ \A i \in 1 .. n : new[i] = dir[i]
  /\ now[n + 1] = 0 /\ \A i \in 1 .. n : now[i] = len[i]
  /\ at[n + 1] = st[n] + len[n] /\ \A i \in 1 .. n : at[i] = st[i]

(* Such a set is kept too.                                                  *)
LEMMA KeptGrows ==
  ASSUME NEW B, NEW n, NEW dir, NEW st, NEW len, Kept(B, n, dir, st, len),
         NEW new, NEW at, NEW now, Grown(n, dir, st, len, new, at, now)
  PROVE  Kept(B, n + 1, new, at, now)
<1> USE DEF Grown
<1>1. /\ n \in Nat \ {0}
      /\ \A i \in 1 .. n : /\ i \in DOMAIN new /\ dir[i] \in Seq(B) /\ len[i] = Len(dir[i])
                           /\ st[i] = SumFunctionOnSet(len, 1 .. (i - 1)) /\ len[i] \in Nat
  BY DEF Kept
<1>2. ASSUME NEW i \in 1 .. n PROVE SumFunctionOnSet(now, 1 .. (i - 1)) = st[i]
  <2>1. \A j \in 1 .. (i - 1) : len[j] = now[j]
    BY <1>1
  <2>2. i \in Nat
    BY <1>1
  <2>3. SumFunctionOnSet(len, 1 .. (i - 1)) = SumFunctionOnSet(now, 1 .. (i - 1))
    BY <2>1, <2>2, SumBefore
  <2> QED
    BY <1>1, <2>3
<1>3. at[n + 1] = SumFunctionOnSet(now, 1 .. n)
  <2>1. n \in 1 .. n /\ n \in Nat /\ n # 0 /\ \A i \in 1 .. n : now[i] \in Nat
    BY <1>1
  <2>2. /\ SumFunctionOnSet(now, 1 .. n) = now[n] + SumFunctionOnSet(now, 1 .. (n - 1))
        /\ SumFunctionOnSet(now, 1 .. n) \in Nat
    BY <2>1, SumOfPrefix
  <2>3. SumFunctionOnSet(now, 1 .. (n - 1)) = st[n] /\ now[n] = len[n]
    BY <1>2, <2>1
  <2>4. len[n] \in Nat /\ st[n] \in Nat
    BY <2>1, KeptFacts
  <2> QED
    BY <2>2, <2>3, <2>4
<1>4. ASSUME NEW i \in 1 .. (n + 1)
      PROVE  /\ i \in DOMAIN new /\ new[i] \in Seq(B) /\ now[i] = Len(new[i])
             /\ at[i] = SumFunctionOnSet(now, 1 .. (i - 1))
  <2>1. CASE i \in 1 .. n
    BY <1>1, <1>2, <2>1
  <2>2. CASE i = n + 1
    <3>1. (n + 1) - 1 = n
      BY <1>1
    <3>2. <<>> \in Seq(B) /\ Len(<<>>) = 0
      OBVIOUS
    <3> QED
      BY <1>3, <2>2, <3>1, <3>2
  <2> QED
    BY <1>1, <2>1, <2>2
<1> QED
  BY <1>1, <1>4 DEF Kept

(* Every offset before the end is in one piece, the last that does not      *)
(* begin after it.                                                          *)
LEMMA PieceOf ==
  ASSUME NEW B, NEW n, NEW dir, NEW st, NEW len, Kept(B, n, dir, st, len),
         NEW p \in Nat, p < st[n] + len[n]
  PROVE  \E v \in 1 .. n : /\ st[v] <= p /\ p < st[v] + len[v]
                           /\ \A u \in 1 .. (v - 1) : p >= st[u] + len[u]
                           /\ {i \in 1 .. n : st[i] <= p} = 1 .. v
<1> DEFINE Ends == {v \in 1 .. n : p < st[v] + len[v]}
<1>1. /\ n \in Nat \ {0} /\ 1 \in 1 .. n /\ n \in 1 .. n /\ st[1] = 0
      /\ \A i \in 1 .. n : len[i] \in Nat /\ st[i] \in Nat
      /\ \A i \in 1 .. (n - 1) : st[i + 1] = st[i] + len[i]
  BY KeptFacts
<1>2. \A i, j \in 1 .. n : i < j => st[i] + len[i] <= st[j]
  BY <1>1, PiecesInOrder
<1>3. PICK v \in Ends : \A u \in Ends : v <= u
  <2>1. Ends \in SUBSET Nat /\ n \in Ends
    BY <1>1
  <2> HIDE DEF Ends
  <2> QED
    BY <2>1, LeastNat
<1>4. v \in 1 .. n /\ p < st[v] + len[v]
  OBVIOUS
<1>5. ASSUME NEW u \in 1 .. (v - 1) PROVE p >= st[u] + len[u]
  <2>1. u \in 1 .. n /\ ~ (v <= u) /\ u \notin Ends
    <3> HIDE DEF Ends
    <3> QED
      BY <1>1, <1>3, <1>4
  <2> QED
    BY <1>1, <2>1
<1> HIDE DEF Ends
<1>6. st[v] <= p
  <2>1. CASE v = 1
    BY <1>1, <2>1
  <2>2. CASE v # 1
    <3>1. v - 1 \in 1 .. (v - 1) /\ v - 1 \in 1 .. (n - 1) /\ (v - 1) + 1 = v
      BY <1>1, <1>4, <2>2
    <3>2. st[v] = st[v - 1] + len[v - 1] /\ p >= st[v - 1] + len[v - 1]
      BY <1>1, <1>5, <3>1
    <3> QED
      BY <3>2
  <2> QED
    BY <2>1, <2>2
<1>7. ASSUME NEW i \in 1 .. n PROVE st[i] <= p <=> i <= v
  <2>1. CASE i < v
    BY <1>1, <1>2, <1>4, <1>6, <2>1
  <2>2. CASE i = v
    BY <1>6, <2>2
  <2>3. CASE v < i
    BY <1>1, <1>2, <1>4, <2>3
  <2> QED
    BY <1>1, <1>4, <2>1, <2>2, <2>3
<1>8. {i \in 1 .. n : st[i] <= p} = 1 .. v
  BY <1>1, <1>4, <1>7
<1> QED
  BY <1>4, <1>5, <1>6, <1>8

(* A directory and lengths whose last piece has s after what it held.       *)
Filled(n, dir, len, s, new, now) ==
  /\ DOMAIN dir \subseteq DOMAIN new
  /\ new[n] = Flat!Overlay(dir[n], len[n], s) /\ \A i \in (1 .. n) \ {n} : new[i] = dir[i]
  /\ now[n] = len[n] + Len(s) /\ \A i \in (1 .. n) \ {n} : now[i] = len[i]

(* Bytes written at the end, into the last piece.                           *)
LEMMA KeptFilled ==
  ASSUME NEW B, NEW n, NEW dir, NEW st, NEW len, Kept(B, n, dir, st, len),
         NEW s \in Seq(B), NEW new, NEW now, Filled(n, dir, len, s, new, now)
  PROVE  /\ Kept(B, n, new, st, now)
         /\ Whole(new, n) = Flat!Overlay(Whole(dir, n), st[n] + len[n], s)
<1> USE DEF Filled
<1>1. n \in 1 .. n /\ len[n] \in Nat /\ len[n] \in 0 .. len[n] /\ Len(s) \in Nat
  <2>1. n \in 1 .. n /\ len[n] \in Nat
    BY KeptFacts
  <2> QED
    BY <2>1
<1>2. now[n] = IF len[n] + Len(s) > len[n] THEN len[n] + Len(s) ELSE len[n]
  BY <1>1
<1>3. Patched(n, dir, len, n, len[n], s, new)
  BY <1>1 DEF Patched
<1>4. Kept(B, n, new, st, now)
  BY <1>1, <1>2, <1>3, KeptOverlay
<1>5. Whole(new, n) = Flat!Overlay(Whole(dir, n), st[n] + len[n], s)
  <2> DEFINE a == len[n]
  <2>1. Patched(n, dir, len, n, a, s, new)
    BY <1>3
  <2> HIDE DEF a
  <2>2. Whole(new, n) = Flat!Overlay(Whole(dir, n), st[n] + a, s)
    BY <2>1, WholeOverlay
  <2> QED
    BY <2>2 DEF a
<1> QED
  BY <1>4, <1>5

(* A directory, starts and lengths that have one more piece, s.             *)
Extended(n, dir, st, len, s, new, at, now) ==
  /\ DOMAIN dir \cup {n + 1} \subseteq DOMAIN new
  /\ new[n + 1] = Flat!Overlay(<<>>, 0, s) /\ \A i \in 1 .. n : new[i] = dir[i]
  /\ now[n + 1] = Len(s) /\ \A i \in 1 .. n : now[i] = len[i]
  /\ at[n + 1] = st[n] + len[n] /\ \A i \in 1 .. n : at[i] = st[i]

(* Bytes written at the end, into a new piece.                              *)
LEMMA KeptExtended ==
  ASSUME NEW B, NEW n, NEW dir, NEW st, NEW len, Kept(B, n, dir, st, len),
         NEW s \in Seq(B), NEW new, NEW at, NEW now, Extended(n, dir, st, len, s, new, at, now)
  PROVE  /\ Kept(B, n + 1, new, at, now)
         /\ Whole(new, n + 1) = Flat!Overlay(Whole(dir, n), st[n] + len[n], s)
<1> DEFINE mid == [i \in DOMAIN dir \cup {n + 1} |-> IF i = n + 1 THEN <<>> ELSE dir[i]]
           midlen == [i \in 1 .. n + 1 |-> IF i = n + 1 THEN 0 ELSE len[i]]
<1>1. /\ n \in Nat \ {0} /\ n + 1 \in 1 .. (n + 1) /\ \A i \in 1 .. n : i # n + 1 /\ i \in DOMAIN dir
      /\ \A i \in 1 .. n : dir[i] \in Seq(B)
      /\ \A i \in 1 .. (n + 1) : i # n + 1 => i \in 1 .. n
      /\ 1 .. n \subseteq 1 .. (n + 1)
  <2>1. n \in Nat \ {0} /\ \A i \in 1 .. n : i \in DOMAIN dir /\ dir[i] \in Seq(B)
    BY DEF Kept
  <2> QED
    BY <2>1
<1>2. /\ mid[n + 1] = <<>> /\ \A i \in 1 .. n : mid[i] = dir[i]
      /\ DOMAIN mid = DOMAIN dir \cup {n + 1}
      /\ midlen[n + 1] = 0 /\ \A i \in 1 .. n : midlen[i] = len[i]
  BY <1>1
<1> HIDE DEF mid, midlen
<1>3. Kept(B, n + 1, mid, at, midlen)
  <2>1. Grown(n, dir, st, len, mid, at, midlen)
    BY <1>2 DEF Extended, Grown
  <2> QED
    BY <2>1, KeptGrows
<1>4. Whole(mid, n + 1) = Whole(dir, n)
  <2>1. Whole(dir, n) \in Seq(B)
    BY WholeType
  <2>2. n \in Nat \ {0} /\ mid[n + 1] = <<>> /\ \A i \in 1 .. n : mid[i] = dir[i] /\ dir[i] \in Seq(B)
    BY <1>1, <1>2
  <2> QED
    BY <2>1, <2>2, WholeGrows
<1>5. /\ new[n + 1] = Flat!Overlay(mid[n + 1], midlen[n + 1], s)
      /\ \A i \in (1 .. (n + 1)) \ {n + 1} : new[i] = mid[i] /\ now[i] = midlen[i]
      /\ now[n + 1] = midlen[n + 1] + Len(s)
      /\ DOMAIN mid \subseteq DOMAIN new
  BY <1>1, <1>2 DEF Extended
<1>6. /\ Kept(B, n + 1, new, at, now)
      /\ Whole(new, n + 1) = Flat!Overlay(Whole(mid, n + 1), at[n + 1] + midlen[n + 1], s)
  <2>1. Filled(n + 1, mid, midlen, s, new, now)
    BY <1>5 DEF Filled
  <2> QED
    BY <1>3, <2>1, KeptFilled
<1>7. at[n + 1] + midlen[n + 1] = st[n] + len[n]
  <2>1. st[n] \in Nat /\ len[n] \in Nat
    BY KeptFacts
  <2> QED
    BY <1>2, <2>1 DEF Extended
<1> QED
  BY <1>4, <1>6, <1>7

-----------------------------------------------------------------------------
(* The operators of the community modules, as these modules use them.       *)

(* The larger and the smaller of two numbers, as both modules compute them. *)
LEMMA Extremes ==
  ASSUME NEW a \in Nat, NEW b \in Nat
  PROVE  /\ Zip!Max({a, b}) = IF a > b THEN a ELSE b
         /\ SevenZ!Max({a, b}) = IF a > b THEN a ELSE b
         /\ Zip!Min({a, b}) = IF a < b THEN a ELSE b
         /\ SevenZ!Min({a, b}) = IF a < b THEN a ELSE b
<1> DEFINE Greatest == CHOOSE x \in {a, b} : \A y \in {a, b} : x >= y
           Least == CHOOSE x \in {a, b} : \A y \in {a, b} : x <= y
<1>1. Greatest = IF a > b THEN a ELSE b
  OBVIOUS
<1>2. Least = IF a < b THEN a ELSE b
  OBVIOUS
<1> QED
  BY <1>1, <1>2 DEF Zip!Max, SevenZ!Max, Zip!Min, SevenZ!Min

(* What is in range up to the smaller of two numbers is in range of both.   *)
LEMMA UpToMin ==
  ASSUME NEW a \in Nat, NEW b \in Nat
  PROVE  /\ \A k \in 1 .. Zip!Min({a, b}) : k \in Nat /\ 1 <= k /\ k <= a /\ k <= b
         /\ \A k \in 1 .. SevenZ!Min({a, b}) : k \in Nat /\ 1 <= k /\ k <= a /\ k <= b
<1> DEFINE m == IF a < b THEN a ELSE b
<1>1. Zip!Min({a, b}) = m /\ SevenZ!Min({a, b}) = m
  BY Extremes
<1>2. m \in Nat /\ m <= a /\ m <= b
  OBVIOUS
<1> HIDE DEF m
<1> QED
  BY <1>1, <1>2

(* One element of a sequence of numbers replaced.                           *)
LEMMA Replaced ==
  ASSUME NEW l \in Seq(Nat), NEW i \in 1 .. Len(l), NEW k \in Nat
  PROVE  /\ [l EXCEPT ![i] = @ + k] \in Seq(Nat)
         /\ Len([l EXCEPT ![i] = @ + k]) = Len(l)
         /\ [l EXCEPT ![i] = @ + k][i] = l[i] + k
         /\ \A j \in (1 .. Len(l)) \ {i} : [l EXCEPT ![i] = @ + k][j] = l[j]
OBVIOUS

(* One element added to a sequence of numbers.                              *)
LEMMA Appended ==
  ASSUME NEW l \in Seq(Nat), NEW n, n = Len(l), NEW x \in Nat
  PROVE  /\ Append(l, x) \in Seq(Nat) /\ Len(Append(l, x)) = n + 1
         /\ Append(l, x)[n + 1] = x /\ \A i \in 1 .. n : Append(l, x)[i] = l[i]
OBVIOUS

(* What a write of k bytes leaves of the record begun last.                 *)
LEMMA RecordLeft ==
  ASSUME NEW r \in [len : Nat, left : Nat], NEW k \in Nat,
         NEW q, q = [r EXCEPT !.left = IF @ > k THEN @ - k ELSE 0]
  PROVE  /\ q \in [len : Nat, left : Nat] /\ q.len = r.len
         /\ q.left \in Nat /\ r.left \in Nat
         /\ q.left > 0 => r.left > 0 /\ q.left + k = r.left
OBVIOUS

(* The overlays of both sinks are the overlay of one file.                  *)
LEMMA Overlays ==
  ASSUME NEW B, NEW f \in Seq(B), NEW at \in Nat, NEW C, NEW s \in Seq(C)
  PROVE  /\ Zip!Overlay(f, at, s) = Flat!Overlay(f, at, s)
         /\ SevenZ!Overlay(f, at, s) = Flat!Overlay(f, at, s)
<1>1. at + Len(s) \in Nat /\ Len(f) \in Nat
  OBVIOUS
<1> DEFINE m == at + Len(s)
           l == Len(f)
<1>2. /\ Zip!Max({m, l}) = IF m > l THEN m ELSE l
      /\ SevenZ!Max({m, l}) = IF m > l THEN m ELSE l
  <2> HIDE DEF m, l
  <2>1. m \in Nat /\ l \in Nat
    BY <1>1 DEF m, l
  <2> QED
    BY <2>1, Extremes
<1> QED
  BY <1>2 DEF Zip!Overlay, SevenZ!Overlay, Flat!Overlay

(* Their flattening is the one above.                                       *)
LEMMA Flattenings ==
  ASSUME NEW n \in Nat \ {0}, NEW dir
  PROVE  /\ Zip!FlattenSeq([i \in 1 .. n |-> dir[i]]) = Whole(dir, n)
         /\ SevenZ!FlattenSeq([i \in 1 .. n |-> dir[i]]) = Whole(dir, n)
<1> DEFINE ss == [i \in 1 .. n |-> dir[i]]
<1>1. Len(ss) # 0
  OBVIOUS
<1> HIDE DEF ss
<1>2. Zip!FlattenSeq(ss) = Flatten(ss) /\ SevenZ!FlattenSeq(ss) = Flatten(ss)
  BY <1>1 DEF Zip!FlattenSeq, SevenZ!FlattenSeq, Flatten
<1> QED
  BY <1>2 DEF Whole, ss

(* The writes the runs take: short sequences, of which a part is written.   *)
LEMMA Writes ==
  ASSUME NEW S, NEW m \in Nat
  PROVE  /\ Zip!SeqOf(S, m) = Flat!SeqOf(S, m) /\ SevenZ!SeqOf(S, m) = Flat!SeqOf(S, m)
         /\ \A buf \in Flat!SeqOf(S, m) :
              /\ buf \in Seq(S) /\ Len(buf) \in Nat
              /\ \A T : S \subseteq T => buf \in Flat!SeqOf(T, m)
              /\ \A k \in 1 .. Len(buf) : SubSeq(buf, 1, k) \in Seq(S) /\ Len(SubSeq(buf, 1, k)) = k
<1>1. Zip!SeqOf(S, m) = Flat!SeqOf(S, m) /\ SevenZ!SeqOf(S, m) = Flat!SeqOf(S, m)
  BY DEF Zip!SeqOf, SevenZ!SeqOf, Flat!SeqOf
<1>2. ASSUME NEW buf \in Flat!SeqOf(S, m)
      PROVE  /\ buf \in Seq(S) /\ Len(buf) \in Nat
             /\ \A T : S \subseteq T => buf \in Flat!SeqOf(T, m)
             /\ \A k \in 1 .. Len(buf) : SubSeq(buf, 1, k) \in Seq(S) /\ Len(SubSeq(buf, 1, k)) = k
  <2>1. PICK k \in 0 .. m : buf \in [1 .. k -> S]
    BY DEF Flat!SeqOf
  <2>2. buf \in Seq(S) /\ Len(buf) = k /\ k \in Nat
    BY <2>1
  <2>3. \A T : S \subseteq T => buf \in [1 .. k -> T]
    BY <2>1
  <2>4. \A T : S \subseteq T => buf \in Flat!SeqOf(T, m)
    BY <2>3 DEF Flat!SeqOf
  <2>5. \A j \in 1 .. Len(buf) : SubSeq(buf, 1, j) \in Seq(S) /\ Len(SubSeq(buf, 1, j)) = j
    BY <2>2
  <2> QED
    BY <2>2, <2>4, <2>5
<1> QED
  BY <1>1, <1>2

-----------------------------------------------------------------------------
(* The inductive invariant.                                                 *)

Writing == {"open", "marking", "closing"}

(* The vectors of a ZIP's sink are the pieces on disk, none larger than was *)
(* asked for; the first holds the signature, so the marker of a set of one  *)
(* volume replaces it; and what is left of a record fits the last piece,    *)
(* wherever the position is.                                                *)
ZipInv ==
  /\ Zip!TypeOK
  /\ phase \in Writing =>
       /\ Kept(Zip!Byte, Len(starts), files, starts, lengths)
       /\ \A i \in 1 .. Len(starts) : lengths[i] <= volume_size
       /\ lengths[1] > 0
       /\ position <= starts[Len(starts)] + lengths[Len(starts)]
  /\ phase = "marking" => Len(starts) = 1 /\ position = 0
  /\ record.left > 0 =>
       /\ Len(starts) # 0
       /\ record.len <= volume_size => lengths[Len(starts)] + record.left <= volume_size

(* A 7z's sink keeps no starts.                                             *)
StartsOf(len) == [i \in 1 .. Len(len) |-> SumFunctionOnSet(len, 1 .. (i - 1))]

SevenZInv ==
  /\ SevenZ!TypeOK
  /\ phase \in {"open", "split"} =>
       /\ Kept(Data, Len(lengths), files, StartsOf(lengths), lengths)
       /\ \A i \in 1 .. Len(lengths) :
            lengths[i] <= volume_size /\ (i < Len(lengths) => lengths[i] = volume_size)

IInv ==
  /\ format \in {"zip", "7z"}
  /\ format = "zip" => ZipInv
  /\ format = "7z" => SevenZInv

-----------------------------------------------------------------------------
(* The ZIP's sink: each action keeps ZipInv and is a step of one file.      *)

(* A write at the end fills the last volume or starts the next.             *)
LEMMA ZipWriteAtEnd ==
  ASSUME ZipInv, format = "zip", UNCHANGED format,
         NEW buf \in Zip!SeqOf(Data, MaxWrite), Zip!WriteAtEnd(buf)
  PROVE  ZipInv' /\ \E b \in Flat!SeqOf(Zip!Byte, MaxWrite) : Flat!Write(b)
<1> DEFINE n == Len(starts)
           size == volume_size
<1>1. /\ phase = "open" /\ phase' = "open" /\ size' = size /\ size \in Nat \ {0}
      /\ paths' = paths /\ archives' = archives
      /\ starts \in Seq(Nat) /\ lengths \in Seq(Nat) /\ Len(lengths) = n /\ position \in Nat
      /\ record \in [len : Nat, left : Nat]
      /\ \A k \in DOMAIN files : k \in Nat /\ files[k] \in Seq(Zip!Byte)
      /\ volume_size \in VolumeSizes /\ paths \in Seq(Nat) /\ archives \in 0 .. MaxArchives
  BY VolumeSizesAssumption DEF ZipInv, Zip!TypeOK, Zip!WriteAtEnd
<1>2. /\ Kept(Zip!Byte, n, files, starts, lengths)
      /\ \A i \in 1 .. n : lengths[i] <= size
      /\ lengths[1] > 0 /\ position <= starts[n] + lengths[n]
      /\ record.left > 0 => (record.len <= size => lengths[n] + record.left <= size)
  BY <1>1 DEF ZipInv, Writing
<1>3. /\ n \in Nat \ {0} /\ 1 \in 1 .. n /\ n \in 1 .. n
      /\ lengths[n] \in Nat /\ starts[n] \in Nat /\ files[n] \in Seq(Zip!Byte)
      /\ \A i \in 1 .. n : lengths[i] \in Nat
  BY <1>2, KeptFacts
<1>4. Zip!TotalLen = starts[n] + lengths[n] /\ position = starts[n] + lengths[n] /\ Zip!Last(lengths) = lengths[n]
  <2>1. Zip!TotalLen = starts[n] + lengths[n] /\ Zip!Last(lengths) = lengths[n]
    BY <1>1, <1>3 DEF Zip!TotalLen, Zip!Last
  <2>2. position >= Zip!TotalLen
    BY DEF Zip!WriteAtEnd
  <2> QED
    BY <1>1, <1>2, <1>3, <2>1, <2>2
<1>5. /\ buf \in Seq(Data) /\ Len(buf) \in Nat /\ buf \in Flat!SeqOf(Zip!Byte, MaxWrite)
      /\ \A k \in 1 .. Len(buf) : /\ SubSeq(buf, 1, k) \in Seq(Data) /\ SubSeq(buf, 1, k) \in Seq(Zip!Byte)
                                 /\ Len(SubSeq(buf, 1, k)) = k
  <2>1. Data \subseteq Zip!Byte /\ MaxWrite \in Nat
    BY BoundsAssumption DEF Zip!Byte
  <2>2. buf \in Flat!SeqOf(Data, MaxWrite)
    BY <2>1, Writes
  <2>3. \A s \in Seq(Data) : s \in Seq(Zip!Byte)
    BY <2>1
  <2> QED
    BY <2>1, <2>2, <2>3, Writes
(* What either branch gives is enough.                                      *)
<1>6. ASSUME NEW k \in 1 .. Len(buf), NEW m \in {n, n + 1}, Len(starts') = m,
             starts' \in Seq(Nat), lengths' \in Seq(Nat), Len(lengths') = m,
             Kept(Zip!Byte, m, files', starts', lengths'),
             Whole(files', m) = Flat!Overlay(Whole(files, n), position, SubSeq(buf, 1, k)),
             \A i \in 1 .. m : lengths'[i] <= size,
             lengths'[1] > 0,
             position' = position + k, position' = starts'[m] + lengths'[m],
             record' = [record EXCEPT !.left = IF @ > k THEN @ - k ELSE 0],
             record'.left > 0 => (record.len <= size => lengths'[m] + record'.left <= size),
             \A j \in DOMAIN files' : j \in Nat /\ files'[j] \in Seq(Zip!Byte)
      PROVE  ZipInv' /\ \E b \in Flat!SeqOf(Zip!Byte, MaxWrite) : Flat!Write(b)
  <2>1. m \in Nat \ {0} /\ k \in Nat
    BY <1>3
  <2>2. record' \in [len : Nat, left : Nat] /\ record'.len = record.len
    BY <1>1, <1>6, <2>1, RecordLeft
  <2>3. position' \in Nat
    BY <1>1, <1>6, <2>1, SMTT(30)
  <2>4. Zip!TypeOK'
    BY <1>1, <1>6, <2>2, <2>3 DEF Zip!TypeOK
  <2>5. position' <= starts'[m] + lengths'[m]
    BY <1>6, <2>3
  <2>6. ZipInv'
    BY <1>1, <1>6, <2>1, <2>2, <2>4, <2>5 DEF ZipInv, Writing
  <2>7. Content = Whole(files, n) /\ Content' = Whole(files', m)
    BY <1>1, <1>3, <1>6, <2>1, Flattenings DEF Content, Zip!Content, Zip!Volumes
  <2>8. Flat!Write(buf)
    BY <1>6, <2>7 DEF Flat!Write
  <2> QED
    BY <1>5, <2>6, <2>8
<1>7. CASE lengths[n] >= size
  <2>1. Zip!Fill(buf, Append(lengths, 0), Append(starts, Zip!TotalLen))
    BY <1>4, <1>7 DEF Zip!WriteAtEnd
  <2>2. /\ Len(Append(lengths, 0)) = n + 1 /\ Append(lengths, 0)[n + 1] = 0
        /\ n + 1 \in Nat /\ ~ (n + 1 <= Zip!Volumes)
        /\ \A i \in 1 .. n : Append(lengths, 0)[i] = lengths[i]
        /\ size - 0 = size
    BY SMTT(40), <1>1, <1>3 DEF Zip!Volumes
  <2>3. PICK k \in 1 .. Zip!Min({size - 0, Len(buf)}) :
          /\ files' = Zip!Put(files, n + 1, Zip!Overlay(<<>>, 0, SubSeq(buf, 1, k)))
          /\ lengths' = [Append(lengths, 0) EXCEPT ![n + 1] = @ + k]
          /\ starts' = Append(starts, Zip!TotalLen)
          /\ position' = position + k
          /\ record' = [record EXCEPT !.left = IF @ > k THEN @ - k ELSE 0]
    BY <2>1, <2>2 DEF Zip!Fill
  <2>4. k \in 1 .. Len(buf) /\ k \in 1 .. size /\ k \in Nat
    <3>1. size - 0 \in Nat /\ Len(buf) \in Nat /\ size - 0 = size
      BY <1>1, <1>5
    <3>2. \A j \in 1 .. Zip!Min({size - 0, Len(buf)}) : j \in Nat /\ 1 <= j /\ j <= size - 0 /\ j <= Len(buf)
      BY <3>1, UpToMin
    <3>3. k \in Nat /\ 1 <= k /\ k <= size - 0 /\ k <= Len(buf)
      BY <2>3, <3>2
    <3> QED
      BY <3>1, <3>3
  <2> DEFINE s == SubSeq(buf, 1, k)
  <2>5. s \in Seq(Data) /\ s \in Seq(Zip!Byte) /\ Len(s) = k
    BY <1>5, <2>4
  <2> HIDE DEF s
  <2>6. Zip!Overlay(<<>>, 0, s) = Flat!Overlay(<<>>, 0, s) /\ Flat!Overlay(<<>>, 0, s) \in Seq(Zip!Byte)
    <3>1. <<>> \in Seq(Zip!Byte) /\ 0 \in 0 .. Len(<<>>) /\ 0 \in Nat
      OBVIOUS
    <3> QED
      BY <2>5, <3>1, Overlays, OverlayFacts
  <2>7. /\ DOMAIN files' = DOMAIN files \cup {n + 1}
        /\ files'[n + 1] = Flat!Overlay(<<>>, 0, s)
        /\ \A i \in DOMAIN files : i # n + 1 => files'[i] = files[i]
    BY <2>3, <2>6 DEF Zip!Put, s
  <2>8. \A j \in DOMAIN files' : j \in Nat /\ files'[j] \in Seq(Zip!Byte)
    BY <1>1, <2>2, <2>6, <2>7
  <2>9. /\ lengths' \in Seq(Nat) /\ Len(lengths') = n + 1 /\ lengths'[n + 1] = k
        /\ \A i \in 1 .. n : lengths'[i] = lengths[i]
    <3> DEFINE l == Append(lengths, 0)
    <3>1. l \in Seq(Nat) /\ Len(l) = n + 1 /\ n + 1 \in 1 .. (n + 1) /\ k \in Nat
          /\ l[n + 1] = 0 /\ lengths' = [l EXCEPT ![n + 1] = @ + k]
          /\ \A i \in 1 .. n : l[i] = lengths[i] /\ i \in (1 .. (n + 1)) \ {n + 1}
      <4>1. lengths \in Seq(Nat) /\ Len(lengths) = n /\ 0 \in Nat
        BY <1>1
      <4>2. lengths' = [l EXCEPT ![n + 1] = @ + k]
        BY <2>3
      <4>3. n + 1 \in 1 .. (n + 1) /\ \A i \in 1 .. n : i \in (1 .. (n + 1)) \ {n + 1}
        BY <1>3
      <4>4. l \in Seq(Nat)
        BY <4>1
      <4> HIDE DEF l
      <4>5. Len(l) = n + 1 /\ l[n + 1] = 0 /\ \A i \in 1 .. n : l[i] = lengths[i]
        BY <2>2 DEF l
      <4> QED
        BY <2>4, <4>2, <4>3, <4>4, <4>5
    <3> HIDE DEF l
    <3>2. /\ lengths' \in Seq(Nat) /\ Len(lengths') = n + 1 /\ lengths'[n + 1] = l[n + 1] + k
          /\ \A i \in (1 .. (n + 1)) \ {n + 1} : lengths'[i] = l[i]
      BY <3>1, Replaced
    <3> QED
      BY <3>1, <3>2
  <2>10. /\ starts' \in Seq(Nat) /\ Len(starts') = n + 1 /\ starts'[n + 1] = starts[n] + lengths[n]
         /\ \A i \in 1 .. n : starts'[i] = starts[i]
    BY <1>1, <1>3, <1>4, <2>3
  <2>11. \A i \in 1 .. n : files'[i] = files[i]
    <3>1. \A i \in 1 .. n : i \in DOMAIN files /\ i # n + 1
      BY <1>2, <1>3 DEF Kept
    <3> QED
      BY <2>7, <3>1
  <2>12. /\ Kept(Zip!Byte, n + 1, files', starts', lengths')
         /\ Whole(files', n + 1) = Flat!Overlay(Whole(files, n), starts[n] + lengths[n], s)
    <3>1. Extended(n, files, starts, lengths, s, files', starts', lengths')
      BY <2>5, <2>7, <2>9, <2>10, <2>11 DEF Extended
    <3> QED
      BY <1>2, <2>5, <3>1, KeptExtended
  <2>13. /\ \A i \in 1 .. (n + 1) : lengths'[i] <= size
         /\ lengths'[1] > 0
    <3>1. \A i \in 1 .. (n + 1) : i \in 1 .. n \/ i = n + 1
      BY <1>3
    <3> QED
      BY SMTT(40), <1>2, <1>3, <2>4, <2>9, <3>1
  <2>14. position' = starts'[n + 1] + lengths'[n + 1]
    BY <1>3, <1>4, <2>3, <2>4, <2>9, <2>10
  <2>15. record'.left > 0 => (record.len <= size => lengths'[n + 1] + record'.left <= size)
    <3>1. /\ record.left \in Nat /\ record'.left \in Nat
          /\ record'.left > 0 => record.left > 0
      BY <1>1, <2>3, <2>4, RecordLeft
    <3> QED
      BY <1>1, <1>2, <1>3, <1>7, <3>1, SMTT(30)
  <2> QED
    BY <1>4, <1>6, <2>3, <2>4, <2>8, <2>9, <2>10, <2>12, <2>13, <2>14, <2>15 DEF s
<1>8. CASE ~ (lengths[n] >= size)
  <2>1. Zip!Fill(buf, lengths, starts)
    BY <1>4, <1>8 DEF Zip!WriteAtEnd
  <2>2. n \in DOMAIN files /\ n <= Zip!Volumes
    BY <1>2, <1>3 DEF Kept, Zip!Volumes
  <2>3. PICK k \in 1 .. Zip!Min({size - lengths[n], Len(buf)}) :
          /\ files' = Zip!Put(files, n, Zip!Overlay(files[n], lengths[n], SubSeq(buf, 1, k)))
          /\ lengths' = [lengths EXCEPT ![n] = @ + k]
          /\ starts' = starts
          /\ position' = position + k
          /\ record' = [record EXCEPT !.left = IF @ > k THEN @ - k ELSE 0]
    BY <1>1, <2>1, <2>2 DEF Zip!Fill
  <2>4. k \in 1 .. Len(buf) /\ k \in Nat /\ lengths[n] + k <= size
    <3>1. size \in Nat /\ size - lengths[n] \in Nat /\ Len(buf) \in Nat
      BY <1>1, <1>3, <1>5, <1>8, SMTT(30)
    <3>2. \A j \in 1 .. Zip!Min({size - lengths[n], Len(buf)}) :
            j \in Nat /\ 1 <= j /\ j <= size - lengths[n] /\ j <= Len(buf)
      BY <3>1, UpToMin
    <3>3. k \in Nat /\ 1 <= k /\ k <= size - lengths[n] /\ k <= Len(buf)
      BY <2>3, <3>2
    <3> QED
      BY <1>3, <3>1, <3>3
  <2> DEFINE s == SubSeq(buf, 1, k)
  <2>5. s \in Seq(Data) /\ s \in Seq(Zip!Byte) /\ Len(s) = k
    BY <1>5, <2>4
  <2> HIDE DEF s
  <2>6. /\ Zip!Overlay(files[n], lengths[n], s) = Flat!Overlay(files[n], lengths[n], s)
        /\ Flat!Overlay(files[n], lengths[n], s) \in Seq(Zip!Byte)
    <3>1. lengths[n] \in 0 .. Len(files[n])
      BY <1>2, <1>3 DEF Kept
    <3> QED
      BY SMTT(40), <1>3, <2>5, <3>1, Overlays, OverlayFacts
  <2>7. /\ DOMAIN files' = DOMAIN files
        /\ files'[n] = Flat!Overlay(files[n], lengths[n], s)
        /\ \A i \in DOMAIN files : i # n => files'[i] = files[i]
    BY <2>2, <2>3, <2>6 DEF Zip!Put, s
  <2>8. \A j \in DOMAIN files' : j \in Nat /\ files'[j] \in Seq(Zip!Byte)
    BY <1>1, <2>6, <2>7
  <2>9. /\ lengths' \in Seq(Nat) /\ Len(lengths') = n /\ lengths'[n] = lengths[n] + k
        /\ \A i \in (1 .. n) \ {n} : lengths'[i] = lengths[i]
    <3>1. lengths \in Seq(Nat) /\ n \in 1 .. Len(lengths) /\ Len(lengths) = n
      BY <1>1, <1>3
    <3>2. /\ [lengths EXCEPT ![n] = @ + k] \in Seq(Nat)
          /\ Len([lengths EXCEPT ![n] = @ + k]) = Len(lengths)
          /\ [lengths EXCEPT ![n] = @ + k][n] = lengths[n] + k
          /\ \A j \in (1 .. Len(lengths)) \ {n} : [lengths EXCEPT ![n] = @ + k][j] = lengths[j]
      BY <2>4, <3>1, Replaced
    <3> HIDE DEF n
    <3> QED
      BY <2>3, <3>1, <3>2
  <2>10. \A i \in (1 .. n) \ {n} : files'[i] = files[i]
    BY <1>2, <2>7 DEF Kept
  <2>11. /\ Kept(Zip!Byte, n, files', starts', lengths')
         /\ Whole(files', n) = Flat!Overlay(Whole(files, n), starts[n] + lengths[n], s)
    <3>1. lengths'[n] = lengths[n] + Len(s) /\ DOMAIN files \subseteq DOMAIN files'
      BY <2>5, <2>7, <2>9
    <3>2. Filled(n, files, lengths, s, files', lengths')
      BY <2>7, <2>9, <2>10, <3>1 DEF Filled
    <3> QED
      BY <1>2, <2>3, <2>5, <3>2, KeptFilled
  <2>12. /\ \A i \in 1 .. n : lengths'[i] <= size
         /\ lengths'[1] > 0
    <3>1. CASE n = 1
      BY <1>2, <1>3, <2>4, <2>9, <3>1
    <3>2. CASE n # 1
      BY <1>2, <1>3, <2>4, <2>9, <3>2
    <3> QED
      BY <3>1, <3>2
  <2>13. position' = starts'[n] + lengths'[n]
    BY <1>3, <1>4, <2>3, <2>4, <2>9
  <2>14. record'.left > 0 => (record.len <= size => lengths'[n] + record'.left <= size)
    <3>1. /\ record.left \in Nat /\ record'.left \in Nat
          /\ record'.left > 0 => record.left > 0 /\ record'.left + k = record.left
      <4>1. record \in [len : Nat, left : Nat] /\ k \in Nat
        BY <1>1, <2>4
      <4>2. record' = [record EXCEPT !.left = IF @ > k THEN @ - k ELSE 0]
        BY <2>3
      <4> QED
        BY <4>1, <4>2, RecordLeft
    <3>2. size \in Nat /\ lengths'[n] = lengths[n] + k /\ lengths[n] \in Nat /\ k \in Nat
      BY <1>1, <1>3, <2>4, <2>9
    <3>3. \A a, b, c, d \in Nat : a + (b + c) <= d => (a + c) + b <= d
      OBVIOUS
    <3> SUFFICES ASSUME record'.left > 0, record.len <= size PROVE lengths'[n] + record'.left <= size
      OBVIOUS
    <3>4. lengths[n] + record.left <= size /\ record'.left + k = record.left
      BY <1>2, <3>1
    <3> QED
      BY <3>1, <3>2, <3>3, <3>4
  <2> QED
    BY <1>1, <1>4, <1>6, <2>3, <2>4, <2>8, <2>9, <2>11, <2>12, <2>13, <2>14 DEF s
<1> QED
  BY <1>7, <1>8

(* The parts of ZipInv, once for the actions that follow.                   *)
LEMMA ZipTypes ==
  ASSUME ZipInv
  PROVE  /\ volume_size \in Nat \ {0} /\ volume_size \in VolumeSizes
         /\ starts \in Seq(Nat) /\ lengths \in Seq(Nat) /\ Len(lengths) = Len(starts)
         /\ position \in Nat /\ record \in [len : Nat, left : Nat]
         /\ \A k \in DOMAIN files : k \in Nat /\ files[k] \in Seq(Zip!Byte)
         /\ paths \in Seq(Nat) /\ archives \in 0 .. MaxArchives
         /\ Zip!NoRecord \in [len : Nat, left : Nat] /\ ~ (Zip!NoRecord.left > 0)
BY VolumeSizesAssumption DEF ZipInv, Zip!TypeOK, Zip!NoRecord

(* A sink that is open, marking or closing keeps its pieces in the directory.*)
LEMMA ZipPieces ==
  ASSUME ZipInv, phase \in Writing
  PROVE  /\ Kept(Zip!Byte, Len(starts), files, starts, lengths)
         /\ \A i \in 1 .. Len(starts) : lengths[i] <= volume_size
         /\ lengths[1] > 0
         /\ position <= starts[Len(starts)] + lengths[Len(starts)]
         /\ Zip!TotalLen = starts[Len(starts)] + lengths[Len(starts)]
         /\ Zip!Last(lengths) = lengths[Len(starts)]
         /\ Len(starts) \in Nat \ {0} /\ 1 \in 1 .. Len(starts) /\ Len(starts) \in 1 .. Len(starts)
         /\ starts[1] = 0
         /\ \A i \in 1 .. Len(starts) :
              /\ lengths[i] \in Nat /\ starts[i] \in Nat /\ i \in DOMAIN files
              /\ files[i] \in Seq(Zip!Byte) /\ lengths[i] = Len(files[i])
         /\ Zip!FlattenSeq([i \in 1 .. Len(starts) |-> files[i]]) = Whole(files, Len(starts))
         /\ Whole(files, Len(starts)) \in Seq(Zip!Byte)
         /\ Len(Whole(files, Len(starts))) = starts[Len(starts)] + lengths[Len(starts)]
<1>1. /\ Kept(Zip!Byte, Len(starts), files, starts, lengths)
      /\ \A i \in 1 .. Len(starts) : lengths[i] <= volume_size
      /\ lengths[1] > 0
      /\ position <= starts[Len(starts)] + lengths[Len(starts)]
  BY DEF ZipInv
<1>2. /\ Len(starts) \in Nat \ {0} /\ 1 \in 1 .. Len(starts) /\ Len(starts) \in 1 .. Len(starts)
      /\ starts[1] = 0
      /\ \A i \in 1 .. Len(starts) : lengths[i] \in Nat /\ starts[i] \in Nat
  BY <1>1, KeptFacts
<1>3. \A i \in 1 .. Len(starts) :
        /\ i \in DOMAIN files /\ files[i] \in Seq(Zip!Byte) /\ lengths[i] = Len(files[i])
  BY <1>1 DEF Kept
<1>4. /\ Zip!TotalLen = starts[Len(starts)] + lengths[Len(starts)]
      /\ Zip!Last(lengths) = lengths[Len(starts)]
  BY <1>2, ZipTypes DEF Zip!TotalLen, Zip!Last
<1>5. Zip!FlattenSeq([i \in 1 .. Len(starts) |-> files[i]]) = Whole(files, Len(starts))
  BY <1>2, Flattenings
<1>6. /\ Whole(files, Len(starts)) \in Seq(Zip!Byte)
      /\ Len(Whole(files, Len(starts))) = starts[Len(starts)] + lengths[Len(starts)]
  BY <1>1, WholeType
<1> QED
  BY <1>1, <1>2, <1>3, <1>4, <1>5, <1>6

(* VolumeAt finds the piece an offset before the end is in.                 *)
LEMMA ZipVolumeAt ==
  ASSUME ZipInv, phase \in Writing, position < Zip!TotalLen
  PROVE  LET v == Zip!VolumeAt(starts, position)
         IN  v \in 1 .. Len(starts) /\ starts[v] <= position /\ position < starts[v] + lengths[v]
<1> DEFINE n == Len(starts)
<1>1. Kept(Zip!Byte, n, files, starts, lengths) /\ position \in Nat /\ position < starts[n] + lengths[n]
  BY ZipPieces, ZipTypes
<1>2. n \in Nat /\ DOMAIN starts = 1 .. n
  BY ZipTypes
<1> HIDE DEF n
<1>3. PICK v \in 1 .. n : /\ starts[v] <= position /\ position < starts[v] + lengths[v]
                         /\ {i \in 1 .. n : starts[i] <= position} = 1 .. v
  BY <1>1, PieceOf
<1>4. Cardinality(1 .. v) = v /\ v # 0
  <2>1. v \in Int /\ v \in Nat /\ v # 0 /\ 1 <= v /\ v - 1 + 1 = v
    BY <1>2
  <2>2. Cardinality(1 .. v) = v - 1 + 1
    BY <2>1, FS_Interval
  <2> QED
    BY <2>1, <2>2
<1>5. Zip!VolumeAt(starts, position) = v
  <2>1. {i \in DOMAIN starts : starts[i] <= position} = 1 .. v
    BY <1>2, <1>3
  <2>2. Cardinality({i \in DOMAIN starts : starts[i] <= position}) = v
    BY <1>4, <2>1
  <2> QED
    <3> DEFINE below == Cardinality({i \in DOMAIN starts : starts[i] <= position})
    <3>1. Zip!VolumeAt(starts, position) = IF below = 0 THEN 1 ELSE below
      <4>1. \A S : Zip!Cardinality(S) = Cardinality(S)
        BY DEF Zip!Cardinality, Cardinality
      <4> QED
        BY <4>1 DEF Zip!VolumeAt
    <3> HIDE DEF below
    <3>2. below = v
      BY <2>2 DEF below
    <3> QED
      BY <1>4, <3>1, <3>2
<1> QED
  BY <1>3, <1>5 DEF n

(* A write before the end stays within the volume it is in.                 *)
LEMMA ZipWriteInPlace ==
  ASSUME ZipInv, format = "zip", UNCHANGED format,
         NEW buf \in Zip!SeqOf(Data, MaxWrite), Zip!WriteInPlace(buf)
  PROVE  ZipInv' /\ \E b \in Flat!SeqOf(Zip!Byte, MaxWrite) : Flat!Write(b)
<1> DEFINE n == Len(starts)
           v == Zip!VolumeAt(starts, position)
           at == position - starts[v]
<1>1. phase = "open" /\ phase \in Writing /\ position < Zip!TotalLen
  BY DEF Zip!WriteInPlace, Writing
<1>2. v \in 1 .. n /\ starts[v] <= position /\ position < starts[v] + lengths[v]
  BY <1>1, ZipVolumeAt
<1>3. /\ lengths[v] \in Nat /\ starts[v] \in Nat /\ position \in Nat /\ v \in DOMAIN files
      /\ files[v] \in Seq(Zip!Byte) /\ lengths[v] = Len(files[v])
      /\ Kept(Zip!Byte, n, files, starts, lengths)
  BY <1>1, <1>2, ZipPieces, ZipTypes
<1>4. PICK k \in 1 .. Zip!Min({lengths[v] - at, Len(buf)}) :
        /\ files' = [files EXCEPT ![v] = Zip!Overlay(@, at, SubSeq(buf, 1, k))]
        /\ position' = position + k
  BY DEF Zip!WriteInPlace
<1>5. record' = Zip!NoRecord /\ UNCHANGED <<phase, volume_size, starts, lengths, paths, archives>>
  BY DEF Zip!WriteInPlace
<1> HIDE DEF v
<1>6. at \in Nat /\ at <= lengths[v] /\ lengths[v] - at \in Nat /\ starts[v] + at = position
  BY <1>2, <1>3
<1> HIDE DEF at
<1>7. /\ buf \in Seq(Data) /\ Len(buf) \in Nat /\ buf \in Flat!SeqOf(Zip!Byte, MaxWrite)
      /\ \A j \in 1 .. Len(buf) : SubSeq(buf, 1, j) \in Seq(Data) /\ Len(SubSeq(buf, 1, j)) = j
  <2>1. Data \subseteq Zip!Byte /\ MaxWrite \in Nat
    BY BoundsAssumption DEF Zip!Byte
  <2>2. buf \in Flat!SeqOf(Data, MaxWrite)
    BY <2>1, Writes
  <2> QED
    BY <2>1, <2>2, Writes
<1>8. k \in Nat /\ k \in 1 .. Len(buf) /\ at + k <= lengths[v]
  <2>1. \A j \in 1 .. Zip!Min({lengths[v] - at, Len(buf)}) :
          j \in Nat /\ 1 <= j /\ j <= lengths[v] - at /\ j <= Len(buf)
    BY <1>6, <1>7, UpToMin
  <2>2. k \in Nat /\ 1 <= k /\ k <= lengths[v] - at /\ k <= Len(buf)
    BY <1>4, <2>1
  <2> QED
    BY <1>3, <1>6, <1>7, <2>2
<1> DEFINE s == SubSeq(buf, 1, k)
<1>9. s \in Seq(Data) /\ s \in Seq(Zip!Byte) /\ Len(s) = k
  <2>1. Data \subseteq Zip!Byte
    BY DEF Zip!Byte
  <2> QED
    BY <1>7, <1>8, <2>1
<1> HIDE DEF s
<1>10. /\ Zip!Overlay(files[v], at, s) = Flat!Overlay(files[v], at, s)
       /\ Flat!Overlay(files[v], at, s) \in Seq(Zip!Byte)
  <2>1. at \in 0 .. Len(files[v])
    BY <1>3, <1>6
  <2> QED
    BY <1>3, <1>6, <1>9, <2>1, Overlays, OverlayFacts
<1>11. /\ DOMAIN files' = DOMAIN files /\ DOMAIN files \subseteq DOMAIN files'
       /\ files'[v] = Flat!Overlay(files[v], at, s)
       /\ \A i \in DOMAIN files : i # v => files'[i] = files[i]
  BY <1>3, <1>4, <1>10 DEF s
<1>12. \A i \in (1 .. n) \ {v} : files'[i] = files[i]
  BY <1>3, <1>11 DEF Kept
<1>13. Patched(n, files, lengths, v, at, s, files')
  BY <1>2, <1>3, <1>6, <1>8, <1>9, <1>11, <1>12 DEF Patched
<1>14. Kept(Zip!Byte, n, files', starts, lengths)
  BY <1>3, <1>8, <1>9, <1>13, KeptPatched
<1>15. Whole(files', n) = Flat!Overlay(Whole(files, n), position, s)
  <2>1. Whole(files', n) = Flat!Overlay(Whole(files, n), starts[v] + at, s)
    BY <1>3, <1>9, <1>13, WholeOverlay
  <2> QED
    BY <1>6, <2>1
<1>16. /\ position' \in Nat /\ position' <= starts[n] + lengths[n]
  <2>1. Kept(Zip!Byte, n, files, starts, lengths) /\ n \in Nat
    BY <1>1, ZipPieces, ZipTypes
  <2>2. /\ \A i \in 1 .. n : starts[i] \in Nat /\ lengths[i] \in Nat
        /\ \A i \in 1 .. (n - 1) : starts[i + 1] = starts[i] + lengths[i]
        /\ n \in 1 .. n
    BY <2>1, KeptFacts
  <2>3. v # n => starts[v] + lengths[v] <= starts[n]
    <3>1. \A i, j \in 1 .. n : i < j => starts[i] + lengths[i] <= starts[j]
      BY <2>1, <2>2, PiecesInOrder
    <3> QED
      BY <1>2, <2>1, <2>2, <3>1
  <2>4. starts[n] \in Nat /\ lengths[n] \in Nat
    BY <2>2
  <2>5. position + k <= starts[v] + lengths[v] /\ position + k \in Nat /\ starts[v] + lengths[v] \in Nat
    <3>1. /\ lengths[v] \in Nat /\ starts[v] \in Nat /\ at \in Nat /\ k \in Nat
          /\ position = starts[v] + at /\ at + k <= lengths[v]
      BY <1>3, <1>6, <1>8
    <3> HIDE DEF n
    <3> QED
      BY <3>1
  <2>6. starts[v] + lengths[v] <= starts[n] + lengths[n]
    BY <1>3, <2>3, <2>4
  <2>7. \A a, b, c \in Nat : a <= b /\ b <= c => a <= c
    OBVIOUS
  <2>8. starts[n] + lengths[n] \in Nat
    BY <2>4
  <2> QED
    BY <1>4, <2>5, <2>6, <2>7, <2>8
<1>17. Zip!TypeOK'
  <2>1. \A j \in DOMAIN files' : j \in Nat /\ files'[j] \in Seq(Zip!Byte)
    BY <1>10, <1>11, ZipTypes
  <2> QED
    BY <1>1, <1>5, <1>16, <2>1, ZipTypes DEF Zip!TypeOK
<1>18. ZipInv'
  <2>1. /\ \A i \in 1 .. n : lengths[i] <= volume_size
        /\ lengths[1] > 0 /\ ~ (Zip!NoRecord.left > 0)
    BY <1>1, ZipPieces, ZipTypes
  <2> QED
    BY <1>1, <1>5, <1>14, <1>16, <1>17, <2>1 DEF ZipInv, Writing
<1>19. Flat!Write(buf)
  <2>1. n \in Nat \ {0}
    BY <1>1, ZipPieces
  <2>2. Content = Whole(files, n) /\ Content' = Whole(files', n)
    BY <1>1, <1>5, <2>1, Flattenings DEF Content, Zip!Content, Zip!Volumes
  <2>3. Content' = Flat!Overlay(Content, position, SubSeq(buf, 1, k))
    BY <1>15, <2>2 DEF s
  <2> QED
    BY <1>4, <1>8, <2>3 DEF Flat!Write
<1> QED
  BY <1>7, <1>18, <1>19

(* A seek changes the position, and forgets the record; nothing else.       *)
LEMMA ZipSeek ==
  ASSUME ZipInv, format = "zip", UNCHANGED format, NEW to \in Nat, Zip!Seek(to)
  PROVE  ZipInv' /\ Flat!Seek
<1> DEFINE n == Len(starts)
<1>1. /\ phase = "open" /\ phase \in Writing /\ to <= Zip!TotalLen /\ position' = to
      /\ record' = Zip!NoRecord
      /\ UNCHANGED <<files, phase, volume_size, starts, lengths, paths, archives>>
  BY DEF Zip!Seek, Writing
<1>2. to <= starts[n] + lengths[n] /\ position' \in Nat
  BY <1>1, ZipPieces
<1>3. Zip!TypeOK'
  BY <1>1, <1>2, ZipTypes DEF Zip!TypeOK
<1>4. ZipInv'
  BY <1>1, <1>2, <1>3, ZipPieces, ZipTypes DEF ZipInv, Writing
<1>5. Content = Whole(files, n) /\ Content' = Content
  BY <1>1, ZipPieces DEF Content, Zip!Content, Zip!Volumes
<1>6. position' \in 0 .. Len(Content)
  <2>1. Len(Content) = starts[n] + lengths[n] /\ Len(Content) \in Nat
    BY <1>1, <1>5, ZipPieces
  <2> QED
    BY <1>1, <1>2, <2>1
<1> QED
  BY <1>4, <1>5, <1>6 DEF Flat!Seek

(* A record that would not fit opens an empty volume: nothing is written.   *)
LEMMA ZipBeginRecord ==
  ASSUME ZipInv, format = "zip", UNCHANGED format, NEW len \in Nat, Zip!BeginRecord(len)
  PROVE  ZipInv' /\ UNCHANGED Flat!flat
<1> DEFINE n == Len(starts)
<1>1. /\ phase = "open" /\ phase \in Writing /\ position >= Zip!TotalLen
      /\ record' = [len |-> len, left |-> len]
      /\ UNCHANGED <<phase, volume_size, paths, archives>>
  BY DEF Zip!BeginRecord, Writing
<1>2. /\ n \in Nat \ {0} /\ lengths[n] \in Nat /\ starts[n] \in Nat
      /\ Zip!TotalLen = starts[n] + lengths[n] /\ Zip!Last(lengths) = lengths[n]
      /\ volume_size \in Nat
  BY <1>1, ZipPieces, ZipTypes
<1>3. position = starts[n] + lengths[n]
  BY <1>1, <1>2, ZipPieces, ZipTypes
<1>4. record' \in [len : Nat, left : Nat] /\ record'.left = len /\ record'.len = len
  BY <1>1
<1>5. CASE ~ (lengths[n] > 0 /\ lengths[n] + len > volume_size)
  <2>1. UNCHANGED <<files, starts, lengths, position>>
    BY <1>2, <1>5 DEF Zip!BeginRecord
  <2>2. Zip!TypeOK'
    BY <1>1, <1>4, <2>1, ZipTypes DEF Zip!TypeOK
  <2>3. len <= volume_size => lengths[n] + len <= volume_size
    BY <1>2, <1>5
  <2>4. ZipInv'
    BY <1>1, <1>2, <1>4, <2>1, <2>2, <2>3, ZipPieces DEF ZipInv, Writing
  <2>5. UNCHANGED Flat!flat
    BY <1>1, <2>1 DEF Flat!flat, Content, Zip!Content, Zip!Volumes
  <2> QED
    BY <2>4, <2>5
<1>6. CASE lengths[n] > 0 /\ lengths[n] + len > volume_size
  <2>1. /\ starts' = Append(starts, Zip!TotalLen) /\ lengths' = Append(lengths, 0)
        /\ files' = Zip!Put(files, n + 1, <<>>) /\ position' = Zip!TotalLen
    BY <1>2, <1>6 DEF Zip!BeginRecord, Zip!Volumes
  <2>2. /\ DOMAIN files' = DOMAIN files \cup {n + 1} /\ files'[n + 1] = <<>>
        /\ \A i \in DOMAIN files : i # n + 1 => files'[i] = files[i]
    BY <2>1 DEF Zip!Put
  <2>3. \A j \in DOMAIN files' : j \in Nat /\ files'[j] \in Seq(Zip!Byte)
    <3>1. <<>> \in Seq(Zip!Byte) /\ n + 1 \in Nat
      BY <1>2
    <3> QED
      BY <2>2, <3>1, ZipTypes
  <2>4. /\ lengths' \in Seq(Nat) /\ Len(lengths') = n + 1 /\ lengths'[n + 1] = 0
        /\ \A i \in 1 .. n : lengths'[i] = lengths[i]
    <3>1. lengths \in Seq(Nat) /\ Len(lengths) = n /\ 0 \in Nat
      BY ZipTypes
    <3> QED
      BY <2>1, <3>1, Appended
  <2>5. /\ starts' \in Seq(Nat) /\ Len(starts') = n + 1 /\ starts'[n + 1] = starts[n] + lengths[n]
        /\ \A i \in 1 .. n : starts'[i] = starts[i]
    <3>1. starts \in Seq(Nat) /\ Len(starts) = n /\ Zip!TotalLen \in Nat
      <4>1. Zip!TotalLen \in Nat
        BY <1>2
      <4> QED
        BY <4>1, ZipTypes
    <3>2. /\ starts' \in Seq(Nat) /\ Len(starts') = n + 1 /\ starts'[n + 1] = Zip!TotalLen
          /\ \A i \in 1 .. n : starts'[i] = starts[i]
      BY <2>1, <3>1, Appended
    <3> QED
      BY <1>2, <3>2
  <2>6. \A i \in 1 .. n : files'[i] = files[i] /\ files[i] \in Seq(Zip!Byte)
    <3>1. \A i \in 1 .. n : i \in DOMAIN files /\ i # n + 1 /\ files[i] \in Seq(Zip!Byte)
      BY <1>1, <1>2, ZipPieces
    <3> QED
      BY <2>2, <3>1
  <2>7. Kept(Zip!Byte, n + 1, files', starts', lengths')
    <3>1. Kept(Zip!Byte, n, files, starts, lengths)
      BY <1>1, ZipPieces
    <3>2. Grown(n, files, starts, lengths, files', starts', lengths')
      BY <2>2, <2>4, <2>5, <2>6 DEF Grown
    <3> QED
      BY <3>1, <3>2, KeptGrows
  <2>8. Whole(files', n + 1) = Whole(files, n)
    <3>1. Whole(files, n) \in Seq(Zip!Byte)
      BY <1>1, ZipPieces
    <3> QED
      BY <1>2, <2>2, <2>6, <3>1, WholeGrows
  <2>9. position' = position /\ position' \in Nat /\ position' <= starts'[n + 1] + lengths'[n + 1]
    BY <1>2, <1>3, <2>1, <2>4, <2>5
  <2>10. Zip!TypeOK'
    BY <1>1, <1>4, <2>3, <2>4, <2>5, <2>9, ZipTypes DEF Zip!TypeOK
  <2>11. /\ \A i \in 1 .. (n + 1) : lengths'[i] <= volume_size
         /\ lengths'[1] > 0
    <3>1. /\ \A i \in 1 .. (n + 1) : i \in 1 .. n \/ i = n + 1
          /\ 1 \in 1 .. n
      BY <1>2
    <3>2. (\A i \in 1 .. n : lengths[i] <= volume_size) /\ lengths[1] > 0
      BY <1>1, ZipPieces
    <3>3. 0 <= volume_size
      BY <1>2
    <3> QED
      BY <2>4, <3>1, <3>2, <3>3
  <2>12. len <= volume_size => lengths'[n + 1] + record'.left <= volume_size
    BY <1>2, <1>4, <2>4
  <2>13. ZipInv'
    BY <1>1, <1>2, <1>4, <2>4, <2>5, <2>7, <2>9, <2>10, <2>11, <2>12 DEF ZipInv, Writing
  <2>14. Content = Whole(files, n) /\ Content' = Whole(files', n + 1)
    <3>1. n + 1 \in Nat \ {0}
      BY <1>2
    <3> QED
      BY <1>1, <1>2, <2>5, <3>1, Flattenings DEF Content, Zip!Content, Zip!Volumes
  <2> QED
    BY <2>8, <2>9, <2>13, <2>14 DEF Flat!flat
<1> QED
  BY <1>5, <1>6

(* One piece alone is the whole.                                            *)
LEMMA WholeOfOne ==
  ASSUME NEW dir
  PROVE  Whole(dir, 1) = dir[1]
<1> DEFINE ss == [i \in 1 .. 1 |-> dir[i]]
           Solves(f) == f = [i \in 1 .. 1 |-> IF i = 1 THEN ss[i] ELSE f[i - 1] \o ss[i]]
           f == CHOOSE f : Solves(f)
<1>1. Len(ss) = 1 /\ ss[1] = dir[1] /\ 1 \in 1 .. 1
  OBVIOUS
<1> HIDE DEF ss
<1>2. Whole(dir, 1) = f[1]
  <2>1. Whole(dir, 1) = Flatten(ss)
    BY DEF Whole, ss
  <2> QED
    BY <1>1, <2>1 DEF Flatten
<1>3. Solves(f)
  <2>1. 1 \in Nat
    OBVIOUS
  <2> QED
    BY <2>1, FlattenExists
<1> HIDE DEF f
<1>4. f[1] = ss[1]
  <2>1. \A i \in 1 .. 1 : f[i] = IF i = 1 THEN ss[i] ELSE f[i - 1] \o ss[i]
    BY <1>3, Zenon
  <2> HIDE DEF Solves
  <2> QED
    BY <1>1, <2>1
<1> QED
  BY <1>1, <1>2, <1>4

(* A sink of one piece that holds c.                                        *)
LEMMA KeptOne ==
  ASSUME NEW B, NEW c \in Seq(B), NEW dir, 1 \in DOMAIN dir, dir[1] = c,
         NEW st, st[1] = 0, NEW len, len[1] = Len(c)
  PROVE  Kept(B, 1, dir, st, len) /\ Whole(dir, 1) = c
<1>1. SumFunctionOnSet(len, 1 .. (1 - 1)) = 0
  <2>1. 0 \in Nat /\ 1 - 1 = 0 /\ \A i \in 1 .. 0 : len[i] \in Nat
    OBVIOUS
  <2>2. SumFunctionOnSet(len, 1 .. 0) = 0
    BY <2>1, SumOfPrefix
  <2> QED
    BY <2>1, <2>2
<1>2. \A i \in 1 .. 1 : i = 1
  OBVIOUS
<1> QED
  BY <1>1, <1>2, WholeOfOne DEF Kept

(* finish goes back to the signature of a set of one volume ...             *)
LEMMA ZipFinishSeek ==
  ASSUME ZipInv, format = "zip", UNCHANGED format, Zip!FinishSeek
  PROVE  ZipInv' /\ (Flat!Seek \/ UNCHANGED Flat!flat)
<1> DEFINE n == Len(starts)
<1>1. /\ phase = "open" /\ phase \in Writing
      /\ UNCHANGED <<files, volume_size, starts, lengths, record, paths, archives>>
  BY DEF Zip!FinishSeek, Writing
<1>2. /\ n \in Nat \ {0} /\ lengths[n] \in Nat /\ starts[n] \in Nat
      /\ Content = Whole(files, n) /\ Len(Content) = starts[n] + lengths[n]
  <2>1. Content = Whole(files, n)
    BY <1>1, ZipPieces DEF Content, Zip!Content, Zip!Volumes
  <2> QED
    BY <1>1, <2>1, ZipPieces
<1>3. CASE n = 1
  <2>1. phase' = "marking" /\ position' = 0
    BY <1>3 DEF Zip!FinishSeek, Zip!Volumes
  <2>2. Zip!TypeOK'
    BY <1>1, <2>1, ZipTypes DEF Zip!TypeOK
  <2>3. 0 <= starts[n] + lengths[n]
    BY <1>2
  <2>4. ZipInv'
    BY <1>1, <1>3, <2>1, <2>2, <2>3, ZipPieces DEF ZipInv, Writing
  <2>5. Content' = Content
    BY <1>1, <2>1 DEF Content, Zip!Content, Zip!Volumes
  <2>6. position' \in 0 .. Len(Content)
    BY <1>2, <2>1
  <2> QED
    BY <2>4, <2>5, <2>6 DEF Flat!Seek
<1>4. CASE n # 1
  <2>1. phase' = "closing" /\ position' = position
    BY <1>4 DEF Zip!FinishSeek, Zip!Volumes
  <2>2. Zip!TypeOK'
    BY <1>1, <2>1, ZipTypes DEF Zip!TypeOK
  <2>3. ZipInv'
    BY <1>1, <2>1, <2>2, ZipPieces DEF ZipInv, Writing
  <2>4. Content' = Content
    BY <1>1, <2>1 DEF Content, Zip!Content, Zip!Volumes
  <2> QED
    BY <2>1, <2>3, <2>4 DEF Flat!flat
<1> QED
  BY <1>3, <1>4

(* ... and writes the marker over it.                                       *)
LEMMA ZipFinishMark ==
  ASSUME ZipInv, format = "zip", UNCHANGED format, Zip!FinishMark
  PROVE  ZipInv' /\ \E b \in Flat!SeqOf(Zip!Byte, MaxWrite) : Flat!Write(b)
<1> DEFINE s == <<Marker>>
<1>1. /\ phase = "marking" /\ phase' = "closing" /\ phase \in Writing /\ position' = 1
      /\ files' = [files EXCEPT ![1] = Zip!Overlay(@, 0, s)]
      /\ UNCHANGED <<volume_size, starts, lengths, record, paths, archives>>
  BY DEF Zip!FinishMark, Writing
<1>2. Len(starts) = 1 /\ position = 0
  BY <1>1 DEF ZipInv
<1>3. /\ Kept(Zip!Byte, 1, files, starts, lengths) /\ starts[1] = 0 /\ lengths[1] \in Nat
      /\ 1 \in DOMAIN files /\ files[1] \in Seq(Zip!Byte) /\ lengths[1] = Len(files[1])
      /\ lengths[1] > 0
  <2>1. 1 \in 1 .. Len(starts)
    BY <1>1, ZipPieces
  <2> QED
    BY <1>1, <1>2, <2>1, ZipPieces
<1>4. /\ s \in Seq(Zip!Byte) /\ Len(s) = 1 /\ SubSeq(s, 1, 1) = s
      /\ s \in Flat!SeqOf(Zip!Byte, MaxWrite)
  <2>1. Marker \in Zip!Byte /\ 1 \in 0 .. MaxWrite
    BY BoundsAssumption DEF Zip!Byte
  <2>2. s \in [1 .. 1 -> Zip!Byte]
    BY <2>1
  <2>3. s \in Flat!SeqOf(Zip!Byte, MaxWrite)
    BY <2>1, <2>2 DEF Flat!SeqOf
  <2>4. s \in Seq(Zip!Byte) /\ Len(s) = 1
    BY <2>1
  <2>5. SubSeq(s, 1, 1) = s
    <3>1. /\ SubSeq(s, 1, 1) \in Seq(Zip!Byte) /\ Len(SubSeq(s, 1, 1)) = Len(s)
          /\ \A k \in 1 .. Len(SubSeq(s, 1, 1)) : SubSeq(s, 1, 1)[k] = s[k]
      <4> HIDE DEF s
      <4> QED
        BY <2>4
    <3> HIDE DEF s
    <3> QED
      BY <2>4, <3>1, SameSequence
  <2> QED
    BY <2>3, <2>4, <2>5
<1> HIDE DEF s
<1>5. /\ Zip!Overlay(files[1], 0, s) = Flat!Overlay(files[1], 0, s)
      /\ Flat!Overlay(files[1], 0, s) \in Seq(Zip!Byte)
  <2>1. 0 \in 0 .. Len(files[1]) /\ 0 \in Nat
    BY <1>3
  <2> QED
    BY <1>3, <1>4, <2>1, Overlays, OverlayFacts
<1>6. /\ DOMAIN files' = DOMAIN files /\ files'[1] = Flat!Overlay(files[1], 0, s)
      /\ \A i \in DOMAIN files : i # 1 => files'[i] = files[i]
  BY <1>1, <1>3, <1>5
<1>7. Patched(1, files, lengths, 1, 0, s, files')
  <2>1. 1 \in 1 .. 1 /\ 0 \in 0 .. lengths[1] /\ (1 .. 1) \ {1} = {}
    BY <1>3
  <2> QED
    BY <1>6, <2>1 DEF Patched
<1>8. Kept(Zip!Byte, 1, files', starts, lengths)
  <2>1. 0 + Len(s) <= lengths[1]
    BY <1>3, <1>4
  <2> QED
    BY <1>3, <1>4, <1>7, <2>1, KeptPatched
<1>9. Whole(files', 1) = Flat!Overlay(Whole(files, 1), 0, s)
  <2> DEFINE at == 0
             n == 1
  <2>1. /\ Patched(n, files, lengths, n, at, s, files')
        /\ Kept(Zip!Byte, n, files, starts, lengths)
    BY <1>3, <1>7
  <2>2. starts[n] + at = 0
    BY <1>3
  <2> HIDE DEF at, n
  <2>3. Whole(files', n) = Flat!Overlay(Whole(files, n), starts[n] + at, s)
    BY <1>4, <2>1, WholeOverlay
  <2>4. Whole(files', n) = Flat!Overlay(Whole(files, n), 0, s)
    BY <2>2, <2>3
  <2> QED
    BY <2>4 DEF n
<1>10. Zip!TypeOK'
  <2>1. \A j \in DOMAIN files' : j \in Nat /\ files'[j] \in Seq(Zip!Byte)
    BY <1>5, <1>6, ZipTypes
  <2> QED
    BY <1>1, <2>1, ZipTypes DEF Zip!TypeOK
<1>11. ZipInv'
  <2>1. /\ \A i \in 1 .. Len(starts) : lengths[i] <= volume_size
        /\ record.left > 0 =>
             (record.len <= volume_size => lengths[Len(starts)] + record.left <= volume_size)
    BY <1>1 DEF ZipInv
  <2>2. position' <= starts[1] + lengths[1]
    BY <1>1, <1>3
  <2> QED
    BY <1>1, <1>2, <1>3, <1>8, <1>10, <2>1, <2>2 DEF ZipInv, Writing
<1>12. Flat!Write(s)
  <2>1. Len(starts) \in Nat \ {0}
    BY <1>2
  <2>2. Content = Whole(files, 1) /\ Content' = Whole(files', 1)
    <3>1. Content = Whole(files, Len(starts)) /\ Content' = Whole(files', Len(starts))
      <4>1. /\ phase \in {"open", "marking", "closing"} /\ phase' \in {"open", "marking", "closing"}
            /\ starts' = starts
        BY <1>1
      <4> QED
        BY <2>1, <4>1, Flattenings DEF Content, Zip!Content, Zip!Volumes
    <3> QED
      BY <1>2, <3>1
  <2>3. 1 \in 1 .. Len(s) /\ position' = position + 1
    BY <1>1, <1>2, <1>4
  <2>4. Content' = Flat!Overlay(Content, position, SubSeq(s, 1, 1))
    BY <1>2, <1>4, <1>9, <2>2
  <2> QED
    BY <2>3, <2>4 DEF Flat!Write
<1> QED
  BY <1>4, <1>11, <1>12

(* The last volume takes the archive's own name: the pieces, in the order   *)
(* finish returns them, hold what they held.                                *)
LEMMA ZipFinishRename ==
  ASSUME ZipInv, format = "zip", UNCHANGED format, Zip!FinishRename
  PROVE  ZipInv' /\ UNCHANGED Flat!flat
<1> DEFINE n == Len(starts)
           front == [i \in 1 .. n - 1 |-> i]
<1>1. /\ phase = "closing" /\ phase' = "split" /\ phase \in Writing
      /\ UNCHANGED <<volume_size, starts, lengths, position, record, archives>>
      /\ files' = Zip!Put([k \in DOMAIN files \ {n} |-> files[k]], 0, files[n])
      /\ paths' = Append(front, 0)
  BY DEF Zip!FinishRename, Zip!sink, Zip!Volumes, Zip!Base, Writing
<1>2. /\ n \in Nat \ {0} /\ n \in 1 .. n
      /\ \A i \in 1 .. n : i \in DOMAIN files /\ files[i] \in Seq(Zip!Byte)
  BY <1>1, ZipPieces
<1>3. front \in Seq(Nat) /\ Len(front) = n - 1
  BY <1>2
<1>4. /\ paths' \in Seq(Nat) /\ Len(paths') = n /\ paths'[n] = 0
      /\ \A i \in 1 .. (n - 1) : paths'[i] = i
  <2>1. n - 1 \in Nat /\ (n - 1) + 1 = n /\ 0 \in Nat
    BY <1>2
  <2>2. \A i \in 1 .. (n - 1) : front[i] = i
    OBVIOUS
  <2> HIDE DEF front
  <2>3. /\ Append(front, 0) \in Seq(Nat) /\ Len(Append(front, 0)) = (n - 1) + 1
        /\ Append(front, 0)[(n - 1) + 1] = 0
        /\ \A i \in 1 .. (n - 1) : Append(front, 0)[i] = front[i]
    BY <1>3, <2>1, Appended
  <2> HIDE DEF n
  <2> QED
    BY <1>1, <2>1, <2>2, <2>3
<1> HIDE DEF front
<1>5. /\ DOMAIN files' = (DOMAIN files \ {n}) \cup {0} /\ files'[0] = files[n]
      /\ \A k \in DOMAIN files \ {n} : k # 0 => files'[k] = files[k]
  BY <1>1 DEF Zip!Put
<1>6. \A j \in DOMAIN files' : j \in Nat /\ files'[j] \in Seq(Zip!Byte)
  BY <1>2, <1>5, ZipTypes
<1>7. Zip!TypeOK'
  BY <1>1, <1>4, <1>6, ZipTypes DEF Zip!TypeOK
<1>8. ZipInv'
  BY <1>1, <1>7 DEF ZipInv, Writing
<1>9. \A i \in 1 .. n : files'[paths'[i]] = files[i]
  <2> SUFFICES ASSUME NEW i \in 1 .. n PROVE files'[paths'[i]] = files[i]
    OBVIOUS
  <2>1. CASE i = n
    BY <1>4, <1>5, <2>1
  <2>2. CASE i # n
    <3>1. i \in 1 .. (n - 1) /\ i # 0 /\ i \in DOMAIN files \ {n}
      BY <1>2, <2>2
    <3> QED
      BY <1>4, <1>5, <3>1
  <2> QED
    BY <2>1, <2>2
<1>10. Content' = Content
  <2>1. [i \in DOMAIN paths' |-> files'[paths'[i]]] = [i \in 1 .. n |-> files[i]]
    <3>1. DOMAIN paths' = 1 .. n
      BY <1>4
    <3> QED
      BY <1>9, <3>1
  <2>2. Content = Zip!FlattenSeq([i \in 1 .. n |-> files[i]])
    BY <1>1 DEF Content, Zip!Content, Zip!Volumes
  <2>3. Content' = Zip!FlattenSeq([i \in DOMAIN paths' |-> files'[paths'[i]]])
    BY <1>1 DEF Content, Zip!Content
  <2> QED
    BY <2>1, <2>2, <2>3
<1> QED
  BY <1>1, <1>8, <1>10 DEF Flat!flat

(* An error leaves no file.                                                 *)
LEMMA ZipAbandon ==
  ASSUME ZipInv, format = "zip", UNCHANGED format, Zip!Abandon
  PROVE  ZipInv' /\ Flat!Create
<1>1. /\ phase' = "none" /\ starts' = <<>> /\ lengths' = <<>> /\ position' = 0
      /\ record' = Zip!NoRecord /\ UNCHANGED <<files, volume_size, paths, archives>>
  BY DEF Zip!Abandon
<1>2. <<>> \in Seq(Nat) /\ Len(<<>>) = 0 /\ 0 \in Nat
  OBVIOUS
<1>3. Zip!TypeOK'
  BY <1>1, <1>2, ZipTypes DEF Zip!TypeOK
<1>4. ZipInv'
  BY <1>1, <1>3, ZipTypes DEF ZipInv, Writing
<1>5. Content' = <<>>
  BY <1>1 DEF Content, Zip!Content
<1>6. <<>> \in Flat!SeqOf(Zip!Byte, 1)
  <2>1. <<>> \in [1 .. 0 -> Zip!Byte] /\ 0 \in 0 .. 1
    OBVIOUS
  <2> QED
    BY <2>1 DEF Flat!SeqOf
<1> QED
  BY <1>1, <1>2, <1>4, <1>5, <1>6 DEF Flat!Create

(* A plain archive over a set is a new file, empty to begin with.           *)
LEMMA ZipCreatePlain ==
  ASSUME ZipInv, format = "zip", UNCHANGED format, Zip!CreatePlain
  PROVE  ZipInv' /\ Flat!Create
<1>1. /\ phase' = "plain" /\ starts' = <<>> /\ lengths' = <<>> /\ position' = 0
      /\ record' = Zip!NoRecord /\ UNCHANGED volume_size
      /\ paths' = <<0>> /\ archives' = archives + 1 /\ archives < MaxArchives
  BY DEF Zip!CreatePlain, Zip!MayCreate, Zip!Base
<1>2. PICK c \in Zip!SeqOf(Data, MaxWrite) : files' = Zip!Put(files, 0, c)
  BY DEF Zip!CreatePlain, Zip!Base
<1>3. c \in Seq(Zip!Byte)
  <2>1. MaxWrite \in Nat /\ Data \subseteq Zip!Byte
    BY BoundsAssumption DEF Zip!Byte
  <2>2. c \in Seq(Data)
    BY <2>1, Writes
  <2> QED
    BY <2>1, <2>2
<1>4. \A j \in DOMAIN files' : j \in Nat /\ files'[j] \in Seq(Zip!Byte)
  BY <1>2, <1>3, ZipTypes DEF Zip!Put
<1>5. <<>> \in Seq(Nat) /\ Len(<<>>) = 0 /\ 0 \in Nat /\ <<0>> \in Seq(Nat)
  OBVIOUS
<1>6. archives' \in 0 .. MaxArchives
  BY <1>1, ZipTypes, BoundsAssumption
<1>7. Zip!TypeOK'
  BY <1>1, <1>4, <1>5, <1>6, ZipTypes DEF Zip!TypeOK
<1>8. ZipInv'
  BY <1>1, <1>7, ZipTypes DEF ZipInv, Writing
<1>9. Content' = <<>>
  BY <1>1 DEF Content, Zip!Content
<1>10. <<>> \in Flat!SeqOf(Zip!Byte, 1)
  <2>1. <<>> \in [1 .. 0 -> Zip!Byte] /\ 0 \in 0 .. 1
    OBVIOUS
  <2> QED
    BY <2>1 DEF Flat!SeqOf
<1> QED
  BY <1>1, <1>5, <1>8, <1>9, <1>10 DEF Flat!Create

(* A sink starts with the signature in its first volume.                    *)
LEMMA ZipCreateSplit ==
  ASSUME ZipInv, format = "zip", UNCHANGED format, Zip!CreateSplit
  PROVE  ZipInv' /\ Flat!Create
<1> DEFINE c == <<Signature>>
<1>1. /\ phase' = "open" /\ starts' = <<0>> /\ lengths' = <<1>> /\ position' = 1
      /\ record' = Zip!NoRecord /\ volume_size' \in VolumeSizes
      /\ files' = Zip!Put(files, 1, c)
      /\ paths' = <<>> /\ archives' = archives + 1 /\ archives < MaxArchives
  BY DEF Zip!CreateSplit, Zip!MayCreate
<1>2. c \in Seq(Zip!Byte) /\ Len(c) = 1 /\ c \in Flat!SeqOf(Zip!Byte, 1)
  <2>1. Signature \in Zip!Byte /\ 1 \in 0 .. 1
    BY DEF Zip!Byte
  <2>2. c \in [1 .. 1 -> Zip!Byte]
    BY <2>1
  <2>3. c \in Flat!SeqOf(Zip!Byte, 1)
    BY <2>1, <2>2 DEF Flat!SeqOf
  <2>4. c \in Seq(Zip!Byte) /\ Len(c) = 1
    BY <2>1
  <2> QED
    BY <2>3, <2>4
<1> HIDE DEF c
<1>3. /\ 1 \in DOMAIN files' /\ files'[1] = c
      /\ \A j \in DOMAIN files' : j \in Nat /\ files'[j] \in Seq(Zip!Byte)
  BY <1>1, <1>2, ZipTypes DEF Zip!Put
<1>4. /\ starts' \in Seq(Nat) /\ lengths' \in Seq(Nat) /\ Len(starts') = 1 /\ Len(lengths') = 1
      /\ starts'[1] = 0 /\ lengths'[1] = 1 /\ paths' \in Seq(Nat)
  BY <1>1
<1>5. Kept(Zip!Byte, 1, files', starts', lengths') /\ Whole(files', 1) = c
  <2>1. lengths'[1] = Len(c) /\ starts'[1] = 0
    BY <1>2, <1>4
  <2>2. Kept(Zip!Byte, 1, files', starts', lengths')
    BY <1>2, <1>3, <2>1, KeptOne
  <2> QED
    BY <1>3, <2>2, WholeOfOne
<1>6. archives' \in 0 .. MaxArchives
  BY <1>1, ZipTypes, BoundsAssumption
<1>7. Zip!TypeOK'
  BY <1>1, <1>3, <1>4, <1>6, ZipTypes DEF Zip!TypeOK
<1>8. ZipInv'
  <2>1. \A i \in 1 .. 1 : lengths'[i] <= volume_size'
    BY <1>1, <1>4, VolumeSizesAssumption
  <2>2. position' <= starts'[1] + lengths'[1] /\ lengths'[1] > 0
    BY <1>1, <1>4
  <2> QED
    BY <1>1, <1>4, <1>5, <1>7, <2>1, <2>2, ZipTypes DEF ZipInv, Writing
<1>9. Content' = c
  <2>1. Content' = Zip!FlattenSeq([i \in 1 .. Len(starts') |-> files'[i]])
    BY <1>1 DEF Content, Zip!Content, Zip!Volumes
  <2>2. Len(starts') \in Nat \ {0}
    BY <1>4
  <2>3. Content' = Whole(files', Len(starts'))
    BY <2>1, <2>2, Flattenings
  <2> QED
    BY <1>4, <1>5, <2>3
<1> QED
  BY <1>1, <1>2, <1>8, <1>9 DEF Flat!Create

-----------------------------------------------------------------------------
(* The 7z's sink: each action keeps SevenZInv and is a step of one file.    *)

(* The starts of a 7z are the sums of the lengths before.                   *)
LEMMA KeptStarts ==
  ASSUME NEW B, NEW n, NEW dir, NEW st, NEW len, Kept(B, n, dir, st, len), Len(len) = n
  PROVE  Kept(B, n, dir, StartsOf(len), len) /\ \A i \in 1 .. n : StartsOf(len)[i] = st[i]
BY DEF Kept, StartsOf

(* What the invariant says of the types of a 7z sink.                       *)
LEMMA SevenZTypes ==
  ASSUME SevenZInv
  PROVE  /\ volume_size \in Nat \ {0} /\ volume_size \in VolumeSizes
         /\ lengths \in Seq(Nat) /\ position \in Nat /\ archives \in 0 .. MaxArchives
         /\ \A k \in DOMAIN files : k \in Nat /\ files[k] \in Seq(Data)
BY VolumeSizesAssumption DEF SevenZInv, SevenZ!TypeOK

(* The sums that the model takes are sums over the vector of lengths.       *)
LEMMA SevenZSums ==
  /\ SevenZ!TotalLen = SumFunctionOnSet(lengths, DOMAIN lengths)
  /\ \A v : SevenZ!StartOf(v) = SumFunctionOnSet(lengths, 1 .. (v - 1))
BY DEF SevenZ!TotalLen, SevenZ!StartOf, SevenZ!MapThenSumSet, SevenZ!MapThenFoldSet,
       SumFunctionOnSet, FoldFunctionOnSet, MapThenFoldSet

(* All lengths sum up to where the last piece ends.                         *)
LEMMA KeptTotal ==
  ASSUME NEW B, NEW n, NEW dir, NEW st, NEW len, Kept(B, n, dir, st, len), DOMAIN len = 1 .. n
  PROVE  SumFunctionOnSet(len, DOMAIN len) = st[n] + len[n]
<1>1. /\ n \in Nat /\ n # 0 /\ n \in 1 .. n
      /\ \A i \in 1 .. n : len[i] \in Nat /\ st[i] \in Nat
  BY KeptFacts
<1>2. st[n] = SumFunctionOnSet(len, 1 .. (n - 1))
  BY <1>1 DEF Kept
<1>3. SumFunctionOnSet(len, 1 .. n) = len[n] + SumFunctionOnSet(len, 1 .. (n - 1))
  BY <1>1, SumOfPrefix
<1>4. len[n] + st[n] = st[n] + len[n]
  BY <1>1
<1> QED
  BY <1>2, <1>3, <1>4

(* A 7z sink that is open keeps its pieces in the directory.                *)
LEMMA SevenZPieces ==
  ASSUME SevenZInv, phase \in {"open", "split"}
  PROVE  /\ Kept(Data, Len(lengths), files, StartsOf(lengths), lengths)
         /\ \A i \in 1 .. Len(lengths) :
              lengths[i] <= volume_size /\ (i < Len(lengths) => lengths[i] = volume_size)
         /\ SevenZ!TotalLen = StartsOf(lengths)[Len(lengths)] + lengths[Len(lengths)]
         /\ \A v \in 1 .. Len(lengths) : SevenZ!StartOf(v) = StartsOf(lengths)[v]
         /\ SevenZ!Last(lengths) = lengths[Len(lengths)]
         /\ Len(lengths) \in Nat \ {0} /\ 1 \in 1 .. Len(lengths) /\ Len(lengths) \in 1 .. Len(lengths)
         /\ \A i \in 1 .. Len(lengths) :
              /\ lengths[i] \in Nat /\ StartsOf(lengths)[i] \in Nat /\ i \in DOMAIN files
              /\ files[i] \in Seq(Data) /\ lengths[i] = Len(files[i])
         /\ SevenZ!FlattenSeq([i \in 1 .. Len(lengths) |-> files[i]]) = Whole(files, Len(lengths))
         /\ Whole(files, Len(lengths)) \in Seq(Data)
         /\ Len(Whole(files, Len(lengths))) = StartsOf(lengths)[Len(lengths)] + lengths[Len(lengths)]
         /\ phase = "open" => position <= SevenZ!TotalLen
<1>1. /\ Kept(Data, Len(lengths), files, StartsOf(lengths), lengths)
      /\ \A i \in 1 .. Len(lengths) :
           lengths[i] <= volume_size /\ (i < Len(lengths) => lengths[i] = volume_size)
  BY DEF SevenZInv
<1>2. /\ Len(lengths) \in Nat \ {0} /\ 1 \in 1 .. Len(lengths) /\ Len(lengths) \in 1 .. Len(lengths)
      /\ \A i \in 1 .. Len(lengths) : lengths[i] \in Nat /\ StartsOf(lengths)[i] \in Nat
  BY <1>1, KeptFacts
<1>3. \A i \in 1 .. Len(lengths) :
        /\ i \in DOMAIN files /\ files[i] \in Seq(Data) /\ lengths[i] = Len(files[i])
  BY <1>1 DEF Kept
<1>4. SevenZ!TotalLen = StartsOf(lengths)[Len(lengths)] + lengths[Len(lengths)]
  <2>1. DOMAIN lengths = 1 .. Len(lengths)
    BY SevenZTypes
  <2> QED
    BY <1>1, <2>1, KeptTotal, SevenZSums
<1>5. \A v \in 1 .. Len(lengths) : SevenZ!StartOf(v) = StartsOf(lengths)[v]
  BY SevenZSums DEF StartsOf
<1>6. SevenZ!Last(lengths) = lengths[Len(lengths)]
  BY DEF SevenZ!Last
<1>7. SevenZ!FlattenSeq([i \in 1 .. Len(lengths) |-> files[i]]) = Whole(files, Len(lengths))
  BY <1>2, Flattenings
<1>8. /\ Whole(files, Len(lengths)) \in Seq(Data)
      /\ Len(Whole(files, Len(lengths))) = StartsOf(lengths)[Len(lengths)] + lengths[Len(lengths)]
  BY <1>1, WholeType
<1>9. phase = "open" => position <= SevenZ!TotalLen
  BY DEF SevenZInv, SevenZ!TypeOK
<1> QED
  BY <1>1, <1>2, <1>3, <1>4, <1>5, <1>6, <1>7, <1>8, <1>9

(* VolumeOf finds the piece an offset before the end is in.                 *)
LEMMA SevenZVolumeOf ==
  ASSUME SevenZInv, phase = "open", position < SevenZ!TotalLen
  PROVE  LET v == SevenZ!VolumeOf(position)
         IN  /\ v \in 1 .. Len(lengths) /\ StartsOf(lengths)[v] <= position
             /\ position < StartsOf(lengths)[v] + lengths[v]
<1> DEFINE n == Len(lengths)
           st == StartsOf(lengths)
           Is(v) == /\ v = n \/ position < SevenZ!StartOf(v) + lengths[v]
                    /\ \A u \in 1 .. v - 1 : position >= SevenZ!StartOf(u) + lengths[u]
           w == CHOOSE v \in 1 .. n : Is(v)
<1>1. /\ Kept(Data, n, files, st, lengths) /\ position \in Nat /\ position < st[n] + lengths[n]
      /\ n \in Nat \ {0} /\ \A v \in 1 .. n : SevenZ!StartOf(v) = st[v]
      /\ \A v \in 1 .. n : lengths[v] \in Nat /\ st[v] \in Nat
  BY SevenZPieces, SevenZTypes
<1>2. st[1] = 0 /\ \A i \in 1 .. (n - 1) : st[i + 1] = st[i] + lengths[i]
  BY <1>1, KeptFacts
<1>3. SevenZ!VolumeOf(position) = w
  BY DEF SevenZ!VolumeOf, SevenZ!Volumes
<1> HIDE DEF n, st
<1>4. \E v \in 1 .. n : Is(v)
  <2>1. PICK v \in 1 .. n : /\ st[v] <= position /\ position < st[v] + lengths[v]
                           /\ \A u \in 1 .. (v - 1) : position >= st[u] + lengths[u]
    BY <1>1, PieceOf
  <2>2. \A u \in 1 .. (v - 1) : u \in 1 .. n
    BY <1>1
  <2> QED
    BY <1>1, <2>1, <2>2
<1>5. w \in 1 .. n /\ Is(w)
  BY <1>4
<1> HIDE DEF w
<1>6. position < st[w] + lengths[w]
  BY <1>1, <1>5
<1>7. st[w] <= position
  <2>1. CASE w = 1
    BY <1>1, <1>2, <2>1
  <2>2. CASE w # 1
    <3>1. w - 1 \in 1 .. (w - 1) /\ w - 1 \in 1 .. (n - 1) /\ w - 1 \in 1 .. n /\ (w - 1) + 1 = w
      BY <1>1, <1>5, <2>2
    <3>2. position >= SevenZ!StartOf(w - 1) + lengths[w - 1]
      BY <1>5, <3>1
    <3>3. st[w] = st[w - 1] + lengths[w - 1] /\ SevenZ!StartOf(w - 1) = st[w - 1]
      BY <1>1, <1>2, <3>1
    <3> QED
      BY <1>1, <3>1, <3>2, <3>3
  <2> QED
    BY <2>1, <2>2
<1> QED
  BY <1>3, <1>5, <1>6, <1>7 DEF n, st

(* After a step the set's length is the sum of its volumes' lengths.        *)
LEMMA SevenZSumsNext == SevenZ!TotalLen' = SumFunctionOnSet(lengths', DOMAIN lengths')
BY DEF SevenZ!TotalLen, SevenZ!MapThenSumSet, SevenZ!MapThenFoldSet,
       SumFunctionOnSet, FoldFunctionOnSet, MapThenFoldSet

(* What is enough after a step that leaves n pieces, where st is where they *)
(* begin.                                                                   *)
LEMMA SevenZKept ==
  ASSUME SevenZInv, volume_size' \in VolumeSizes, phase' \in {"open", "split"},
         archives' \in 0 .. MaxArchives, position' \in Nat,
         \A k \in DOMAIN files' : k \in Nat /\ files'[k] \in Seq(Data),
         NEW n, lengths' \in Seq(Nat), Len(lengths') = n,
         NEW st, Kept(Data, n, files', st, lengths'),
         \A i \in 1 .. n : lengths'[i] <= volume_size' /\ (i < n => lengths'[i] = volume_size'),
         position' <= st[n] + lengths'[n]
  PROVE  SevenZInv'
<1>1. DOMAIN lengths' = 1 .. n
  OBVIOUS
<1>2. SevenZ!TotalLen' = st[n] + lengths'[n]
  BY <1>1, SevenZSumsNext, KeptTotal
<1>3. Kept(Data, n, files', StartsOf(lengths'), lengths')
  BY KeptStarts
<1>4. SevenZ!TypeOK'
  BY <1>2 DEF SevenZ!TypeOK
<1> QED
  BY <1>3, <1>4 DEF SevenZInv

(* A write at the end of a 7z set fills the last volume, or adds one.       *)
LEMMA SevenZWriteAtEnd ==
  ASSUME SevenZInv, format = "7z", UNCHANGED format,
         NEW buf \in SevenZ!SeqOf(Data, MaxWrite), SevenZ!WriteAtEnd(buf)
  PROVE  SevenZInv' /\ \E b \in Flat!SeqOf(Zip!Byte, MaxWrite) : Flat!Write(b)
<1> DEFINE n == Len(lengths)
           st == StartsOf(lengths)
           size == volume_size
<1>1. /\ phase = "open" /\ phase' = "open" /\ phase \in {"open", "split"} /\ position = SevenZ!TotalLen
      /\ volume_size' = volume_size /\ archives' = archives
  BY DEF SevenZ!WriteAtEnd
<1>2. /\ size \in Nat \ {0} /\ size \in VolumeSizes /\ lengths \in Seq(Nat) /\ position \in Nat
      /\ archives \in 0 .. MaxArchives
      /\ \A k \in DOMAIN files : k \in Nat /\ files[k] \in Seq(Data)
  BY SevenZTypes
<1>3. /\ Kept(Data, n, files, st, lengths)
      /\ \A i \in 1 .. n : lengths[i] <= size /\ (i < n => lengths[i] = size)
      /\ position = st[n] + lengths[n] /\ SevenZ!Last(lengths) = lengths[n]
      /\ n \in Nat \ {0} /\ 1 \in 1 .. n /\ n \in 1 .. n
      /\ \A i \in 1 .. n : lengths[i] \in Nat /\ st[i] \in Nat
      /\ n \in DOMAIN files /\ files[n] \in Seq(Data) /\ lengths[n] = Len(files[n])
  BY <1>1, SevenZPieces
<1>4. /\ buf \in Seq(Data) /\ Len(buf) \in Nat /\ buf \in Flat!SeqOf(Zip!Byte, MaxWrite)
      /\ \A j \in 1 .. Len(buf) : SubSeq(buf, 1, j) \in Seq(Data) /\ Len(SubSeq(buf, 1, j)) = j
  <2>1. Data \subseteq Zip!Byte /\ MaxWrite \in Nat
    BY BoundsAssumption DEF Zip!Byte
  <2>2. buf \in Flat!SeqOf(Data, MaxWrite)
    BY <2>1, Writes
  <2> QED
    BY <2>1, <2>2, Writes
<1> HIDE DEF st
(* What either branch gives is enough.                                      *)
<1>5. ASSUME NEW k \in 1 .. Len(buf), NEW m \in {n, n + 1}, NEW at,
             lengths' \in Seq(Nat), Len(lengths') = m,
             Kept(Data, m, files', at, lengths'),
             Whole(files', m) = Flat!Overlay(Whole(files, n), st[n] + lengths[n], SubSeq(buf, 1, k)),
             \A i \in 1 .. m : lengths'[i] <= size /\ (i < m => lengths'[i] = size),
             position' = position + k, position' = at[m] + lengths'[m],
             \A j \in DOMAIN files' : j \in Nat /\ files'[j] \in Seq(Data)
      PROVE  SevenZInv' /\ \E b \in Flat!SeqOf(Zip!Byte, MaxWrite) : Flat!Write(b)
  <2>1. m \in Nat \ {0} /\ k \in Nat
    BY <1>3
  <2>2. position' \in Nat /\ position' <= at[m] + lengths'[m]
    BY <1>2, <1>5, <2>1
  <2>3. SevenZInv'
    <3>1. /\ volume_size' \in VolumeSizes /\ phase' \in {"open", "split"}
          /\ archives' \in 0 .. MaxArchives
          /\ \A i \in 1 .. m : lengths'[i] <= volume_size' /\ (i < m => lengths'[i] = volume_size')
      BY <1>1, <1>2, <1>5
    <3> QED
      BY <1>5, <2>2, <3>1, SevenZKept
  <2>4. Content = Whole(files, n) /\ Content' = Whole(files', m)
    <3>1. phase \in {"open", "split"} /\ phase' \in {"open", "split"} /\ n \in Nat \ {0}
      BY <1>1, <1>3
    <3>2. Content = SevenZ!FlattenSeq([i \in 1 .. n |-> files[i]])
      BY <3>1 DEF Content, SevenZ!Content, SevenZ!Volumes
    <3>3. Content' = SevenZ!FlattenSeq([i \in 1 .. Len(lengths') |-> files'[i]])
      BY <3>1 DEF Content, SevenZ!Content, SevenZ!Volumes
    <3> QED
      BY <1>5, <2>1, <3>1, <3>2, <3>3, Flattenings
  <2>5. Content' = Flat!Overlay(Content, position, SubSeq(buf, 1, k))
    BY <1>3, <1>5, <2>4
  <2>6. Flat!Write(buf)
    BY <1>5, <2>5 DEF Flat!Write
  <2> QED
    BY <1>4, <2>3, <2>6
<1>6. CASE lengths[n] >= size
  <2> DEFINE l == Append(lengths, 0)
  <2>1. /\ l \in Seq(Nat) /\ Len(l) = n + 1 /\ l[n + 1] = 0
        /\ \A i \in 1 .. n : l[i] = lengths[i]
    BY <1>2, Appended
  <2>2. n + 1 \in Nat /\ n + 1 # n /\ n + 1 \in 1 .. (n + 1) /\ SevenZ!Volumes = n
    BY <1>3 DEF SevenZ!Volumes
  <2>3. PICK k \in 1 .. SevenZ!Min({size - 0, Len(buf)}) :
          /\ files' = SevenZ!Put(files, n + 1, SevenZ!Overlay(<<>>, 0, SubSeq(buf, 1, k)))
          /\ lengths' = [l EXCEPT ![n + 1] = @ + k]
          /\ position' = position + k
    <3>1. (IF SevenZ!Last(lengths) >= volume_size THEN Append(lengths, 0) ELSE lengths) = l
      BY <1>3, <1>6
    <3> HIDE DEF l
    <3> QED
      BY <2>1, <2>2, <3>1 DEF SevenZ!WriteAtEnd
  <2>4. k \in 1 .. Len(buf) /\ k \in 1 .. size /\ k \in Nat
    <3>1. size - 0 \in Nat /\ Len(buf) \in Nat /\ size - 0 = size
      BY <1>2, <1>4
    <3>2. \A j \in 1 .. SevenZ!Min({size - 0, Len(buf)}) :
            j \in Nat /\ 1 <= j /\ j <= size - 0 /\ j <= Len(buf)
      BY <3>1, UpToMin
    <3>3. k \in Nat /\ 1 <= k /\ k <= size - 0 /\ k <= Len(buf)
      BY <2>3, <3>2
    <3> QED
      BY <3>1, <3>3
  <2> DEFINE s == SubSeq(buf, 1, k)
             at == [i \in 1 .. n + 1 |-> IF i = n + 1 THEN st[n] + lengths[n] ELSE st[i]]
  <2>5. s \in Seq(Data) /\ Len(s) = k
    BY <1>4, <2>4
  <2> HIDE DEF s, l
  <2>6. SevenZ!Overlay(<<>>, 0, s) = Flat!Overlay(<<>>, 0, s) /\ Flat!Overlay(<<>>, 0, s) \in Seq(Data)
    <3>1. <<>> \in Seq(Data) /\ 0 \in 0 .. Len(<<>>) /\ 0 \in Nat
      OBVIOUS
    <3> QED
      BY <2>5, <3>1, Overlays, OverlayFacts
  <2>7. /\ DOMAIN files' = DOMAIN files \cup {n + 1}
        /\ files'[n + 1] = Flat!Overlay(<<>>, 0, s)
        /\ \A i \in DOMAIN files : i # n + 1 => files'[i] = files[i]
    BY <2>3, <2>6 DEF SevenZ!Put, s
  <2>8. \A j \in DOMAIN files' : j \in Nat /\ files'[j] \in Seq(Data)
    BY <1>2, <2>2, <2>6, <2>7
  <2>9. /\ lengths' \in Seq(Nat) /\ Len(lengths') = n + 1 /\ lengths'[n + 1] = k
        /\ \A i \in 1 .. n : lengths'[i] = lengths[i]
    <3>1. \A i \in 1 .. n : i \in (1 .. (n + 1)) \ {n + 1}
      BY <1>3
    <3>2. /\ lengths' \in Seq(Nat) /\ Len(lengths') = n + 1 /\ lengths'[n + 1] = l[n + 1] + k
          /\ \A i \in (1 .. (n + 1)) \ {n + 1} : lengths'[i] = l[i]
      BY <2>1, <2>2, <2>3, <2>4, Replaced
    <3> QED
      BY <2>1, <2>4, <3>1, <3>2
  <2>10. \A i \in 1 .. n : files'[i] = files[i]
    <3>1. \A i \in 1 .. n : i \in DOMAIN files /\ i # n + 1
      BY <1>3 DEF Kept
    <3> QED
      BY <2>7, <3>1
  <2>11. at[n + 1] = st[n] + lengths[n] /\ \A i \in 1 .. n : at[i] = st[i]
    BY <2>2
  <2> HIDE DEF at
  <2>12. /\ Kept(Data, n + 1, files', at, lengths')
         /\ Whole(files', n + 1) = Flat!Overlay(Whole(files, n), st[n] + lengths[n], s)
    <3>1. Extended(n, files, st, lengths, s, files', at, lengths')
      BY <2>5, <2>7, <2>9, <2>10, <2>11 DEF Extended
    <3> QED
      BY <1>3, <2>5, <3>1, KeptExtended
  <2>13. \A i \in 1 .. (n + 1) : lengths'[i] <= size /\ (i < n + 1 => lengths'[i] = size)
    <3> SUFFICES ASSUME NEW i \in 1 .. (n + 1)
                 PROVE  lengths'[i] <= size /\ (i < n + 1 => lengths'[i] = size)
      OBVIOUS
    <3>1. CASE i = n + 1
      BY <2>4, <2>9, <3>1
    <3>2. CASE i = n
      BY <1>2, <1>3, <1>6, <2>9, <3>2
    <3>3. CASE i # n /\ i # n + 1
      <4>1. i \in 1 .. n /\ i < n
        BY <1>3, <3>3
      <4> QED
        BY <1>3, <2>9, <4>1
    <3> QED
      BY <3>1, <3>2, <3>3
  <2>14. position' = at[n + 1] + lengths'[n + 1]
    BY SMTT(40), <1>3, <2>3, <2>4, <2>9, <2>11
  <2> QED
    BY <1>5, <2>3, <2>4, <2>8, <2>9, <2>12, <2>13, <2>14 DEF s
<1>7. CASE ~ (lengths[n] >= size)
  <2>1. SevenZ!Volumes = n
    BY DEF SevenZ!Volumes
  <2>2. PICK k \in 1 .. SevenZ!Min({size - lengths[n], Len(buf)}) :
          /\ files' = SevenZ!Put(files, n, SevenZ!Overlay(files[n], lengths[n], SubSeq(buf, 1, k)))
          /\ lengths' = [lengths EXCEPT ![n] = @ + k]
          /\ position' = position + k
    <3>1. (IF SevenZ!Last(lengths) >= volume_size THEN Append(lengths, 0) ELSE lengths) = lengths
      BY <1>3, <1>7
    <3> QED
      BY <2>1, <3>1 DEF SevenZ!WriteAtEnd
  <2>3. k \in 1 .. Len(buf) /\ k \in Nat /\ lengths[n] + k <= size
    <3>1. size \in Nat /\ size - lengths[n] \in Nat /\ Len(buf) \in Nat
      BY <1>2, <1>3, <1>4, <1>7
    <3>2. \A j \in 1 .. SevenZ!Min({size - lengths[n], Len(buf)}) :
            j \in Nat /\ 1 <= j /\ j <= size - lengths[n] /\ j <= Len(buf)
      BY <3>1, UpToMin
    <3>3. k \in Nat /\ 1 <= k /\ k <= size - lengths[n] /\ k <= Len(buf)
      BY <2>2, <3>2
    <3> QED
      BY <1>3, <3>1, <3>3
  <2> DEFINE s == SubSeq(buf, 1, k)
  <2>4. s \in Seq(Data) /\ Len(s) = k
    BY <1>4, <2>3
  <2> HIDE DEF s
  <2>5. /\ SevenZ!Overlay(files[n], lengths[n], s) = Flat!Overlay(files[n], lengths[n], s)
        /\ Flat!Overlay(files[n], lengths[n], s) \in Seq(Data)
    <3>1. lengths[n] \in 0 .. Len(files[n])
      BY <1>3
    <3> QED
      BY <1>3, <2>4, <3>1, Overlays, OverlayFacts
  <2>6. /\ DOMAIN files' = DOMAIN files
        /\ files'[n] = Flat!Overlay(files[n], lengths[n], s)
        /\ \A i \in DOMAIN files : i # n => files'[i] = files[i]
    BY <1>3, <2>2, <2>5 DEF SevenZ!Put, s
  <2>7. \A j \in DOMAIN files' : j \in Nat /\ files'[j] \in Seq(Data)
    BY <1>2, <2>5, <2>6
  <2>8. /\ lengths' \in Seq(Nat) /\ Len(lengths') = n /\ lengths'[n] = lengths[n] + k
        /\ \A i \in (1 .. n) \ {n} : lengths'[i] = lengths[i]
    <3>1. lengths \in Seq(Nat) /\ n \in 1 .. Len(lengths) /\ Len(lengths) = n
      BY <1>2, <1>3
    <3>2. /\ [lengths EXCEPT ![n] = @ + k] \in Seq(Nat)
          /\ Len([lengths EXCEPT ![n] = @ + k]) = Len(lengths)
          /\ [lengths EXCEPT ![n] = @ + k][n] = lengths[n] + k
          /\ \A j \in (1 .. Len(lengths)) \ {n} : [lengths EXCEPT ![n] = @ + k][j] = lengths[j]
      BY <2>3, <3>1, Replaced
    <3> HIDE DEF n
    <3> QED
      BY <2>2, <3>1, <3>2
  <2>9. \A i \in (1 .. n) \ {n} : files'[i] = files[i]
    BY <1>3, <2>6 DEF Kept
  <2>10. /\ Kept(Data, n, files', st, lengths')
         /\ Whole(files', n) = Flat!Overlay(Whole(files, n), st[n] + lengths[n], s)
    <3>1. lengths'[n] = lengths[n] + Len(s) /\ DOMAIN files \subseteq DOMAIN files'
      BY <2>4, <2>6, <2>8
    <3>2. Filled(n, files, lengths, s, files', lengths')
      BY <2>6, <2>8, <2>9, <3>1 DEF Filled
    <3> QED
      BY <1>3, <2>4, <3>2, KeptFilled
  <2>11. \A i \in 1 .. n : lengths'[i] <= size /\ (i < n => lengths'[i] = size)
    BY <1>3, <2>3, <2>8
  <2>12. position' = st[n] + lengths'[n]
    <3>1. \A a, b, c \in Nat : (a + b) + c = a + (b + c)
      OBVIOUS
    <3>2. lengths[n] \in Nat /\ st[n] \in Nat
      BY SMTT(40), <1>3
    <3>3. /\ position = st[n] + lengths[n] /\ position' = position + k
          /\ lengths'[n] = lengths[n] + k /\ k \in Nat
      BY <1>3, <2>2, <2>3, <2>8
    <3> HIDE DEF n
    <3> QED
      BY <3>1, <3>2, <3>3
  <2> QED
    BY <1>5, <2>2, <2>3, <2>7, <2>8, <2>10, <2>11, <2>12 DEF s
<1> QED
  BY <1>6, <1>7

(* A write within a 7z set patches one volume.                              *)
LEMMA SevenZWriteInPlace ==
  ASSUME SevenZInv, format = "7z", UNCHANGED format,
         NEW buf \in SevenZ!SeqOf(Data, MaxWrite), SevenZ!WriteInPlace(buf)
  PROVE  SevenZInv' /\ \E b \in Flat!SeqOf(Zip!Byte, MaxWrite) : Flat!Write(b)
<1> DEFINE n == Len(lengths)
           st == StartsOf(lengths)
           v == SevenZ!VolumeOf(position)
           at == position - st[v]
<1>1. /\ phase = "open" /\ phase \in {"open", "split"} /\ position < SevenZ!TotalLen
      /\ UNCHANGED <<phase, volume_size, lengths, archives>>
  BY DEF SevenZ!WriteInPlace
<1>2. v \in 1 .. n /\ st[v] <= position /\ position < st[v] + lengths[v]
  BY <1>1, SevenZVolumeOf
<1>3. /\ lengths[v] \in Nat /\ st[v] \in Nat /\ position \in Nat /\ v \in DOMAIN files
      /\ files[v] \in Seq(Data) /\ lengths[v] = Len(files[v]) /\ SevenZ!StartOf(v) = st[v]
      /\ Kept(Data, n, files, st, lengths) /\ n \in Nat \ {0}
      /\ \A i \in 1 .. n : lengths[i] <= volume_size /\ (i < n => lengths[i] = volume_size)
  BY <1>1, <1>2, SevenZPieces, SevenZTypes
<1>4. PICK k \in 1 .. SevenZ!Min({lengths[v] - at, Len(buf)}) :
        /\ files' = [files EXCEPT ![v] = SevenZ!Overlay(@, at, SubSeq(buf, 1, k))]
        /\ position' = position + k
  BY <1>3 DEF SevenZ!WriteInPlace
<1> HIDE DEF v
<1>5. at \in Nat /\ at <= lengths[v] /\ lengths[v] - at \in Nat /\ st[v] + at = position
  BY SMTT(40), <1>2, <1>3
<1> HIDE DEF at, st
<1>6. /\ buf \in Seq(Data) /\ Len(buf) \in Nat /\ buf \in Flat!SeqOf(Zip!Byte, MaxWrite)
      /\ \A j \in 1 .. Len(buf) : SubSeq(buf, 1, j) \in Seq(Data) /\ Len(SubSeq(buf, 1, j)) = j
  <2>1. Data \subseteq Zip!Byte /\ MaxWrite \in Nat
    BY BoundsAssumption DEF Zip!Byte
  <2>2. buf \in Flat!SeqOf(Data, MaxWrite)
    BY <2>1, Writes
  <2> QED
    BY <2>1, <2>2, Writes
<1>7. k \in Nat /\ k \in 1 .. Len(buf) /\ at + k <= lengths[v]
  <2>1. \A j \in 1 .. SevenZ!Min({lengths[v] - at, Len(buf)}) :
          j \in Nat /\ 1 <= j /\ j <= lengths[v] - at /\ j <= Len(buf)
    BY <1>5, <1>6, UpToMin
  <2>2. k \in Nat /\ 1 <= k /\ k <= lengths[v] - at /\ k <= Len(buf)
    BY <1>4, <2>1
  <2> QED
    BY <1>3, <1>5, <1>6, <2>2
<1> DEFINE s == SubSeq(buf, 1, k)
<1>8. s \in Seq(Data) /\ Len(s) = k
  BY <1>6, <1>7
<1> HIDE DEF s
<1>9. /\ SevenZ!Overlay(files[v], at, s) = Flat!Overlay(files[v], at, s)
      /\ Flat!Overlay(files[v], at, s) \in Seq(Data)
  <2>1. at \in 0 .. Len(files[v])
    BY <1>3, <1>5
  <2> QED
    BY <1>3, <1>5, <1>8, <2>1, Overlays, OverlayFacts
<1>10. /\ DOMAIN files' = DOMAIN files
       /\ files'[v] = Flat!Overlay(files[v], at, s)
       /\ \A i \in DOMAIN files : i # v => files'[i] = files[i]
  BY <1>3, <1>4, <1>9 DEF s
<1>11. \A j \in DOMAIN files' : j \in Nat /\ files'[j] \in Seq(Data)
  BY <1>9, <1>10, SevenZTypes
<1>12. Patched(n, files, lengths, v, at, s, files')
  <2>1. \A i \in (1 .. n) \ {v} : files'[i] = files[i]
    BY <1>3, <1>10 DEF Kept
  <2> QED
    BY <1>2, <1>3, <1>5, <1>7, <1>8, <1>10, <2>1 DEF Patched
<1>13. Kept(Data, n, files', st, lengths)
  <2>1. at + Len(s) <= lengths[v]
    BY <1>7, <1>8
  <2> QED
    BY <1>3, <1>8, <1>12, <2>1, KeptPatched
<1>14. Whole(files', n) = Flat!Overlay(Whole(files, n), position, s)
  <2>1. Whole(files', n) = Flat!Overlay(Whole(files, n), st[v] + at, s)
    <3>1. Kept(Data, n, files, st, lengths) /\ s \in Seq(Data)
      BY <1>3, <1>8
    <3> HIDE DEF n
    <3> QED
      BY <1>12, <3>1, WholeOverlay
  <2> QED
    BY <1>5, <2>1
<1>15. position' \in Nat /\ position' <= st[n] + lengths[n]
  <2>1. /\ \A i \in 1 .. n : st[i] \in Nat /\ lengths[i] \in Nat
        /\ \A i \in 1 .. (n - 1) : st[i + 1] = st[i] + lengths[i]
        /\ n \in 1 .. n
    BY <1>3, KeptFacts
  <2>2. v # n => st[v] + lengths[v] <= st[n]
    <3>1. \A i, j \in 1 .. n : i < j => st[i] + lengths[i] <= st[j]
      BY <1>3, <2>1, PiecesInOrder
    <3> QED
      BY <1>2, <1>3, <2>1, <3>1
  <2>3. position + k <= st[v] + lengths[v] /\ position + k \in Nat /\ st[v] + lengths[v] \in Nat
    <3>1. /\ lengths[v] \in Nat /\ st[v] \in Nat /\ at \in Nat /\ k \in Nat
          /\ position = st[v] + at /\ at + k <= lengths[v]
      BY <1>3, <1>5, <1>7
    <3> HIDE DEF n
    <3> QED
      BY <3>1
  <2>4. st[v] + lengths[v] <= st[n] + lengths[n] /\ st[n] + lengths[n] \in Nat
    BY SMTT(40), <1>3, <2>1, <2>2
  <2>5. \A a, b, c \in Nat : a <= b /\ b <= c => a <= c
    OBVIOUS
  <2> QED
    BY <1>4, <2>3, <2>4, <2>5
<1>16. SevenZInv'
  <2>1. /\ volume_size' \in VolumeSizes /\ phase' \in {"open", "split"}
        /\ archives' \in 0 .. MaxArchives /\ lengths' \in Seq(Nat) /\ Len(lengths') = n
        /\ Kept(Data, n, files', st, lengths')
        /\ \A i \in 1 .. n : lengths'[i] <= volume_size' /\ (i < n => lengths'[i] = volume_size')
        /\ position' <= st[n] + lengths'[n]
    BY <1>1, <1>3, <1>13, <1>15, SevenZTypes
  <2> QED
    BY <1>11, <1>15, <2>1, SevenZKept
<1>17. Flat!Write(buf)
  <2>1. Content = Whole(files, n) /\ Content' = Whole(files', n)
    BY <1>1, <1>3, Flattenings DEF Content, SevenZ!Content, SevenZ!Volumes
  <2>2. Content' = Flat!Overlay(Content, position, SubSeq(buf, 1, k))
    BY <1>14, <2>1 DEF s
  <2> QED
    BY <1>4, <1>7, <2>2 DEF Flat!Write
<1> QED
  BY <1>6, <1>16, <1>17

(* A seek changes the position, and nothing else.                           *)
LEMMA SevenZSeek ==
  ASSUME SevenZInv, format = "7z", UNCHANGED format, NEW to \in Nat, SevenZ!Seek(to)
  PROVE  SevenZInv' /\ Flat!Seek
<1> DEFINE n == Len(lengths)
           st == StartsOf(lengths)
<1>1. /\ phase = "open" /\ phase \in {"open", "split"} /\ to <= SevenZ!TotalLen /\ position' = to
      /\ UNCHANGED <<files, phase, volume_size, lengths, archives>>
  BY DEF SevenZ!Seek
<1>2. to <= st[n] + lengths[n] /\ position' \in Nat
  BY <1>1, SevenZPieces
<1>3. SevenZInv'
  <2>1. /\ volume_size' \in VolumeSizes /\ phase' \in {"open", "split"}
        /\ archives' \in 0 .. MaxArchives /\ lengths' \in Seq(Nat) /\ Len(lengths') = n
        /\ Kept(Data, n, files', st, lengths')
        /\ \A i \in 1 .. n : lengths'[i] <= volume_size' /\ (i < n => lengths'[i] = volume_size')
        /\ position' <= st[n] + lengths'[n]
        /\ \A j \in DOMAIN files' : j \in Nat /\ files'[j] \in Seq(Data)
    BY <1>1, <1>2, SevenZPieces, SevenZTypes
  <2> HIDE DEF st, n
  <2> QED
    BY <1>2, <2>1, SevenZKept
<1>4. Content = Whole(files, n) /\ Content' = Content
  BY <1>1, SevenZPieces DEF Content, SevenZ!Content, SevenZ!Volumes
<1>5. position' \in 0 .. Len(Content)
  <2>1. Len(Content) = st[n] + lengths[n] /\ Len(Content) \in Nat
    BY <1>1, <1>4, SevenZPieces
  <2> QED
    BY <1>1, <1>2, <2>1
<1> QED
  BY <1>3, <1>4, <1>5 DEF Flat!Seek

(* finish keeps the volumes of the set, whatever it removes.                *)
LEMMA SevenZFinish ==
  ASSUME SevenZInv, format = "7z", UNCHANGED format, SevenZ!Finish
  PROVE  SevenZInv' /\ UNCHANGED Flat!flat
<1> DEFINE n == Len(lengths)
           st == StartsOf(lengths)
<1>1. /\ phase = "open" /\ phase' = "split" /\ phase \in {"open", "split"}
      /\ files' = [k \in {k \in DOMAIN files : k <= n} |-> files[k]]
      /\ UNCHANGED <<volume_size, lengths, position, archives>>
  BY DEF SevenZ!Finish, SevenZ!sink, SevenZ!Volumes
<1>2. /\ Kept(Data, n, files, st, lengths) /\ n \in Nat \ {0}
      /\ \A i \in 1 .. n : lengths[i] <= volume_size /\ (i < n => lengths[i] = volume_size)
      /\ position <= st[n] + lengths[n]
  BY <1>1, SevenZPieces
<1>3. \A i \in 1 .. n : i \in DOMAIN files' /\ files'[i] = files[i]
  BY <1>1, <1>2 DEF Kept
<1>4. Kept(Data, n, files', st, lengths)
  BY <1>2, <1>3 DEF Kept
<1>5. \A j \in DOMAIN files' : j \in Nat /\ files'[j] \in Seq(Data)
  BY <1>1, SevenZTypes
<1>6. SevenZInv'
  <2>1. /\ volume_size' \in VolumeSizes /\ phase' \in {"open", "split"}
        /\ archives' \in 0 .. MaxArchives /\ lengths' \in Seq(Nat) /\ Len(lengths') = n
        /\ Kept(Data, n, files', st, lengths') /\ position' \in Nat
        /\ \A i \in 1 .. n : lengths'[i] <= volume_size' /\ (i < n => lengths'[i] = volume_size')
        /\ position' <= st[n] + lengths'[n]
    BY <1>1, <1>2, <1>4, SevenZTypes
  <2> HIDE DEF st, n
  <2> QED
    BY <1>5, <2>1, SevenZKept
<1>7. Content' = Content
  <2>1. [i \in 1 .. n |-> files'[i]] = [i \in 1 .. n |-> files[i]]
    BY <1>3
  <2> QED
    BY <1>1, <2>1 DEF Content, SevenZ!Content, SevenZ!Volumes
<1> QED
  BY <1>1, <1>6, <1>7 DEF Flat!flat

(* What an abandoned 7z leaves behind is in the directory and is not open.  *)
LEMMA SevenZAbandon ==
  ASSUME SevenZInv, format = "7z", UNCHANGED format, SevenZ!Abandon
  PROVE  SevenZInv' /\ Flat!Create
<1>1. /\ phase' = "none" /\ lengths' = <<>> /\ position' = 0
      /\ UNCHANGED <<files, volume_size, archives>>
  BY DEF SevenZ!Abandon
<1>2. <<>> \in Seq(Nat) /\ Len(<<>>) = 0 /\ 0 \in Nat
  OBVIOUS
<1>3. SevenZInv'
  BY <1>1, <1>2, SevenZTypes DEF SevenZInv, SevenZ!TypeOK
<1>4. Content' = <<>>
  BY <1>1 DEF Content, SevenZ!Content
<1>5. <<>> \in Flat!SeqOf(Zip!Byte, 1)
  <2>1. <<>> \in [1 .. 0 -> Zip!Byte] /\ 0 \in 0 .. 1
    OBVIOUS
  <2> QED
    BY <2>1 DEF Flat!SeqOf
<1> QED
  BY <1>1, <1>2, <1>3, <1>4, <1>5 DEF Flat!Create

(* A plain 7z over a set is a new file, empty to begin with.                *)
LEMMA SevenZCreatePlain ==
  ASSUME SevenZInv, format = "7z", UNCHANGED format, SevenZ!CreatePlain
  PROVE  SevenZInv' /\ Flat!Create
<1>1. /\ phase' = "plain" /\ lengths' = <<>> /\ position' = 0 /\ UNCHANGED volume_size
      /\ archives' = archives + 1 /\ archives < MaxArchives
  BY DEF SevenZ!CreatePlain, SevenZ!MayCreate
<1>2. PICK c \in SevenZ!SeqOf(Data, MaxWrite) : files' = SevenZ!Put(files, 0, c)
  BY DEF SevenZ!CreatePlain, SevenZ!Base
<1>3. c \in Seq(Data)
  BY BoundsAssumption, Writes
<1>4. \A j \in DOMAIN files' : j \in Nat /\ files'[j] \in Seq(Data)
  BY <1>2, <1>3, SevenZTypes DEF SevenZ!Put
<1>5. <<>> \in Seq(Nat) /\ Len(<<>>) = 0 /\ 0 \in Nat
  OBVIOUS
<1>6. archives' \in 0 .. MaxArchives
  BY <1>1, SevenZTypes, BoundsAssumption
<1>7. SevenZInv'
  BY <1>1, <1>4, <1>5, <1>6, SevenZTypes DEF SevenZInv, SevenZ!TypeOK
<1>8. Content' = <<>>
  BY <1>1 DEF Content, SevenZ!Content
<1>9. <<>> \in Flat!SeqOf(Zip!Byte, 1)
  <2>1. <<>> \in [1 .. 0 -> Zip!Byte] /\ 0 \in 0 .. 1
    OBVIOUS
  <2> QED
    BY <2>1 DEF Flat!SeqOf
<1> QED
  BY <1>1, <1>5, <1>7, <1>8, <1>9 DEF Flat!Create

(* A sink starts with its first volume empty.                               *)
LEMMA SevenZCreateSplit ==
  ASSUME SevenZInv, format = "7z", UNCHANGED format, SevenZ!CreateSplit
  PROVE  SevenZInv' /\ Flat!Create
<1> DEFINE c == <<>>
<1>1. /\ phase' = "open" /\ lengths' = <<0>> /\ position' = 0 /\ volume_size' \in VolumeSizes
      /\ files' = SevenZ!Put([k \in DOMAIN files \ {0} |-> files[k]], 1, c)
      /\ archives' = archives + 1 /\ archives < MaxArchives
  BY DEF SevenZ!CreateSplit, SevenZ!MayCreate, SevenZ!Base
<1>2. c \in Seq(Data) /\ Len(c) = 0 /\ c \in Flat!SeqOf(Zip!Byte, 1)
  <2>1. c \in [1 .. 0 -> Zip!Byte] /\ 0 \in 0 .. 1
    OBVIOUS
  <2>2. c \in Flat!SeqOf(Zip!Byte, 1)
    BY <2>1 DEF Flat!SeqOf
  <2> QED
    BY <2>2
<1> HIDE DEF c
<1>3. /\ 1 \in DOMAIN files' /\ files'[1] = c
      /\ \A j \in DOMAIN files' : j \in Nat /\ files'[j] \in Seq(Data)
  BY <1>1, <1>2, SevenZTypes DEF SevenZ!Put
<1>4. lengths' \in Seq(Nat) /\ Len(lengths') = 1 /\ lengths'[1] = 0
  BY <1>1
<1> DEFINE st == [i \in 1 .. 1 |-> 0]
<1>5. Kept(Data, 1, files', st, lengths') /\ Whole(files', 1) = c
  <2>1. lengths'[1] = Len(c) /\ st[1] = 0
    BY <1>2, <1>4
  <2> HIDE DEF st
  <2>2. Kept(Data, 1, files', st, lengths')
    BY <1>2, <1>3, <2>1, KeptOne
  <2> QED
    BY <1>3, <2>2, WholeOfOne
<1>6. archives' \in 0 .. MaxArchives
  BY <1>1, SevenZTypes, BoundsAssumption
<1>7. SevenZInv'
  <2>1. \A i \in 1 .. 1 : lengths'[i] <= volume_size' /\ (i < 1 => lengths'[i] = volume_size')
    BY <1>1, <1>4, VolumeSizesAssumption
  <2>2. /\ position' <= st[1] + lengths'[1] /\ position' \in Nat /\ phase' \in {"open", "split"}
        /\ volume_size' \in VolumeSizes
    BY <1>1, <1>4
  <2> HIDE DEF st
  <2> QED
    BY <1>3, <1>4, <1>5, <1>6, <2>1, <2>2, SevenZKept
<1>8. Content' = c
  <2>1. Content' = SevenZ!FlattenSeq([i \in 1 .. Len(lengths') |-> files'[i]])
    BY <1>1 DEF Content, SevenZ!Content, SevenZ!Volumes
  <2>2. Len(lengths') \in Nat \ {0}
    BY <1>4
  <2>3. Content' = Whole(files', Len(lengths'))
    BY <2>1, <2>2, Flattenings
  <2> QED
    BY <1>4, <1>5, <2>3
<1> QED
  BY <1>1, <1>2, <1>7, <1>8 DEF Flat!Create

-----------------------------------------------------------------------------
(* Both together.                                                           *)

(* The invariant holds before any archive is created; nothing is written.   *)
LEMMA Initially == Init => IInv /\ Flat!FlatInit
<1> SUFFICES ASSUME Init PROVE IInv /\ Flat!FlatInit
  OBVIOUS
<1>1. <<>> \in Seq(Nat) /\ Len(<<>>) = 0 /\ 0 \in Nat /\ DOMAIN <<>> = {}
  OBVIOUS
<1>2. 0 \in 0 .. MaxArchives
  BY BoundsAssumption
<1>3. CASE format = "zip" /\ Zip!Init
  <2>1. Zip!TypeOK
    BY <1>1, <1>2, <1>3 DEF Zip!Init, Zip!TypeOK, Zip!NoRecord
  <2>2. ZipInv
    BY <1>3, <2>1 DEF ZipInv, Writing, Zip!Init, Zip!NoRecord
  <2>3. Flat!FlatInit
    BY <1>3 DEF Flat!FlatInit, Content, Zip!Content, Zip!Init
  <2> QED
    BY <1>3, <2>2, <2>3 DEF IInv
<1>4. CASE format = "7z" /\ SevenZ!Init
  <2>1. PICK D \in SUBSET Left : files = [n \in D |-> <<>>]
    BY <1>4 DEF SevenZ!Init
  <2>2. \A n \in DOMAIN files : n \in Nat /\ files[n] \in Seq(Data)
    BY <2>1, LeftAssumption
  <2>3. SevenZ!TypeOK
    BY <1>1, <1>2, <1>4, <2>2 DEF SevenZ!Init, SevenZ!TypeOK
  <2>4. SevenZInv
    BY <1>4, <2>3 DEF SevenZInv, SevenZ!Init
  <2>5. Flat!FlatInit
    BY <1>4 DEF Flat!FlatInit, Content, SevenZ!Content, SevenZ!Init
  <2> QED
    BY <1>4, <2>4, <2>5 DEF IInv
<1> QED
  BY <1>3, <1>4 DEF Init

(* Every step keeps the invariant, and is a step of one file or changes     *)
(* nothing of it.                                                           *)
LEMMA Step ==
  ASSUME IInv, [Next]_vars
  PROVE  IInv' /\ [Flat!FlatNext]_(Flat!flat)
<1>1. CASE UNCHANGED vars
  <2>1. /\ UNCHANGED <<format, files, phase, volume_size, lengths, position, archives>>
        /\ UNCHANGED <<starts, paths, record>>
    BY <1>1 DEF vars
  <2>2. UNCHANGED Flat!flat
    BY <2>1 DEF Flat!flat, Content, Zip!Content, SevenZ!Content, Zip!Volumes, SevenZ!Volumes
  <2>3. ZipInv => ZipInv'
    <3>1. Zip!TypeOK => Zip!TypeOK'
      BY <2>1 DEF Zip!TypeOK
    <3> QED
      BY <2>1, <3>1 DEF ZipInv
  <2>4. SevenZInv => SevenZInv'
    <3>1. SevenZ!TotalLen' = SevenZ!TotalLen
      BY <2>1, SevenZSums, SevenZSumsNext
    <3>2. SevenZ!TypeOK => SevenZ!TypeOK'
      BY <2>1, <3>1 DEF SevenZ!TypeOK
    <3> QED
      BY <2>1, <3>2 DEF SevenZInv
  <2> QED
    BY <2>1, <2>2, <2>3, <2>4 DEF IInv
<1>2. CASE format = "zip" /\ UNCHANGED format /\ Zip!Next
  <2>1. ZipInv /\ format = "zip" /\ UNCHANGED format
    BY <1>2 DEF IInv
  <2> SUFFICES ZipInv' /\ [Flat!FlatNext]_(Flat!flat)
    BY <1>2 DEF IInv
  <2>2. CASE Zip!CreateSplit
    BY <2>1, <2>2, ZipCreateSplit DEF Flat!FlatNext
  <2>3. CASE Zip!CreatePlain
    BY <2>1, <2>3, ZipCreatePlain DEF Flat!FlatNext
  <2>4. ASSUME NEW buf \in Zip!SeqOf(Data, MaxWrite), Zip!WriteAtEnd(buf) \/ Zip!WriteInPlace(buf)
        PROVE  ZipInv' /\ [Flat!FlatNext]_(Flat!flat)
    BY <2>1, <2>4, ZipWriteAtEnd, ZipWriteInPlace DEF Flat!FlatNext
  <2>5. ASSUME NEW to \in 0 .. MaxLen, Zip!Seek(to)
        PROVE  ZipInv' /\ [Flat!FlatNext]_(Flat!flat)
    <3>1. to \in Nat
      BY BoundsAssumption
    <3> QED
      BY <2>1, <2>5, <3>1, ZipSeek DEF Flat!FlatNext
  <2>6. ASSUME NEW len \in 1 .. MaxWrite, Zip!BeginRecord(len)
        PROVE  ZipInv' /\ [Flat!FlatNext]_(Flat!flat)
    <3>1. len \in Nat
      BY BoundsAssumption
    <3> QED
      BY <2>1, <2>6, <3>1, ZipBeginRecord
  <2>7. CASE Zip!FinishSeek
    BY <2>1, <2>7, ZipFinishSeek DEF Flat!FlatNext
  <2>8. CASE Zip!FinishMark
    BY <2>1, <2>8, ZipFinishMark DEF Flat!FlatNext
  <2>9. CASE Zip!FinishRename
    BY <2>1, <2>9, ZipFinishRename
  <2>10. CASE Zip!Abandon
    BY <2>1, <2>10, ZipAbandon DEF Flat!FlatNext
  <2> QED
    BY <1>2, <2>2, <2>3, <2>4, <2>5, <2>6, <2>7, <2>8, <2>9, <2>10 DEF Zip!Next
<1>3. CASE format = "7z" /\ UNCHANGED format /\ SevenZ!Next
  <2>1. SevenZInv /\ format = "7z" /\ UNCHANGED format
    BY <1>3 DEF IInv
  <2> SUFFICES SevenZInv' /\ [Flat!FlatNext]_(Flat!flat)
    BY <1>3 DEF IInv
  <2>2. CASE SevenZ!CreateSplit
    BY <2>1, <2>2, SevenZCreateSplit DEF Flat!FlatNext
  <2>3. CASE SevenZ!CreatePlain
    BY <2>1, <2>3, SevenZCreatePlain DEF Flat!FlatNext
  <2>4. ASSUME NEW buf \in SevenZ!SeqOf(Data, MaxWrite),
               SevenZ!WriteAtEnd(buf) \/ SevenZ!WriteInPlace(buf)
        PROVE  SevenZInv' /\ [Flat!FlatNext]_(Flat!flat)
    BY <2>1, <2>4, SevenZWriteAtEnd, SevenZWriteInPlace DEF Flat!FlatNext
  <2>5. ASSUME NEW to \in 0 .. MaxLen, SevenZ!Seek(to)
        PROVE  SevenZInv' /\ [Flat!FlatNext]_(Flat!flat)
    <3>1. to \in Nat
      BY BoundsAssumption
    <3> QED
      BY <2>1, <2>5, <3>1, SevenZSeek DEF Flat!FlatNext
  <2>6. CASE SevenZ!Finish
    BY <2>1, <2>6, SevenZFinish
  <2>7. CASE SevenZ!Abandon
    BY <2>1, <2>7, SevenZAbandon DEF Flat!FlatNext
  <2> QED
    BY <1>3, <2>2, <2>3, <2>4, <2>5, <2>6, <2>7 DEF SevenZ!Next
<1> QED
  BY <1>1, <1>2, <1>3 DEF Next

(* The invariant holds throughout, with either sink.                        *)
THEOREM Invariance == Spec => []IInv
<1>1. Init => IInv
  BY Initially
<1>2. IInv /\ [Next]_vars => IInv'
  BY Step
<1> QED
  BY <1>1, <1>2, PTL DEF Spec

(* The sinks keep their types; a 7z's position never passes its end.        *)
THEOREM TypeCorrect == Spec => []TypeOK
<1>1. IInv => TypeOK
  BY DEF IInv, ZipInv, SevenZInv, TypeOK
<1> QED
  BY <1>1, Invariance, PTL

(* The bookkeeping of either sink (lengths, starts) is what is on disk,     *)
(* however writes, seeks, records and errors interleave; no volume is       *)
(* larger than was asked for, and those of a 7z are full but for the last.  *)
THEOREM VolumesStayBounded == Spec => []VolumesAreBounded
<1>1. ASSUME IInv PROVE VolumesAreBounded
  <2>1. ASSUME format = "zip" PROVE Zip!VolumesAreBounded
    <3>1. ZipInv
      BY <1>1, <2>1 DEF IInv
    <3> SUFFICES ASSUME phase \in {"open", "marking", "closing"}, NEW i \in 1 .. Len(starts)
                 PROVE  /\ i \in DOMAIN files /\ lengths[i] = Len(files[i])
                        /\ starts[i] = Zip!MapThenSumSet(LAMBDA j : lengths[j], 1 .. i - 1)
                        /\ lengths[i] <= volume_size
      BY DEF Zip!VolumesAreBounded, Zip!Volumes
    <3>2. /\ Kept(Zip!Byte, Len(starts), files, starts, lengths)
          /\ lengths[i] <= volume_size
      BY <3>1 DEF ZipInv, Writing
    <3>3. /\ i \in DOMAIN files /\ lengths[i] = Len(files[i])
          /\ starts[i] = SumFunctionOnSet(lengths, 1 .. (i - 1))
      BY <3>2 DEF Kept
    <3>4. Zip!MapThenSumSet(LAMBDA j : lengths[j], 1 .. i - 1) = SumFunctionOnSet(lengths, 1 .. (i - 1))
      BY DEF Zip!MapThenSumSet, Zip!MapThenFoldSet, SumFunctionOnSet, FoldFunctionOnSet, MapThenFoldSet
    <3> QED
      BY <3>2, <3>3, <3>4
  <2>2. ASSUME format = "7z" PROVE SevenZ!VolumesAreFull
    <3>1. SevenZInv
      BY <1>1, <2>2 DEF IInv
    <3> QED
      BY <3>1 DEF SevenZInv, SevenZ!VolumesAreFull, SevenZ!Volumes, Kept
  <2> QED
    BY <2>1, <2>2 DEF VolumesAreBounded
<1> QED
  BY <1>1, Invariance, PTL

(* A record of a ZIP that fits a volume is never cut in two.                *)
THEOREM RecordsStayWhole == Spec => []RecordsAreWhole
<1>1. ASSUME IInv PROVE RecordsAreWhole
  <2> SUFFICES ASSUME format = "zip", record.left > 0, record.len <= volume_size
               PROVE  Zip!Last(lengths) + record.left <= volume_size
    BY DEF RecordsAreWhole, Zip!RecordsAreWhole
  <2>1. ZipInv
    BY <1>1 DEF IInv
  <2>2. lengths[Len(starts)] + record.left <= volume_size
    BY <2>1 DEF ZipInv
  <2>3. Len(lengths) = Len(starts)
    BY <2>1, ZipTypes
  <2> QED
    BY <2>2, <2>3 DEF Zip!Last
<1> QED
  BY <1>1, Invariance, PTL

(* Either sink, whatever volumes it cuts its output into, implements one    *)
(* seekable file: every write lands where that file would have it, every    *)
(* seek stays within what was written, and neither changing volumes nor     *)
(* renaming the last one is seen.                                           *)
THEOREM ImplementsOneFile == Spec => ImplementsFlatFile
<1>1. Init => Flat!FlatInit
  BY Initially
<1>2. IInv /\ [Next]_vars => [Flat!FlatNext]_(Flat!flat)
  BY Step
<1> QED
  BY <1>1, <1>2, Invariance, PTL DEF Spec, ImplementsFlatFile, Flat!FlatSpec
===========================================================================
