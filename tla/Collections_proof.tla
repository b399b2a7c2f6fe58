------------------------- MODULE Collections_proof -------------------------
(***************************************************************************)
(* What the proofs of the components need to know of the operators of the  *)
(* community modules.  Sums over sets exist, they do not depend on the     *)
(* order in which the elements are taken, and they change as one value     *)
(* does.  A finite set has one sequence in a given order, and a greatest   *)
(* element.  Sequences laid end to end grow with the last of them.         *)
(*                                                                         *)
(* The provers cannot use the library's induction rules, which take an     *)
(* operator as a parameter.  Each induction below is made by taking a      *)
(* smallest counterexample instead, which is first-order.                  *)
(***************************************************************************)
EXTENDS Integers, Sequences, FiniteSets, Functions, FiniteSetsExt,
        FiniteSetTheorems, SequenceTheorems, TLAPS

(* A non-empty set of naturals has a least element.                        *)
LEMMA LeastNat ==
  ASSUME NEW T \in SUBSET Nat, T # {}
  PROVE  \E n \in T : \A m \in T : n <= m
<1>1. IsWellFoundedOn(OpToRel(<, Nat), Nat)
  BY NatLessThanWellFounded
<1>2. PICK n \in T : \A m \in T : ~ (<<m, n>> \in OpToRel(<, Nat))
  BY <1>1, WFMin
<1>3. \A m \in T : ~ (m < n)
  BY <1>2 DEF OpToRel
<1> QED
  BY <1>3

(* A non-empty set of subsets of a finite set has a smallest one.          *)
LEMMA SmallestSubset ==
  ASSUME NEW S, IsFiniteSet(S), NEW T \in SUBSET SUBSET S, T # {}
  PROVE  \E U \in T : \A V \in T : V \subseteq U => V = U
<1>1. IsWellFoundedOn(StrictSubsetOrdering(S), FiniteSubsetsOf(S))
  BY FS_StrictSubsetOrderingWellFounded
<1>2. T \subseteq FiniteSubsetsOf(S)
  BY FS_FiniteSubsetsOfFinite
<1>3. PICK U \in T : \A V \in T : ~ (<<V, U>> \in StrictSubsetOrdering(S))
  BY <1>1, <1>2, WFMin
<1>4. \A V \in T : V \subseteq U => V = U
  BY <1>3 DEF StrictSubsetOrdering
<1> QED
  BY <1>4

-----------------------------------------------------------------------------
(* h holds the sum of f over each subset of S: what the library's fold      *)
(* chooses.                                                                 *)
Some(s) == CHOOSE x \in s : TRUE
IsSum(h, f, S) == h = [s \in SUBSET S |-> IF s = {} THEN 0 ELSE f[Some(s)] + h[s \ {Some(s)}]]

(* What Some gives of a set that is not empty lies in it.                   *)
LEMMA SomeFacts == \A s : s # {} => Some(s) \in s
BY DEF Some

(* The recursion that the library's fold is defined by has a solution.     *)
LEMMA SumExists ==
  ASSUME NEW S, IsFiniteSet(S), NEW f
  PROVE  \E h : IsSum(h, f, S)
<1> DEFINE Upto(n) == {s \in SUBSET S : Cardinality(s) <= n}
           Step(h, s) == IF s = {} THEN 0 ELSE f[Some(s)] + h[s \ {Some(s)}]
           Solves(h, n) == h = [s \in Upto(n) |-> Step(h, s)]
           Bad == {n \in Nat : \A h : ~ Solves(h, n)}
<1>1. \A s \in SUBSET S : /\ IsFiniteSet(s) /\ Cardinality(s) \in Nat
                          /\ Cardinality(s) <= Cardinality(S)
  BY FS_Subset, FS_CardinalityType
<1>2. \A s \in SUBSET S : s # {} => /\ s \ {Some(s)} \in SUBSET S
                                    /\ Cardinality(s \ {Some(s)}) = Cardinality(s) - 1
  BY <1>1, FS_RemoveElement, SomeFacts
<1>3. ASSUME Bad # {} PROVE FALSE
  <2>1. PICK n \in Bad : \A m \in Bad : n <= m
    BY <1>3, LeastNat
  <2>2. n \in Nat /\ \A h : ~ Solves(h, n)
    OBVIOUS
  <2>3. CASE n = 0
    <3> DEFINE h == [s \in Upto(0) |-> 0]
    <3>1. \A s \in Upto(0) : s = {}
      BY <1>1, FS_EmptySet
    <3>2. h = [s \in Upto(0) |-> Step(h, s)]
      BY <3>1
    <3> QED
      BY <2>2, <2>3, <3>2
  <2>4. CASE n # 0
    <3>1. n - 1 \in Nat /\ n - 1 \notin Bad
      <4> HIDE DEF Bad
      <4> QED
        BY <2>1, <2>2, <2>4
    <3>2. PICK g : Solves(g, n - 1)
      BY <3>1
    <3> DEFINE h == [s \in Upto(n) |-> Step(g, s)]
    <3>3. \A s \in Upto(n - 1) : h[s] = g[s]
      <4> TAKE s \in Upto(n - 1)
      <4>1. s \in Upto(n)
        BY <1>1, <2>2
      <4>2. g[s] = Step(g, s)
        BY <3>2
      <4> QED
        BY <4>1, <4>2
    <3>4. \A s \in Upto(n) : Step(h, s) = Step(g, s)
      <4> TAKE s \in Upto(n)
      <4>1. s # {} => s \ {Some(s)} \in Upto(n - 1)
        BY <1>1, <1>2, <2>2
      <4> HIDE DEF h
      <4> QED
        BY <3>3, <4>1
    <3>5. h = [s \in Upto(n) |-> Step(h, s)]
      BY <3>4
    <3> QED
      BY <2>2, <3>5
  <2> QED
    BY <2>3, <2>4
<1>4. Cardinality(S) \in Nat /\ Cardinality(S) \notin Bad
  BY <1>1, <1>3
<1>5. PICK h : Solves(h, Cardinality(S))
  BY <1>4
<1>6. Upto(Cardinality(S)) = SUBSET S
  BY <1>1
<1> QED
  BY <1>5, <1>6 DEF IsSum
(* Two solutions agree on the sets that both know, if the values do.       *)
LEMMA SumUnique ==
  ASSUME NEW S, IsFiniteSet(S), NEW T, IsFiniteSet(T), NEW f, NEW g,
         NEW h, IsSum(h, f, S), NEW k, IsSum(k, g, T),
         NEW U \in SUBSET (S \cap T), \A x \in U : f[x] = g[x]
  PROVE  h[U] = k[U]
<1> DEFINE Bad == {V \in SUBSET U : h[V] # k[V]}
<1> SUFFICES ASSUME Bad # {} PROVE FALSE
  OBVIOUS
<1>1. IsFiniteSet(U)
  BY FS_Subset
<1>2. PICK V \in Bad : \A W \in Bad : W \subseteq V => W = V
  <2>1. Bad \in SUBSET SUBSET U
    OBVIOUS
  <2> HIDE DEF Bad
  <2> QED
    BY <1>1, <2>1, SmallestSubset
<1>3. V \in SUBSET S /\ V \in SUBSET T /\ h[V] # k[V]
  OBVIOUS
<1>4. V # {}
  BY <1>3 DEF IsSum
<1>5. h[V] = f[Some(V)] + h[V \ {Some(V)}] /\ k[V] = g[Some(V)] + k[V \ {Some(V)}]
  BY <1>3, <1>4 DEF IsSum
<1>6. Some(V) \in V
  BY <1>4, SomeFacts
<1>7. h[V \ {Some(V)}] = k[V \ {Some(V)}]
  BY <1>2, <1>6
<1>8. f[Some(V)] = g[Some(V)]
  BY <1>6
<1> QED
  BY <1>3, <1>5, <1>7, <1>8

(* The library's sum is such a solution.                                   *)
LEMMA SumFunctionOnSetIsSum ==
  ASSUME NEW S, IsFiniteSet(S), NEW f
  PROVE  \E h : IsSum(h, f, S) /\ SumFunctionOnSet(f, S) = h[S]
<1> DEFINE h == CHOOSE h : IsSum(h, f, S)
<1>1. IsSum(h, f, S)
  BY SumExists
<1>2. SumFunctionOnSet(f, S) = h[S]
  BY DEF SumFunctionOnSet, FoldFunctionOnSet, MapThenFoldSet, IsSum, Some
<1> QED
  BY <1>1, <1>2

(* Sums over a set depend on the values on that set alone.                 *)
THEOREM SumAgree ==
  ASSUME NEW S, IsFiniteSet(S), NEW f, NEW g, \A x \in S : f[x] = g[x]
  PROVE  SumFunctionOnSet(f, S) = SumFunctionOnSet(g, S)
<1>1. PICK h : IsSum(h, f, S) /\ SumFunctionOnSet(f, S) = h[S]
  BY SumFunctionOnSetIsSum
<1>2. PICK k : IsSum(k, g, S) /\ SumFunctionOnSet(g, S) = k[S]
  BY SumFunctionOnSetIsSum
<1>3. h[S] = k[S]
  BY <1>1, <1>2, SumUnique
<1> QED
  BY <1>1, <1>2, <1>3

(* A sum over nothing is 0.                                                 *)
THEOREM SumOfNothing ==
  ASSUME NEW f
  PROVE  SumFunctionOnSet(f, {}) = 0
<1>1. IsFiniteSet({})
  BY FS_EmptySet
<1>2. PICK h : IsSum(h, f, {}) /\ SumFunctionOnSet(f, {}) = h[{}]
  BY <1>1, SumFunctionOnSetIsSum
<1> QED
  BY <1>2 DEF IsSum

(* A sum over a set is the value at the element chosen first, and the rest. *)
LEMMA SumStep ==
  ASSUME NEW S, IsFiniteSet(S), S # {}, NEW f
  PROVE  SumFunctionOnSet(f, S) = f[Some(S)] + SumFunctionOnSet(f, S \ {Some(S)})
<1> DEFINE R == S \ {Some(S)}
<1>1. IsFiniteSet(R)
  BY FS_RemoveElement
<1>2. PICK h : IsSum(h, f, S) /\ SumFunctionOnSet(f, S) = h[S]
  BY SumFunctionOnSetIsSum
<1>3. PICK k : IsSum(k, f, R) /\ SumFunctionOnSet(f, R) = k[R]
  BY <1>1, SumFunctionOnSetIsSum
<1>4. h[R] = k[R]
  BY SMTT(40), <1>1, <1>2, <1>3, SumUnique
<1>5. h[S] = f[Some(S)] + h[R]
  BY <1>2 DEF IsSum
<1> QED
  BY <1>2, <1>3, <1>4, <1>5

(* A sum of naturals is a natural.                                         *)
THEOREM SumType ==
  ASSUME NEW S, IsFiniteSet(S), NEW f, \A x \in S : f[x] \in Nat
  PROVE  SumFunctionOnSet(f, S) \in Nat
<1> DEFINE Bad == {U \in SUBSET S : SumFunctionOnSet(f, U) \notin Nat}
<1> SUFFICES ASSUME Bad # {} PROVE FALSE
  OBVIOUS
<1>1. PICK U \in Bad : \A W \in Bad : W \subseteq U => W = U
  <2>1. Bad \in SUBSET SUBSET S
    OBVIOUS
  <2> HIDE DEF Bad
  <2> QED
    BY <2>1, SmallestSubset
<1>2. U \in SUBSET S /\ IsFiniteSet(U) /\ SumFunctionOnSet(f, U) \notin Nat
  BY FS_Subset
<1>3. U # {}
  BY <1>2, SumOfNothing
<1>4. Some(U) \in U
  BY <1>3, SomeFacts
<1>5. SumFunctionOnSet(f, U \ {Some(U)}) \in Nat
  BY <1>1, <1>2, <1>4
<1>6. SumFunctionOnSet(f, U) = f[Some(U)] + SumFunctionOnSet(f, U \ {Some(U)})
  BY <1>2, <1>3, SumStep
<1>7. f[Some(U)] \in Nat
  BY <1>2, <1>4
<1> QED
  BY <1>2, <1>5, <1>6, <1>7

(* A sum is any one of its values and the sum of the rest.                 *)
THEOREM SumWithout ==
  ASSUME NEW S, IsFiniteSet(S), NEW f, \A x \in S : f[x] \in Nat
  PROVE  \A x \in S : SumFunctionOnSet(f, S) = f[x] + SumFunctionOnSet(f, S \ {x})
<1> DEFINE Rest(U, x) == SumFunctionOnSet(f, U \ {x})
           Splits(U, x) == SumFunctionOnSet(f, U) = f[x] + Rest(U, x)
           Bad == {U \in SUBSET S : \E x \in U : ~ Splits(U, x)}
<1>1. Bad \in SUBSET SUBSET S
  OBVIOUS
<1> SUFFICES ASSUME Bad # {} PROVE FALSE
  OBVIOUS
<1>2. PICK U \in Bad : \A W \in Bad : W \subseteq U => W = U
  <2> HIDE DEF Bad
  <2> QED
    BY <1>1, SmallestSubset
<1>3. PICK x \in U : ~ Splits(U, x)
  OBVIOUS
<1>4. U \in SUBSET S /\ IsFiniteSet(U)
  BY FS_Subset
<1> DEFINE c == Some(U)
<1>5. c \in U /\ Splits(U, c)
  BY <1>4, SumStep, SomeFacts
<1> HIDE DEF c
<1>6. c # x
  BY <1>3, <1>5
<1>7. \A W \in SUBSET U : W # U => \A y \in W : Splits(W, y)
  BY <1>2, <1>4
<1> HIDE DEF Bad
<1>8. Rest(U, c) = f[x] + SumFunctionOnSet(f, (U \ {c}) \ {x})
  BY <1>3, <1>5, <1>6, <1>7
<1>9. Rest(U, x) = f[c] + SumFunctionOnSet(f, (U \ {x}) \ {c})
  BY <1>3, <1>5, <1>6, <1>7
<1>10. (U \ {c}) \ {x} = (U \ {x}) \ {c}
  OBVIOUS
<1>11. SumFunctionOnSet(f, (U \ {x}) \ {c}) \in Nat
  <2>1. IsFiniteSet((U \ {x}) \ {c})
    BY <1>4, FS_RemoveElement
  <2> QED
    BY <1>4, <2>1, SumType
<1>12. f[c] \in Nat /\ f[x] \in Nat
  BY <1>3, <1>4, <1>5
<1>13. Splits(U, x)
  <2> DEFINE rest == SumFunctionOnSet(f, (U \ {x}) \ {c})
  <2>1. SumFunctionOnSet(f, U) = f[c] + (f[x] + rest)
    BY <1>5, <1>8, <1>10
  <2>2. f[c] + (f[x] + rest) = f[x] + (f[c] + rest)
    <3> HIDE DEF rest
    <3> QED
      BY <1>11, <1>12 DEF rest
  <2> QED
    BY <1>9, <2>1, <2>2
<1> QED
  BY <1>3, <1>13

(* A sum of zeros is 0.                                                     *)
THEOREM SumOfZeros ==
  ASSUME NEW S, IsFiniteSet(S)
  PROVE  SumFunctionOnSet([x \in S |-> 0], S) = 0
<1> DEFINE z == [x \in S |-> 0]
           Bad == {U \in SUBSET S : SumFunctionOnSet(z, U) # 0}
<1>1. Bad \in SUBSET SUBSET S
  OBVIOUS
<1>2. ASSUME Bad # {} PROVE FALSE
  <2>1. PICK U \in Bad : \A W \in Bad : W \subseteq U => W = U
    <3> HIDE DEF Bad
    <3> QED
      BY <1>1, <1>2, SmallestSubset
  <2>2. U \in SUBSET S /\ IsFiniteSet(U) /\ SumFunctionOnSet(z, U) # 0
    BY FS_Subset
  <2>3. U # {}
    BY <2>2, SumOfNothing
  <2>4. Some(U) \in U
    BY <2>3, SomeFacts
  <2>5. SumFunctionOnSet(z, U \ {Some(U)}) = 0
    BY <2>1, <2>2, <2>4
  <2>6. SumFunctionOnSet(z, U) = z[Some(U)] + SumFunctionOnSet(z, U \ {Some(U)})
    BY <2>2, <2>3, SumStep
  <2>7. z[Some(U)] = 0
    BY <2>2, <2>4
  <2> QED
    BY <2>2, <2>5, <2>6, <2>7
<1> QED
  BY <1>2

(* A value that changes moves the sum by as much.                          *)
THEOREM SumExcept ==
  ASSUME NEW S, IsFiniteSet(S), NEW f, \A x \in S : f[x] \in Nat, NEW w \in S,
         NEW g, g[w] \in Nat, \A x \in S \ {w} : g[x] = f[x]
  PROVE  SumFunctionOnSet(g, S) + f[w] = SumFunctionOnSet(f, S) + g[w]
<1> DEFINE rest == SumFunctionOnSet(f, S \ {w})
<1>1. IsFiniteSet(S \ {w}) /\ \A x \in S : g[x] \in Nat
  BY FS_RemoveElement
<1>2. SumFunctionOnSet(g, S \ {w}) = rest
  BY <1>1, SumAgree
<1>3. SumFunctionOnSet(f, S) = f[w] + rest /\ SumFunctionOnSet(g, S) = g[w] + rest
  BY <1>1, <1>2, SumWithout
<1>4. rest \in Nat /\ f[w] \in Nat
  BY <1>1, SumType
<1> HIDE DEF rest
<1> QED
  BY <1>3, <1>4

-----------------------------------------------------------------------------
(* Sums over the beginning of a sequence: one element more adds its value. *)
THEOREM SumOfPrefix ==
  ASSUME NEW s, NEW n \in Nat, \A i \in 1 .. n : s[i] \in Nat
  PROVE  /\ n # 0 => SumFunctionOnSet(s, 1 .. n) = s[n] + SumFunctionOnSet(s, 1 .. (n - 1))
         /\ SumFunctionOnSet(s, 1 .. n) \in Nat
         /\ SumFunctionOnSet(s, 1 .. 0) = 0
<1>1. IsFiniteSet(1 .. n)
  BY FS_Interval
<1>2. ASSUME n # 0 PROVE SumFunctionOnSet(s, 1 .. n) = s[n] + SumFunctionOnSet(s, 1 .. (n - 1))
  <2>1. n \in 1 .. n /\ (1 .. n) \ {n} = 1 .. (n - 1)
    BY <1>2
  <2>2. SumFunctionOnSet(s, 1 .. n) = s[n] + SumFunctionOnSet(s, (1 .. n) \ {n})
    BY <1>1, <2>1, SumWithout
  <2> QED
    BY <2>1, <2>2
<1>3. SumFunctionOnSet(s, 1 .. n) \in Nat
  BY <1>1, SumType
<1>4. 1 .. 0 = {}
  OBVIOUS
<1>5. SumFunctionOnSet(s, 1 .. 0) = 0
  BY <1>4, SumOfNothing
<1> QED
  BY <1>2, <1>3, <1>5

(* The sum of a sequence of numbers is a number.                            *)
THEOREM SumOfSequenceType ==
  ASSUME NEW s \in Seq(Nat)
  PROVE  SumFunction(s) \in Nat
<1>1. DOMAIN s = 1 .. Len(s) /\ Len(s) \in Nat /\ \A i \in 1 .. Len(s) : s[i] \in Nat
  OBVIOUS
<1>2. SumFunctionOnSet(s, 1 .. Len(s)) \in Nat
  BY <1>1, SumOfPrefix
<1> QED
  BY <1>1, <1>2 DEF SumFunction

(* A sequence sums up to its head and the sum of its tail.                 *)
THEOREM SumOfTail ==
  ASSUME NEW s \in Seq(Nat), s # <<>>
  PROVE  SumFunction(s) = Head(s) + SumFunction(Tail(s))
<1> DEFINE t == Tail(s)
           Upto(f, n) == SumFunctionOnSet(f, 1 .. n)
           Splits(n) == Upto(s, n + 1) = s[1] + Upto(t, n)
           Bad == {n \in 0 .. Len(t) : ~ Splits(n)}
<1>1. /\ t \in Seq(Nat) /\ Len(s) \in Nat /\ Len(t) = Len(s) - 1 /\ Len(t) \in Nat
      /\ \A i \in 1 .. Len(t) : t[i] = s[i + 1] /\ t[i] \in Nat
      /\ \A i \in 1 .. Len(s) : s[i] \in Nat
      /\ s[1] = Head(s)
  OBVIOUS
<1>2. \A n \in 0 .. Len(t) : Splits(n)
  <2> SUFFICES ASSUME Bad # {} PROVE FALSE
    OBVIOUS
  <2>1. Bad \in SUBSET Nat
    OBVIOUS
  <2>2. PICK n \in Bad : \A m \in Bad : n <= m
    <3> HIDE DEF Bad
    <3> QED
      BY <2>1, LeastNat
  <2>3. n \in 0 .. Len(t) /\ n \in Nat /\ n + 1 \in 1 .. Len(s) /\ ~ Splits(n)
    BY <1>1
  <2> HIDE DEF t
  <2>4. Upto(s, n + 1) = s[n + 1] + Upto(s, n)
    <3>1. n + 1 \in Nat /\ n + 1 # 0 /\ (n + 1) - 1 = n /\ \A i \in 1 .. (n + 1) : s[i] \in Nat
      BY SMTT(40), <1>1, <2>3
    <3> QED
      BY <3>1, SumOfPrefix
  <2>5. Upto(t, 0) = 0 /\ Upto(s, 0) = 0
    <3>1. 1 .. 0 = {}
      OBVIOUS
    <3> QED
      BY <3>1, SumOfNothing
  <2>6. CASE n = 0
    <3>1. Upto(s, 1) = s[1] + Upto(s, 0) /\ s[1] \in Nat
      BY <1>1, <2>3, <2>4, <2>6
    <3> HIDE DEF Upto
    <3> QED
      BY <2>3, <2>5, <2>6, <3>1
  <2>7. CASE n # 0
    <3>1. n - 1 \in 0 .. Len(t) /\ n - 1 \notin Bad /\ (n - 1) + 1 = n
      <4> HIDE DEF Bad
      <4> QED
        BY SMTT(40), <1>1, <2>2, <2>3, <2>7
    <3>2. Upto(s, n) = s[1] + Upto(t, n - 1)
      BY <3>1
    <3>3. Upto(t, n) = t[n] + Upto(t, n - 1)
      <4>1. \A i \in 1 .. n : t[i] \in Nat
        BY <1>1, <2>3
      <4> QED
        BY <2>3, <2>7, <4>1, SumOfPrefix
    <3>4. Upto(t, n - 1) \in Nat
      <4>1. n - 1 \in Nat /\ \A i \in 1 .. (n - 1) : t[i] \in Nat
        BY <1>1, <2>3, <3>1
      <4> QED
        BY <4>1, SumOfPrefix
    <3>5. t[n] = s[n + 1] /\ t[n] \in Nat /\ s[1] \in Nat
      BY <1>1, <2>3, <2>7
    <3>6. \A a, b, c \in Nat : a + (b + c) = b + (a + c)
      OBVIOUS
    <3>7. s[n + 1] + (s[1] + Upto(t, n - 1)) = s[1] + (t[n] + Upto(t, n - 1))
      <4> DEFINE r == Upto(t, n - 1)
      <4>1. r \in Nat /\ t[n] \in Nat /\ s[1] \in Nat /\ s[n + 1] = t[n]
        BY <3>4, <3>5
      <4> HIDE DEF r
      <4>2. t[n] + (s[1] + r) = s[1] + (t[n] + r)
        BY <3>6, <4>1
      <4> QED
        BY <4>1, <4>2 DEF r
    <3> QED
      BY <2>3, <2>4, <3>2, <3>3, <3>7
  <2> QED
    BY <2>6, <2>7
<1>3. DOMAIN s = 1 .. Len(s) /\ DOMAIN t = 1 .. Len(t)
  BY <1>1
<1>4. Upto(s, Len(s)) = Head(s) + Upto(t, Len(t))
  BY <1>1, <1>2
<1> QED
  BY <1>3, <1>4 DEF SumFunction

(* One number more adds itself.                                             *)
THEOREM SumOfAppend ==
  ASSUME NEW s \in Seq(Nat), NEW n \in Nat
  PROVE  SumFunction(Append(s, n)) = SumFunction(s) + n
<1> DEFINE t == Append(s, n)
<1>1. /\ t \in Seq(Nat) /\ Len(s) \in Nat /\ DOMAIN s = 1 .. Len(s) /\ DOMAIN t = 1 .. Len(s) + 1
      /\ t[Len(s) + 1] = n /\ \A i \in 1 .. Len(s) : t[i] = s[i]
      /\ \A i \in 1 .. Len(s) + 1 : t[i] \in Nat
      /\ \A i \in 1 .. Len(s) : s[i] \in Nat
  OBVIOUS
<1> HIDE DEF t
<1>2. Len(s) + 1 \in Nat /\ Len(s) + 1 # 0 /\ (Len(s) + 1) - 1 = Len(s)
  BY <1>1
<1>3. SumFunctionOnSet(t, 1 .. Len(s) + 1) = n + SumFunctionOnSet(t, 1 .. Len(s))
  BY <1>1, <1>2, SumOfPrefix
<1>4. SumFunctionOnSet(t, 1 .. Len(s)) = SumFunctionOnSet(s, 1 .. Len(s))
  <2>1. IsFiniteSet(1 .. Len(s))
    BY <1>1, FS_Interval
  <2> QED
    BY <1>1, <2>1, SumAgree
<1>5. SumFunctionOnSet(s, 1 .. Len(s)) \in Nat
  BY <1>1, SumOfPrefix
<1>6. SumFunction(t) = SumFunctionOnSet(t, 1 .. Len(s) + 1) /\ SumFunction(s) = SumFunctionOnSet(s, 1 .. Len(s))
  BY <1>1 DEF SumFunction
<1>7. SumFunction(t) = SumFunction(s) + n
  BY <1>3, <1>4, <1>5, <1>6
<1> QED
  BY <1>7 DEF t

(* The first numbers of a sequence sum up to no more than all of them.      *)
THEOREM SumOfFirst ==
  ASSUME NEW s \in Seq(Nat), NEW k \in 1 .. Len(s)
  PROVE  /\ SumFunction(SubSeq(s, 1, k - 1)) \in Nat
         /\ SumFunction(SubSeq(s, 1, k - 1)) + s[k] <= SumFunction(s)
<1> DEFINE t == SubSeq(s, 1, k - 1)
           Upto(n) == SumFunctionOnSet(s, 1 .. n)
           Bad == {n \in k .. Len(s) : ~(Upto(k) <= Upto(n))}
<1>1. /\ Len(s) \in Nat /\ DOMAIN s = 1 .. Len(s) /\ \A i \in 1 .. Len(s) : s[i] \in Nat
      /\ k \in Nat /\ k - 1 \in Nat /\ k # 0 /\ k <= Len(s)
  OBVIOUS
<1>2. \A n \in 0 .. Len(s) : Upto(n) \in Nat /\ (n # 0 => Upto(n) = s[n] + Upto(n - 1))
  <2> TAKE n \in 0 .. Len(s)
  <2>1. n \in Nat /\ \A i \in 1 .. n : s[i] \in Nat
    BY <1>1
  <2> QED
    BY <2>1, SumOfPrefix
<1> HIDE DEF Upto
<1>3. \A n \in k .. Len(s) : Upto(k) <= Upto(n)
  <2> SUFFICES ASSUME Bad # {} PROVE FALSE
    OBVIOUS
  <2>1. PICK n \in Bad : \A m \in Bad : n <= m
    <3>1. Bad \in SUBSET Nat
      OBVIOUS
    <3> HIDE DEF Bad
    <3> QED
      BY <3>1, LeastNat
  <2>2. n \in k .. Len(s) /\ ~(Upto(k) <= Upto(n))
    OBVIOUS
  <2>3. n # k
    <3>1. Upto(k) \in Nat
      BY <1>1, <1>2
    <3> QED
      BY <2>2, <3>1
  <2>4. n - 1 \in k .. Len(s) /\ n - 1 < n /\ n \in 0 .. Len(s) /\ n - 1 \in 0 .. Len(s) /\ k \in 0 .. Len(s) /\ n # 0
    <3>1. n \in Nat /\ k <= n /\ n <= Len(s)
      BY <1>1, <2>2
    <3> QED
      BY ONLY <1>1, <2>3, <3>1
  <2>5. n - 1 \notin Bad
    <3>1. n - 1 \in Nat /\ n \in Nat
      BY <1>1, <2>4
    <3> HIDE DEF Bad
    <3> QED
      BY <2>1, <2>4, <3>1
  <2>6. Upto(k) <= Upto(n - 1)
    BY <2>4, <2>5
  <2>7. Upto(n) = s[n] + Upto(n - 1) /\ Upto(n - 1) \in Nat /\ Upto(k) \in Nat /\ s[n] \in Nat /\ Upto(n) \in Nat
    <3>1. n \in 1 .. Len(s)
      BY <2>4
    <3> QED
      BY <1>1, <1>2, <2>4, <3>1
  <2> QED
    BY ONLY <2>2, <2>6, <2>7
<1>4. t \in Seq(Nat) /\ Len(t) = k - 1 /\ DOMAIN t = 1 .. k - 1 /\ \A i \in 1 .. k - 1 : t[i] = s[i]
  BY <1>1
<1> HIDE DEF t
<1>5. SumFunction(t) = Upto(k - 1)
  <2>1. IsFiniteSet(1 .. k - 1)
    BY <1>1, FS_Interval
  <2>2. SumFunctionOnSet(t, 1 .. k - 1) = SumFunctionOnSet(s, 1 .. k - 1)
    BY <1>4, <2>1, SumAgree
  <2> QED
    BY <1>4, <2>2 DEF SumFunction, Upto
<1>6. SumFunction(s) = Upto(Len(s))
  BY <1>1 DEF SumFunction, Upto
<1>7. Upto(k) = s[k] + Upto(k - 1) /\ Upto(k - 1) \in Nat /\ Upto(k) <= Upto(Len(s)) /\ s[k] \in Nat
  <2>1. k \in 0 .. Len(s) /\ k - 1 \in 0 .. Len(s) /\ Len(s) \in k .. Len(s)
    BY <1>1
  <2> QED
    BY <1>1, <1>2, <1>3, <2>1
<1>8. SumFunction(t) \in Nat /\ SumFunction(t) + s[k] <= SumFunction(s)
  BY ONLY <1>5, <1>6, <1>7
<1> QED
  BY <1>8 DEF t

-----------------------------------------------------------------------------
(* Sets in an order.                                                        *)

(* There are n numbers up to n.                                             *)
LEMMA CountUpto ==
  ASSUME NEW n \in Nat
  PROVE  IsFiniteSet(1 .. n) /\ Cardinality(1 .. n) = n
<1>1. IsFiniteSet(1 .. n) /\ Cardinality(1 .. n) = IF 1 > n THEN 0 ELSE n - 1 + 1
  BY FS_Interval
<1> QED
  BY <1>1

(* An order of a set: R[x] is what comes before x.                          *)
Orders(R, S) ==
  /\ R \in [S -> SUBSET S]
  /\ \A x \in S : x \notin R[x]
  /\ \A x, y \in S : x # y => x \in R[y] \/ y \in R[x]
  /\ \A x, y, z \in S : x \in R[y] /\ y \in R[z] => x \in R[z]

Rank(R, x) == Cardinality(R[x])

(* What comes earlier has fewer elements before it.                         *)
LEMMA RankGrows ==
  ASSUME NEW S, IsFiniteSet(S), NEW R, Orders(R, S), NEW x \in S, NEW y \in S, x \in R[y]
  PROVE  Rank(R, x) < Rank(R, y)
<1> DEFINE X == R[x]
           Y == R[y]
<1>1. X \subseteq Y /\ x \in Y /\ x \notin X
  BY DEF Orders
<1>2. IsFiniteSet(Y) /\ IsFiniteSet(X)
  BY FS_Subset DEF Orders
<1>3. Cardinality(X) <= Cardinality(Y) /\ (Cardinality(X) = Cardinality(Y) => X = Y)
  <2> HIDE DEF X, Y
  <2> QED
    BY <1>1, <1>2, FS_Subset
<1>4. Cardinality(X) \in Nat /\ Cardinality(Y) \in Nat
  BY <1>2, FS_CardinalityType
<1>5. Cardinality(X) # Cardinality(Y)
  BY <1>1, <1>3
<1>6. Rank(R, x) = Cardinality(X) /\ Rank(R, y) = Cardinality(Y)
  BY DEF Rank
<1> HIDE DEF X, Y
<1> QED
  BY <1>3, <1>4, <1>5, <1>6

(* So for each number below their count one element has that many before    *)
(* it.                                                                      *)
LEMMA RankExists ==
  ASSUME NEW S, IsFiniteSet(S), NEW R, Orders(R, S), NEW n \in 1 .. Cardinality(S)
  PROVE  \E x \in S : Rank(R, x) = n - 1
<1> DEFINE k == Cardinality(S)
           T == 0 .. (k - 1)
           f == [x \in S |-> Rank(R, x)]
<1>1. k \in Nat
  BY FS_CardinalityType
<1>2. \A x \in S : Rank(R, x) \in T
  <2> TAKE x \in S
  <2>1. R[x] \subseteq S \ {x}
    BY DEF Orders
  <2>2. IsFiniteSet(S \ {x}) /\ Cardinality(S \ {x}) = k - 1
    BY FS_RemoveElement
  <2>3. Cardinality(R[x]) <= Cardinality(S \ {x}) /\ IsFiniteSet(R[x])
    BY <2>1, <2>2, FS_Subset
  <2>4. Cardinality(R[x]) \in Nat
    BY <2>3, FS_CardinalityType
  <2>5. Rank(R, x) \in Nat /\ Rank(R, x) <= k - 1
    BY <2>2, <2>3, <2>4 DEF Rank
  <2> HIDE DEF k
  <2> QED
    BY <1>1, <2>5
<1>3. \A x, y \in S : x # y => Rank(R, x) # Rank(R, y)
  <2> TAKE x, y \in S
  <2> HAVE x # y
  <2>1. x \in R[y] \/ y \in R[x]
    BY DEF Orders
  <2>2. Rank(R, x) < Rank(R, y) \/ Rank(R, y) < Rank(R, x)
    BY <2>1, RankGrows
  <2>3. Rank(R, x) \in Nat /\ Rank(R, y) \in Nat
    BY <1>1, <1>2
  <2> QED
    BY <2>2, <2>3
<1>4. f \in Injection(S, T)
  BY <1>2, <1>3 DEF Injection, IsInjective
<1>5. IsFiniteSet(T) /\ Cardinality(T) = k
  <2> HIDE DEF k
  <2>1. k - 1 \in Int /\ 0 \in Int
    BY <1>1
  <2>2. IsFiniteSet(T) /\ Cardinality(T) = IF 0 > k - 1 THEN 0 ELSE (k - 1) - 0 + 1
    BY <2>1, FS_Interval
  <2> QED
    BY <1>1, <2>2
<1>6. f \in Surjection(S, T)
  <2> HIDE DEF f, T
  <2> QED
    BY <1>4, <1>5, FS_Injection
<1>7. n - 1 \in T
  BY <1>1
<1>8. \E x \in S : f[x] = n - 1
  <2> HIDE DEF f, T
  <2> QED
    BY <1>6, <1>7 DEF Surjection
<1> QED
  BY <1>8

(* A sequence whose n-th element has n - 1 elements before it holds every   *)
(* element once, each after those before it.                                *)
Sorted(s, S, R) ==
  /\ s \in Seq(S) /\ Len(s) = Cardinality(S) /\ DOMAIN s = 1 .. Cardinality(S)
  /\ \A n \in DOMAIN s : s[n] \in S
  /\ \A x \in S : \E n \in DOMAIN s : s[n] = x
  /\ \A m, n \in DOMAIN s : m < n => s[m] \in R[s[n]]

(* A sequence that gives each rank its element is sorted.                   *)
LEMMA RankedIsSorted ==
  ASSUME NEW S, IsFiniteSet(S), NEW R, Orders(R, S), NEW s,
         s \in [1 .. Cardinality(S) -> S], \A n \in 1 .. Cardinality(S) : Rank(R, s[n]) = n - 1
  PROVE  Sorted(s, S, R)
<1> DEFINE k == Cardinality(S)
<1>1. k \in Nat
  BY FS_CardinalityType
<1>2. \A m, n \in 1 .. k : m < n => s[m] \in R[s[n]]
  <2> TAKE m, n \in 1 .. k
  <2> HAVE m < n
  <2>1. s[m] \in S /\ s[n] \in S /\ Rank(R, s[m]) = m - 1 /\ Rank(R, s[n]) = n - 1
    OBVIOUS
  <2>2. m - 1 # n - 1 /\ ~ (n - 1 < m - 1)
    BY <1>1
  <2>3. s[n] \notin R[s[m]]
    BY <2>1, <2>2, RankGrows
  <2>4. s[m] # s[n]
    BY <2>1, <2>2
  <2> QED
    BY <2>1, <2>3, <2>4 DEF Orders
<1>3. \A x \in S : \E n \in 1 .. k : s[n] = x
  <2>1. s \in Injection(1 .. k, S)
    <3>1. \A m, n \in 1 .. k : m # n => s[m] # s[n]
      <4> TAKE m, n \in 1 .. k
      <4>1. m # n => m - 1 # n - 1
        BY <1>1
      <4> QED
        BY <4>1
    <3> QED
      BY <3>1 DEF Injection, IsInjective
  <2>2. Cardinality(1 .. k) = Cardinality(S)
    BY <1>1, FS_Interval
  <2>3. s \in Surjection(1 .. k, S)
    BY <2>1, <2>2, FS_Injection
  <2> QED
    BY <2>3 DEF Surjection
<1>4. s \in Seq(S) /\ Len(s) = k /\ DOMAIN s = 1 .. k
  <2> HIDE DEF k
  <2> QED
    BY <1>1 DEF k
<1> QED
  BY <1>2, <1>3, <1>4 DEF Sorted

(* The order of a key that is another one for each element.                 *)
Below(K, S) == [x \in S |-> {y \in S : K[y] < K[x]}]

(* There is one element of each rank, and taking them by rank sorts.        *)
LEMMA KeysSort ==
  ASSUME NEW S, IsFiniteSet(S), NEW K \in [S -> Nat], \A x, y \in S : K[x] = K[y] => x = y
  PROVE  /\ \A n \in 1 .. Cardinality(S) : \E x \in S : Rank(Below(K, S), x) = n - 1
         /\ \A q : /\ DOMAIN q = 1 .. Cardinality(S) /\ q = [n \in DOMAIN q |-> q[n]]
                   /\ \A n \in 1 .. Cardinality(S) : q[n] \in S /\ Rank(Below(K, S), q[n]) = n - 1
                   => Sorted(q, S, Below(K, S))
<1> DEFINE R == Below(K, S)
<1>1. Orders(R, S)
  BY DEF Orders, Below
<1> HIDE DEF R
<1>2. \A n \in 1 .. Cardinality(S) : \E x \in S : Rank(R, x) = n - 1
  BY <1>1, RankExists
<1>3. ASSUME NEW q, DOMAIN q = 1 .. Cardinality(S), q = [n \in DOMAIN q |-> q[n]],
             \A n \in 1 .. Cardinality(S) : q[n] \in S /\ Rank(R, q[n]) = n - 1
      PROVE  Sorted(q, S, R)
  <2>1. q \in [1 .. Cardinality(S) -> S]
    BY <1>3
  <2> QED
    BY <1>1, <1>3, <2>1, RankedIsSorted
<1> QED
  BY <1>2, <1>3 DEF R

(* Numbers in their own order.                                              *)
Ascending(S) == [n \in S |-> {m \in S : m < n}]

(* Taking them by how many are smaller sorts them.                          *)
LEMMA AscendingSorts ==
  ASSUME NEW S \in SUBSET Nat, IsFiniteSet(S)
  PROVE  Sorted([n \in 1 .. Cardinality(S) |-> CHOOSE x \in S : Cardinality({y \in S : y < x}) = n - 1],
                S, Ascending(S))
<1> DEFINE R == Ascending(S)
           s == [n \in 1 .. Cardinality(S) |-> CHOOSE x \in S : Cardinality({y \in S : y < x}) = n - 1]
<1>1. Orders(R, S)
  BY DEF Orders, Ascending
<1>2. \A x \in S : Rank(R, x) = Cardinality({y \in S : y < x})
  BY DEF Rank, Ascending
<1>3. \A n \in 1 .. Cardinality(S) : \E x \in S : Cardinality({y \in S : y < x}) = n - 1
  <2> TAKE n \in 1 .. Cardinality(S)
  <2> HIDE DEF R
  <2>1. PICK x \in S : Rank(R, x) = n - 1
    BY <1>1, RankExists
  <2> QED
    BY <1>2, <2>1
<1>4. s = [n \in 1 .. Cardinality(S) |-> CHOOSE x \in S : Cardinality({y \in S : y < x}) = n - 1]
  OBVIOUS
<1>5. \A n \in 1 .. Cardinality(S) : s[n] \in S /\ Cardinality({y \in S : y < s[n]}) = n - 1
  <2> HIDE DEF s
  <2> QED
    BY <1>3, <1>4
<1>6. s \in [1 .. Cardinality(S) -> S]
  <2> HIDE DEF s
  <2> QED
    BY <1>4, <1>5
<1>7. \A n \in 1 .. Cardinality(S) : Rank(R, s[n]) = n - 1
  BY <1>2, <1>5
<1> HIDE DEF s, R
<1> QED
  BY <1>1, <1>6, <1>7, RankedIsSorted DEF s, R

(* The greatest of some positions is one of them.                           *)
LEMMA MaxFacts ==
  ASSUME NEW s \in SUBSET Nat, IsFiniteSet(s), s # {}
  PROVE  Max(s) \in s /\ \A x \in s : x <= Max(s)
<1> DEFINE k == Cardinality(s)
<1>1. PICK q : Sorted(q, s, Ascending(s))
  BY AscendingSorts
<1>2. k \in Nat /\ k # 0
  BY FS_CardinalityType, FS_EmptySet
<1>3. /\ DOMAIN q = 1 .. k /\ \A n \in 1 .. k : q[n] \in s
      /\ \A x \in s : \E n \in 1 .. k : q[n] = x
      /\ \A m, n \in 1 .. k : m < n => q[m] \in Ascending(s)[q[n]]
  BY <1>1 DEF Sorted
<1> HIDE DEF k
<1>4. k \in 1 .. k
  BY <1>2
<1>4a. \A x \in s : x <= q[k]
  <2> TAKE x \in s
  <2>1. PICK n \in 1 .. k : q[n] = x
    BY <1>3
  <2>2. q[k] \in s /\ q[k] \in Nat /\ x \in Nat
    BY <1>3, <1>4
  <2>3. ASSUME n < k PROVE x < q[k]
    <3>1. x \in Ascending(s)[q[k]]
      BY <1>3, <1>4, <2>1, <2>3
    <3> QED
      BY <2>2, <3>1 DEF Ascending
  <2>4. n = k => x = q[k]
    BY <2>1
  <2>5. n < k \/ n = k
    BY <1>2
  <2> QED
    BY <2>2, <2>3, <2>4, <2>5
<1>5. \E m \in s : \A x \in s : m >= x
  <2>1. q[k] \in s
    BY <1>3, <1>4
  <2>2. \A x \in s : q[k] >= x
    BY <1>4a
  <2> QED
    BY <2>1, <2>2
<1>6. Max(s) \in s /\ \A x \in s : Max(s) >= x
  BY <1>5 DEF Max
<1> QED
  BY <1>6

(* And the least.                                                           *)
LEMMA MinFacts ==
  ASSUME NEW s \in SUBSET Nat, s # {}
  PROVE  Min(s) \in s /\ \A x \in s : Min(s) <= x
<1>1. PICK n \in s : \A x \in s : n <= x
  BY LeastNat
<1> QED
  BY <1>1 DEF Min

-----------------------------------------------------------------------------
(* Sequences laid end to end.                                               *)

Flatten(ss) ==
  LET flatten[i \in 1 .. Len(ss)] == IF i = 1 THEN ss[i] ELSE flatten[i - 1] \o ss[i]
  IN  flatten[Len(ss)]

(* Two sequences with the same bytes are the same.                          *)
LEMMA SameSequence ==
  ASSUME NEW B, NEW s \in Seq(B), NEW t \in Seq(B), Len(s) = Len(t),
         \A k \in 1 .. Len(s) : s[k] = t[k]
  PROVE  s = t
OBVIOUS

(* What a concatenation holds, and where.                                   *)
LEMMA ConcatFacts ==
  ASSUME NEW B, NEW s \in Seq(B), NEW t \in Seq(B)
  PROVE  /\ s \o t \in Seq(B)
         /\ Len(s \o t) = Len(s) + Len(t)
         /\ \A k \in 1 .. Len(s) : (s \o t)[k] = s[k]
         /\ \A k \in 1 .. Len(t) : (s \o t)[Len(s) + k] = t[k]
OBVIOUS

(* The recursive function of Flatten has a value.                           *)
LEMMA FlattenExists ==
  ASSUME NEW ss, NEW n \in Nat
  PROVE  \E f : f = [i \in 1 .. n |-> IF i = 1 THEN ss[i] ELSE f[i - 1] \o ss[i]]
<1> DEFINE Solves(f, m) == f = [i \in 1 .. m |-> IF i = 1 THEN ss[i] ELSE f[i - 1] \o ss[i]]
           Bad == {m \in Nat : \A f : ~ Solves(f, m)}
<1> SUFFICES n \notin Bad
  OBVIOUS
<1> SUFFICES ASSUME Bad # {} PROVE FALSE
  OBVIOUS
<1>1. PICK m \in Bad : \A k \in Bad : m <= k
  <2>1. Bad \in SUBSET Nat
    OBVIOUS
  <2> HIDE DEF Bad
  <2> QED
    BY <2>1, LeastNat
<1>2. m \in Nat /\ \A f : ~ Solves(f, m)
  OBVIOUS
<1>3. CASE m = 0
  <2> DEFINE f == [i \in 1 .. 0 |-> 0]
  <2>1. Solves(f, 0)
    OBVIOUS
  <2> QED
    BY <1>2, <1>3, <2>1
<1>4. CASE m # 0
  <2>1. m - 1 \in Nat /\ m - 1 \notin Bad
    <3> HIDE DEF Bad
    <3> QED
      BY <1>1, <1>2, <1>4
  <2>2. PICK g : Solves(g, m - 1)
    BY <2>1
  <2> DEFINE f == [i \in 1 .. m |-> IF i = 1 THEN ss[i] ELSE g[i - 1] \o ss[i]]
  <2>3. \A i \in 1 .. (m - 1) : f[i] = g[i]
    <3> SUFFICES ASSUME NEW i \in 1 .. (m - 1) PROVE f[i] = g[i]
      OBVIOUS
    <3>1. g[i] = IF i = 1 THEN ss[i] ELSE g[i - 1] \o ss[i]
      <4> HIDE DEF f
      <4> QED
        BY <2>2
    <3>2. i \in 1 .. m
      BY <1>2
    <3> QED
      BY <3>1, <3>2
  <2>4. \A i \in 1 .. m : i # 1 => f[i - 1] = g[i - 1]
    <3> HIDE DEF f
    <3> QED
      BY <1>2, <2>3
  <2>5. Solves(f, m)
    BY <2>4
  <2> QED
    BY <1>2, <2>5
<1> QED
  BY <1>3, <1>4

LaysOut(f, ss, n) == \A i \in 1 .. n : f[i] = IF i = 1 THEN ss[i] ELSE f[i - 1] \o ss[i]
Agree(s, t, n) == \A i \in 1 .. n : s[i] = t[i]
AreIn(S, ss, n) == \A i \in 1 .. n : ss[i] \in S

(* As far as two sequences agree, the values of that function do.           *)
LEMMA FlattenAgrees ==
  ASSUME NEW B, NEW n \in Nat, NEW ss, NEW f, NEW tt, NEW g,
         AreIn(Seq(B), ss, n), LaysOut(f, ss, n), Agree(tt, ss, n), LaysOut(g, tt, n)
  PROVE  AreIn(Seq(B), f, n) /\ Agree(g, f, n)
<1> DEFINE Bad == {i \in 1 .. n : ~(f[i] \in Seq(B) /\ g[i] = f[i])}
<1> SUFFICES ASSUME Bad # {} PROVE FALSE
  BY DEF AreIn, Agree
<1>1. PICK k \in Bad : \A i \in Bad : k <= i
  <2>1. Bad \in SUBSET Nat
    OBVIOUS
  <2> HIDE DEF Bad
  <2> QED
    BY <2>1, LeastNat
<1>2. k \in 1 .. n /\ ~(f[k] \in Seq(B) /\ g[k] = f[k])
  OBVIOUS
<1>3. k - 1 \in 1 .. n => f[k - 1] \in Seq(B) /\ g[k - 1] = f[k - 1]
  <2>1. k - 1 \notin Bad
    <3> HIDE DEF Bad
    <3> QED
      BY <1>1, <1>2
  <2> QED
    BY <2>1
<1> HIDE DEF Bad
<1>4. f[k] = IF k = 1 THEN ss[k] ELSE f[k - 1] \o ss[k]
  BY <1>2 DEF LaysOut
<1>5. g[k] = IF k = 1 THEN tt[k] ELSE g[k - 1] \o tt[k]
  BY <1>2 DEF LaysOut
<1>6. ss[k] \in Seq(B) /\ tt[k] = ss[k] /\ (k = 1 \/ k - 1 \in 1 .. n)
  BY <1>2 DEF AreIn, Agree
<1>7. CASE k = 1
  BY <1>2, <1>4, <1>5, <1>6, <1>7
<1>8. CASE k # 1
  <2>1. f[k] = f[k - 1] \o ss[k] /\ g[k] = f[k - 1] \o ss[k] /\ f[k - 1] \in Seq(B) /\ ss[k] \in Seq(B)
    BY <1>3, <1>4, <1>5, <1>6, <1>8
  <2>2. f[k - 1] \o ss[k] \in Seq(B)
    BY ONLY <2>1, ConcatFacts
  <2> QED
    BY <1>2, <2>1, <2>2
<1> QED
  BY <1>7, <1>8

(* Sequences laid end to end, FlattenSeq of the community modules: of none, *)
(* the empty sequence.                                                      *)
EndToEnd(ss) == IF Len(ss) = 0 THEN ss ELSE Flatten(ss)

(* One more is laid at the end.                                             *)
LEMMA EndToEndFacts ==
  ASSUME NEW B, NEW ss \in Seq(Seq(B))
  PROVE  /\ EndToEnd(ss) \in Seq(B)
         /\ EndToEnd(<<>>) = <<>>
         /\ \A s \in Seq(B) : EndToEnd(Append(ss, s)) = EndToEnd(ss) \o s
<1> DEFINE n == Len(ss)
<1>0. n \in Nat /\ \A i \in 1 .. n : ss[i] \in Seq(B)
  OBVIOUS
<1>1. AreIn(Seq(B), ss, n) /\ Agree(ss, ss, n)
  BY <1>0 DEF AreIn, Agree
<1>2. PICK f : f = [i \in 1 .. n |-> IF i = 1 THEN ss[i] ELSE f[i - 1] \o ss[i]]
  <2> HIDE DEF n
  <2> QED
    BY <1>0, FlattenExists
<1> DEFINE ff == CHOOSE x : x = [i \in 1 .. n |-> IF i = 1 THEN ss[i] ELSE x[i - 1] \o ss[i]]
<1>4. ff = [i \in 1 .. n |-> IF i = 1 THEN ss[i] ELSE ff[i - 1] \o ss[i]]
  BY <1>2
<1>5. Flatten(ss) = ff[n]
  BY DEF Flatten
<1> HIDE DEF ff
<1>6. n = 0 => ss = <<>>
  OBVIOUS
<1>7. EndToEnd(ss) = IF n = 0 THEN <<>> ELSE ff[n]
  BY <1>5, <1>6 DEF EndToEnd
<1>8. n # 0 => n \in 1 .. n
  BY <1>0
<1>9. EndToEnd(ss) \in Seq(B)
  <2>1. CASE n = 0
    BY <1>7, <2>1
  <2>2. CASE n # 0
    <3>1. LaysOut(ff, ss, n)
      BY <1>4 DEF LaysOut
    <3>2. AreIn(Seq(B), ff, n)
      BY <1>0, <1>1, <3>1, FlattenAgrees, Zenon
    <3>3. ff[n] \in Seq(B)
      BY <1>8, <2>2, <3>2 DEF AreIn
    <3> QED
      BY <1>7, <2>2, <3>3
  <2> QED
    BY <2>1, <2>2
<1>10. ASSUME NEW s \in Seq(B) PROVE EndToEnd(Append(ss, s)) = EndToEnd(ss) \o s
  <2> DEFINE tt == Append(ss, s)
             g == CHOOSE x : x = [i \in 1 .. n + 1 |-> IF i = 1 THEN tt[i] ELSE x[i - 1] \o tt[i]]
  <2>1. Len(tt) = n + 1 /\ tt[n + 1] = s /\ \A i \in 1 .. n : tt[i] = ss[i]
    OBVIOUS
  <2>2. \E x : x = [i \in 1 .. n + 1 |-> IF i = 1 THEN tt[i] ELSE x[i - 1] \o tt[i]]
    <3>1. n + 1 \in Nat
      BY <1>0
    <3> HIDE DEF tt, n
    <3> QED
      BY <3>1, FlattenExists
  <2>3. g = [i \in 1 .. n + 1 |-> IF i = 1 THEN tt[i] ELSE g[i - 1] \o tt[i]]
    <3> HIDE DEF tt, n
    <3> QED
      BY <2>2
  <2>4. Flatten(tt) = g[n + 1]
    <3>1. Flatten(tt) = LET flatten == CHOOSE x : x = [i \in 1 .. Len(tt) |-> IF i = 1 THEN tt[i] ELSE x[i - 1] \o tt[i]]
                        IN  flatten[Len(tt)]
      BY DEF Flatten
    <3> HIDE DEF tt, n
    <3> QED
      BY <2>1, <3>1
  <2> HIDE DEF tt, g, n
  <2>5. EndToEnd(tt) = g[n + 1]
    BY <1>0, <2>1, <2>4 DEF EndToEnd
  <2>6. g[n + 1] = IF n + 1 = 1 THEN s ELSE g[n] \o s
    <3>1. n + 1 \in 1 .. n + 1 /\ n + 1 - 1 = n
      BY <1>0
    <3>a. \A i \in 1 .. n + 1 : g[i] = IF i = 1 THEN tt[i] ELSE g[i - 1] \o tt[i]
      BY <2>3
    <3>b. PICK k : k = n + 1
      OBVIOUS
    <3>2. g[k] = IF k = 1 THEN tt[k] ELSE g[k - 1] \o tt[k]
      BY ONLY <3>1, <3>a, <3>b
    <3>3. k - 1 = n /\ tt[k] = s
      <4>1. tt[n + 1] = s
        BY <2>1
      <4>2. n \in Nat
        BY <1>0
      <4>3. k - 1 = n
        BY ONLY <3>b, <4>2
      <4> QED
        BY ONLY <4>1, <4>3, <3>b
    <3> QED
      BY ONLY <3>b, <3>2, <3>3
  <2>7. CASE n = 0
    <3>1. <<>> \o s = s
      BY ConcatEmptySeq
    <3> QED
      BY <1>7, <2>5, <2>6, <2>7, <3>1 DEF tt
  <2>8. CASE n # 0
    <3>1. \A i \in 1 .. n : g[i] = ff[i]
      <4>1. LaysOut(ff, ss, n)
        BY <1>4 DEF LaysOut
      <4>2. LaysOut(g, tt, n)
        <5>1. \A i \in 1 .. n : i \in 1 .. n + 1
          BY <1>0
        <5> QED
          BY <2>3, <5>1 DEF LaysOut
      <4>3. Agree(tt, ss, n)
        BY <2>1 DEF Agree
      <4>4. Agree(g, ff, n)
        BY <1>0, <1>1, <4>1, <4>2, <4>3, FlattenAgrees, Zenon
      <4> QED
        BY <4>4 DEF Agree
    <3>2. g[n] = ff[n] /\ n + 1 # 1
      BY <1>0, <1>8, <2>8, <3>1
    <3> QED
      BY <1>7, <2>5, <2>6, <2>8, <3>2 DEF tt
  <2> QED
    BY <2>7, <2>8
<1>11. EndToEnd(<<>>) = <<>>
  BY DEF EndToEnd
<1> QED
  BY <1>9, <1>10, <1>11
=============================================================================
