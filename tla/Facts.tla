------------------------------- MODULE Facts --------------------------------
(***************************************************************************)
(* Facts about numbers, sums, sequences and streams of bytes the proofs of *)
(* several modules use.  Induction is stated with sets instead of          *)
(* predicates: a set that contains 0 and with a number its successor       *)
(* contains all numbers.                                                   *)
(***************************************************************************)
EXTENDS Framer, SequencesExt, SequenceTheorems, FiniteSetTheorems, WellFoundedInduction, TLAPS

-----------------------------------------------------------------------------
(***************************************************************************)
(* Induction.                                                              *)
(***************************************************************************)
\* Every non-empty set of numbers has a least element.
LEMMA LeastNumber ==
  ASSUME NEW T \in SUBSET Nat, T # {}
  PROVE  \E n \in T : \A k \in T : n <= k
  <1>1. IsWellFoundedOn(OpToRel(<, Nat), Nat)
    BY NatLessThanWellFounded, Zenon
  <1>2. PICK n \in T : \A k \in T : ~(<<k, n>> \in OpToRel(<, Nat))
    BY <1>1, WFMin, Zenon
  <1>3. ASSUME NEW k \in T PROVE n <= k
    <2>1. ~(<<k, n>> \in OpToRel(<, Nat))
      BY <1>2, Zenon
    <2>2. ~(k < n)
      BY <2>1 DEF OpToRel
    <2> QED BY <2>2
  <1> QED BY <1>3

\* Induction: what holds at 0 and passes on to the successor holds up to any
\* bound.
LEMMA Induction ==
  ASSUME NEW b \in Nat, NEW S, 0 \in S, \A n \in 0..b - 1 : n \in S => n + 1 \in S
  PROVE  \A n \in 0..b : n \in S
  <1> DEFINE T == (0..b) \ S
  <1> SUFFICES ASSUME T # {} PROVE FALSE
    OBVIOUS
  <1>0. T \in SUBSET Nat
    OBVIOUS
  <1>1. PICK n \in T : \A k \in T : n <= k
    <2> HIDE DEF T
    <2> QED BY <1>0, LeastNumber
  <1>2. n - 1 \in 0..b - 1 /\ n - 1 \in S
    BY <1>1
  <1> QED BY <1>1, <1>2

-----------------------------------------------------------------------------
(***************************************************************************)
(* Sums over finite sets.  The sum of the community modules takes out one  *)
(* element after the other; here it is shown not to matter which one.      *)
(***************************************************************************)
\* The element a fold over a set takes next.
OneOf(t) == CHOOSE x \in t : TRUE

\* it[t] is the sum of the weights w over t, for every subset t of S.
SumsUp(it, S, w) ==
  \A t \in SUBSET S : it[t] = IF t = {} THEN 0 ELSE w[OneOf(t)] + it[t \ {OneOf(t)}]

\* n is the sum of the weights over S.
Weighs(S, w, n) == \E it : SumsUp(it, S, w) /\ n = it[S]

\* The subsets of a finite set, and what is left of them.
LEMMA SubsetFacts ==
  ASSUME NEW S, IsFiniteSet(S), NEW t \in SUBSET S
  PROVE  /\ IsFiniteSet(t) /\ Cardinality(t) \in Nat /\ Cardinality(t) <= Cardinality(S)
         /\ Cardinality(S) \in Nat
         /\ t = {} <=> Cardinality(t) = 0
         /\ t # {} => OneOf(t) \in t
         /\ \A x \in t : t \ {x} \in SUBSET S /\ Cardinality(t \ {x}) = Cardinality(t) - 1
  <1>1. IsFiniteSet(t) /\ Cardinality(t) <= Cardinality(S)
    BY FS_Subset
  <1>2. Cardinality(t) \in Nat /\ Cardinality(S) \in Nat
    BY <1>1, FS_CardinalityType
  <1>3. t = {} <=> Cardinality(t) = 0
    BY <1>1, FS_EmptySet
  <1>4. \A x \in t : t \ {x} \in SUBSET S /\ Cardinality(t \ {x}) = Cardinality(t) - 1
    BY <1>1, FS_RemoveElement
  <1>5. t # {} => OneOf(t) \in t
    BY DEF OneOf
  <1> QED BY <1>1, <1>2, <1>3, <1>4, <1>5

\* The sums exist.
LEMMA SumExists ==
  ASSUME NEW S, IsFiniteSet(S), NEW w \in [S -> Nat]
  PROVE  \E it \in [SUBSET S -> Nat] : SumsUp(it, S, w)
  <1> DEFINE Sum(it, t) == IF t = {} THEN 0 ELSE w[OneOf(t)] + it[t \ {OneOf(t)}]
             Upto(it, k) == \A t \in SUBSET S : Cardinality(t) <= k => it[t] = Sum(it, t)
             T == {k \in Nat : \E it \in [SUBSET S -> Nat] : Upto(it, k)}
  <1>1. 0 \in T
    <2> DEFINE it == [t \in SUBSET S |-> 0]
    <2>1. ASSUME NEW t \in SUBSET S, Cardinality(t) <= 0 PROVE t = {}
      BY <2>1, SubsetFacts
    <2>2. it \in [SUBSET S -> Nat] /\ Upto(it, 0)
      BY <2>1
    <2> QED BY <2>2
  <1>2. ASSUME NEW k \in Nat, k \in T PROVE k + 1 \in T
    <2>1. PICK it \in [SUBSET S -> Nat] : Upto(it, k)
      BY <1>2
    <2> DEFINE jt == [t \in SUBSET S |-> Sum(it, t)]
    <2>2. ASSUME NEW t \in SUBSET S PROVE Sum(it, t) \in Nat
      <3>1. t # {} => OneOf(t) \in S /\ t \ {OneOf(t)} \in SUBSET S
        BY SubsetFacts
      <3> QED BY <3>1
    <2>3. jt \in [SUBSET S -> Nat]
      BY <2>2
    <2>4. ASSUME NEW t \in SUBSET S, Cardinality(t) <= k + 1 PROVE jt[t] = Sum(jt, t)
      <3>1. CASE t = {}
        BY <3>1
      <3>2. CASE t # {}
        <4>1. PICK u : u = t \ {OneOf(t)}
          OBVIOUS
        <4>2. u \in SUBSET S /\ Cardinality(u) = Cardinality(t) - 1 /\ Cardinality(t) \in Nat
          BY <3>2, <4>1, SubsetFacts
        <4>3. Cardinality(u) <= k
          BY <2>4, <4>2
        <4>4. it[u] = Sum(it, u)
          BY <2>1, <4>2, <4>3
        <4>5. jt[u] = Sum(it, u) /\ jt[t] = Sum(it, t)
          BY <4>2
        <4>6. Sum(it, t) = w[OneOf(t)] + it[u] /\ Sum(jt, t) = w[OneOf(t)] + jt[u]
          BY <3>2, <4>1
        <4> HIDE DEF Sum, jt
        <4> QED BY <4>4, <4>5, <4>6
      <3> QED BY <3>1, <3>2
    <2>5. Upto(jt, k + 1)
      <3> HIDE DEF jt, Sum
      <3> QED BY <2>4
    <2> HIDE DEF jt, Upto
    <2> QED BY <2>3, <2>5
  <1>3. Cardinality(S) \in Nat
    BY FS_CardinalityType
  <1>4. Cardinality(S) \in T
    <2> HIDE DEF T
    <2>1. \A n \in 0..Cardinality(S) : n \in T
      BY <1>1, <1>2, <1>3, Induction
    <2> QED BY <1>3, <2>1
  <1>5. PICK it \in [SUBSET S -> Nat] : Upto(it, Cardinality(S))
    BY <1>4
  <1>6. \A t \in SUBSET S : it[t] = Sum(it, t)
    BY <1>5, SubsetFacts
  <1> QED BY <1>6 DEF SumsUp

\* Taking out any element takes off its weight, and all sums are numbers.
LEMMA SumRemoves ==
  ASSUME NEW S, IsFiniteSet(S), NEW w \in [S -> Nat], NEW it, SumsUp(it, S, w)
  PROVE  \A t \in SUBSET S : it[t] \in Nat /\ \A x \in t : it[t] = w[x] + it[t \ {x}]
  <1> DEFINE Good(t) == it[t] \in Nat /\ \A x \in t : it[t] = w[x] + it[t \ {x}]
             T == {k \in Nat : \A t \in SUBSET S : Cardinality(t) <= k => Good(t)}
  <1>0. it[{}] = 0 /\ Good({})
    <2>1. {} \in SUBSET S
      OBVIOUS
    <2>2. it[{}] = 0
      BY <2>1 DEF SumsUp
    <2> QED BY <2>2
  <1>1. 0 \in T
    <2>1. ASSUME NEW t \in SUBSET S, Cardinality(t) <= 0 PROVE t = {}
      BY <2>1, SubsetFacts
    <2> HIDE DEF Good
    <2> QED BY <1>0, <2>1
  <1>2. ASSUME NEW k \in Nat, k \in T PROVE k + 1 \in T
    <2>1. ASSUME NEW t \in SUBSET S, Cardinality(t) <= k + 1 PROVE Good(t)
      <3>1. CASE t = {}
        BY <1>0, <3>1
      <3>2. CASE t # {}
        <4>0. PICK p : p = OneOf(t)
          OBVIOUS
        <4>1. p \in t
          BY <3>2, <4>0, SubsetFacts
        <4>2. it[t] = w[p] + it[t \ {p}]
          BY <3>2, <4>0 DEF SumsUp
        <4>3. ASSUME NEW u \in SUBSET S, NEW x \in u, Cardinality(u) <= k + 1
              PROVE  u \ {x} \in SUBSET S /\ Cardinality(u \ {x}) <= k + 1 /\ Good(u \ {x})
          <5>1. u \ {x} \in SUBSET S /\ Cardinality(u \ {x}) = Cardinality(u) - 1 /\ Cardinality(u) \in Nat
            BY SubsetFacts
          <5>2. Cardinality(u \ {x}) <= k
            BY <4>3, <5>1
          <5> HIDE DEF Good
          <5>3. Cardinality(u \ {x}) <= k + 1
            BY <4>3, <5>1
          <5> QED BY <1>2, <5>1, <5>2, <5>3
        <4>4. it[t] \in Nat
          <5>1. it[t \ {p}] \in Nat
            BY <2>1, <4>1, <4>3
          <5>2. w[p] \in Nat
            BY <4>1
          <5> QED BY <4>2, <5>1, <5>2
        <4>5. ASSUME NEW x \in t, x # p PROVE it[t] = w[x] + it[t \ {x}]
          <5>1. PICK a, b : a = t \ {p} /\ b = t \ {x}
            OBVIOUS
          <5>2. a \in SUBSET S /\ b \in SUBSET S /\ Cardinality(a) <= k + 1 /\ Good(a) /\ Good(b)
            <6> HIDE DEF Good
            <6>1. a \in SUBSET S /\ Cardinality(a) <= k + 1 /\ Good(a)
              BY <2>1, <4>1, <4>3, <5>1
            <6>2. b \in SUBSET S /\ Good(b)
              BY <2>1, <4>3, <4>5, <5>1
            <6> QED BY <6>1, <6>2
          <5>3. PICK r : r = a \ {x}
            OBVIOUS
          <5>4. r = b \ {p} /\ x \in a /\ p \in b
            BY <4>1, <4>5, <5>1, <5>3
          <5>5. it[a] = w[x] + it[r] /\ it[b] = w[p] + it[r]
            BY <5>2, <5>3, <5>4
          <5>6. it[r] \in Nat
            BY <4>3, <5>2, <5>3, <5>4
          <5>7. w[x] \in Nat /\ w[p] \in Nat
            BY <4>1
          <5>8. it[t] = w[p] + it[a]
            BY <4>2, <5>1
          <5>9. it[t] = w[x] + it[b]
            BY <5>5, <5>6, <5>7, <5>8
          <5> QED BY <5>1, <5>9
        <4> QED BY <4>2, <4>4, <4>5
      <3> QED BY <3>1, <3>2
    <2> HIDE DEF Good
    <2> QED BY <2>1
  <1>3. \A n \in 0..Cardinality(S) : n \in T
    <2>1. Cardinality(S) \in Nat
      BY FS_CardinalityType
    <2> HIDE DEF T
    <2> QED BY <1>1, <1>2, <2>1, Induction
  <1>4. ASSUME NEW t \in SUBSET S PROVE Good(t)
    <2>1. Cardinality(t) \in 0..Cardinality(S)
      BY SubsetFacts
    <2>2. Cardinality(t) <= Cardinality(t)
      BY <2>1
    <2> HIDE DEF Good
    <2> QED BY <1>3, <2>1, <2>2
  <1> QED BY <1>4

\* Sums depend on the weights of the elements only.
LEMMA SumSame ==
  ASSUME NEW S, IsFiniteSet(S), NEW w \in [S -> Nat], NEW it, SumsUp(it, S, w),
         NEW R, IsFiniteSet(R), NEW v \in [R -> Nat], NEW jt, SumsUp(jt, R, v),
         \A x \in S \cap R : w[x] = v[x]
  PROVE  \A t \in SUBSET (S \cap R) : it[t] = jt[t]
  <1> DEFINE T == {k \in Nat : \A t \in SUBSET (S \cap R) : Cardinality(t) <= k => it[t] = jt[t]}
  <1>0. PICK P : P = S \cap R
    OBVIOUS
  <1>1. IsFiniteSet(P) /\ \A t \in SUBSET P : t \in SUBSET S /\ t \in SUBSET R
    BY <1>0, FS_Intersection
  <1>2. 0 \in T
    <2>1. ASSUME NEW t \in SUBSET P, Cardinality(t) <= 0 PROVE it[t] = jt[t]
      <3>1. t = {}
        BY <1>1, <2>1, SubsetFacts
      <3>2. t \in SUBSET S /\ t \in SUBSET R
        BY <1>1
      <3> QED BY <3>1, <3>2 DEF SumsUp
    <2> QED BY <1>0, <2>1
  <1>3. ASSUME NEW k \in Nat, k \in T PROVE k + 1 \in T
    <2>1. ASSUME NEW t \in SUBSET P, Cardinality(t) <= k + 1 PROVE it[t] = jt[t]
      <3>1. t \in SUBSET S /\ t \in SUBSET R
        BY <1>1
      <3>2. PICK p, u : p = OneOf(t) /\ u = t \ {p}
        OBVIOUS
      <3>3. /\ it[t] = IF t = {} THEN 0 ELSE w[p] + it[u]
            /\ jt[t] = IF t = {} THEN 0 ELSE v[p] + jt[u]
        BY <3>1, <3>2 DEF SumsUp
      <3>4. CASE t # {}
        <4>1. p \in t /\ u \in SUBSET P /\ Cardinality(u) = Cardinality(t) - 1 /\ Cardinality(t) \in Nat
          BY <1>1, <3>2, <3>4, SubsetFacts
        <4>2. Cardinality(u) <= k
          BY <2>1, <4>1
        <4>3. it[u] = jt[u]
          BY <1>0, <1>3, <4>1, <4>2
        <4>4. w[p] = v[p]
          BY <1>0, <4>1
        <4> QED BY <3>3, <4>3, <4>4
      <3> QED BY <3>3, <3>4
    <2> QED BY <1>0, <2>1
  <1>4. \A n \in 0..Cardinality(P) : n \in T
    <2>1. Cardinality(P) \in Nat
      BY <1>1, FS_CardinalityType
    <2> HIDE DEF T
    <2> QED BY <1>2, <1>3, <2>1, Induction
  <1>5. ASSUME NEW t \in SUBSET P PROVE it[t] = jt[t]
    <2>1. Cardinality(t) \in 0..Cardinality(P) /\ Cardinality(t) <= Cardinality(t)
      BY <1>1, SubsetFacts
    <2> QED BY <1>0, <1>4, <2>1
  <1> QED BY <1>0, <1>5

\* A subset weighs no more than the set.
LEMMA SumGrows ==
  ASSUME NEW S, IsFiniteSet(S), NEW w \in [S -> Nat], NEW it, SumsUp(it, S, w)
  PROVE  \A t \in SUBSET S : it[t] <= it[S]
  <1> DEFINE T == {k \in Nat : \A t \in SUBSET S : Cardinality(S) - Cardinality(t) <= k => it[t] <= it[S]}
  <1>0. Cardinality(S) \in Nat /\ it[S] \in Nat
    BY FS_CardinalityType, SumRemoves
  <1>1. 0 \in T
    <2>1. ASSUME NEW t \in SUBSET S, Cardinality(S) - Cardinality(t) <= 0 PROVE it[t] <= it[S]
      <3>1. Cardinality(t) = Cardinality(S)
        BY <1>0, <2>1, SubsetFacts
      <3>2. t = S
        BY <3>1, FS_Subset
      <3> QED BY <1>0, <3>2
    <2> QED BY <2>1
  <1>2. ASSUME NEW k \in Nat, k \in T PROVE k + 1 \in T
    <2>1. ASSUME NEW t \in SUBSET S, Cardinality(S) - Cardinality(t) <= k + 1 PROVE it[t] <= it[S]
      <3>1. CASE t = S
        BY <1>0, <3>1
      <3>2. CASE t # S
        <4>1. PICK x \in S : x \notin t
          BY <3>2
        <4>2. PICK u : u = t \cup {x}
          OBVIOUS
        <4>3. u \in SUBSET S /\ x \in u /\ u \ {x} = t
          BY <4>1, <4>2
        <4>4. Cardinality(u) = Cardinality(t) + 1 /\ Cardinality(t) \in Nat
          <5>1. Cardinality(t) = Cardinality(u) - 1 /\ Cardinality(u) \in Nat /\ Cardinality(t) \in Nat
            BY <4>3, SubsetFacts
          <5> QED BY <5>1
        <4>5. Cardinality(S) - Cardinality(u) <= k
          BY <1>0, <2>1, <4>4
        <4>6. it[u] <= it[S]
          BY <1>2, <4>3, <4>5
        <4>7. it[u] = w[x] + it[t] /\ it[t] \in Nat /\ w[x] \in Nat
          BY <4>3, SumRemoves
        <4> QED BY <1>0, <4>6, <4>7
      <3> QED BY <3>1, <3>2
    <2> QED BY <2>1
  <1>3. \A n \in 0..Cardinality(S) : n \in T
    <2> HIDE DEF T
    <2> QED BY <1>0, <1>1, <1>2, Induction
  <1>4. ASSUME NEW t \in SUBSET S PROVE it[t] <= it[S]
    <2>1. Cardinality(S) \in 0..Cardinality(S) /\ Cardinality(S) - Cardinality(t) <= Cardinality(S)
      BY <1>0, SubsetFacts
    <2> QED BY <1>3, <2>1
  <1> QED BY <1>4

\* The weight of a set is a number, and that of the empty set 0.
LEMMA WeightFacts ==
  ASSUME NEW S, IsFiniteSet(S), NEW w \in [S -> Nat], NEW n, Weighs(S, w, n)
  PROVE  n \in Nat /\ (S = {} => n = 0)
  <1>1. PICK it : SumsUp(it, S, w) /\ n = it[S]
    BY DEF Weighs
  <1>2. n \in Nat
    BY <1>1, SumRemoves
  <1>3. S \in SUBSET S
    OBVIOUS
  <1>4. S = {} => n = 0
    BY <1>1, <1>3 DEF SumsUp
  <1> QED BY <1>2, <1>4

\* Fewer elements of the same weights weigh no more.
LEMMA WeightOfFewer ==
  ASSUME NEW S, IsFiniteSet(S), NEW w \in [S -> Nat], NEW n, Weighs(S, w, n),
         NEW R \in SUBSET S, NEW v \in [R -> Nat], NEW m, Weighs(R, v, m), \A x \in R : v[x] = w[x]
  PROVE  m <= n
  <1>1. PICK it, jt : SumsUp(it, S, w) /\ n = it[S] /\ SumsUp(jt, R, v) /\ m = jt[R]
    BY DEF Weighs
  <1>2. IsFiniteSet(R) /\ S \cap R = R
    BY FS_Subset
  <1>3. it[R] = jt[R]
    BY <1>1, <1>2, SumSame
  <1>4. it[R] <= it[S]
    BY <1>1, SumGrows
  <1> QED BY <1>1, <1>3, <1>4

\* The weight of one element is replaced, or the element is added.
LEMMA WeightOfUpdate ==
  ASSUME NEW S, IsFiniteSet(S), NEW w \in [S -> Nat], NEW n, Weighs(S, w, n), NEW x,
         NEW R, R = S \cup {x}, NEW v \in [R -> Nat], NEW m, Weighs(R, v, m),
         \A y \in S \ {x} : v[y] = w[y]
  PROVE  m = n - (IF x \in S THEN w[x] ELSE 0) + v[x]
  <1>1. PICK it, jt : SumsUp(it, S, w) /\ n = it[S] /\ SumsUp(jt, R, v) /\ m = jt[R]
    BY DEF Weighs
  <1>2. PICK u, c : u = S \ {x} /\ c = IF x \in S THEN w[x] ELSE 0
    OBVIOUS
  <1>3. IsFiniteSet(R) /\ u \in SUBSET S /\ u \in SUBSET R /\ R \ {x} = u /\ x \in R
    BY <1>2, FS_AddElement
  <1>4. it[u] = jt[u]
    <2>1. PICK f : f = [y \in u |-> w[y]]
      OBVIOUS
    <2>2. f \in [u -> Nat] /\ IsFiniteSet(u)
      BY <1>3, <2>1, FS_Subset
    <2>3. PICK kt : SumsUp(kt, u, f)
      BY <2>2, SumExists
    <2>4. S \cap u = u /\ R \cap u = u /\ \A y \in u : f[y] = w[y] /\ f[y] = v[y]
      BY <1>2, <1>3, <2>1
    <2>5. it[u] = kt[u]
      <3>1. \A y \in S \cap u : w[y] = f[y]
        BY <2>4
      <3>2. \A t \in SUBSET (S \cap u) : it[t] = kt[t]
        BY <1>1, <2>2, <2>3, <3>1, SumSame
      <3> QED BY <2>4, <3>2
    <2>6. jt[u] = kt[u]
      <3>1. \A y \in R \cap u : v[y] = f[y]
        BY <2>4
      <3>2. \A t \in SUBSET (R \cap u) : jt[t] = kt[t]
        BY <1>1, <1>3, <2>2, <2>3, <3>1, SumSame
      <3> QED BY <2>4, <3>2
    <2> QED BY <2>5, <2>6
  <1>5. jt[R] = v[x] + jt[u] /\ jt[u] \in Nat /\ v[x] \in Nat
    <2>1. \A t \in SUBSET R : jt[t] \in Nat /\ \A y \in t : jt[t] = v[y] + jt[t \ {y}]
      <3>1. IsFiniteSet(R) /\ SumsUp(jt, R, v) /\ v \in [R -> Nat]
        BY <1>1, <1>3
      <3> QED BY ONLY <3>1, SumRemoves
    <2>2. R \in SUBSET R
      OBVIOUS
    <2>3. jt[R] = v[x] + jt[R \ {x}]
      BY <1>3, <2>1, <2>2
    <2> QED BY <1>3, <2>1, <2>3
  <1>6. it[S] = c + it[u] /\ c \in Nat
    <2>1. CASE x \in S
      BY <1>1, <1>2, <2>1, SumRemoves
    <2>2. CASE x \notin S
      <3>1. u = S /\ c = 0 /\ it[S] \in Nat
        BY <1>1, <1>2, <2>2, SumRemoves
      <3> QED BY <3>1
    <2> QED BY <2>1, <2>2
  <1> QED BY <1>1, <1>2, <1>4, <1>5, <1>6

-----------------------------------------------------------------------------
(***************************************************************************)
(* Sequences.                                                              *)
(***************************************************************************)
\* What appending one element does to a queue.
LEMMA AppendFacts ==
  ASSUME NEW S, NEW s \in Seq(S), NEW x \in S
  PROVE  /\ Append(s, x) \in Seq(S)
         /\ Len(Append(s, x)) = Len(s) + 1
         /\ \A i \in 1..Len(s) : Append(s, x)[i] = s[i]
         /\ Append(s, x)[Len(s) + 1] = x
  OBVIOUS

\* What taking the first element does to a queue.
LEMMA TailFacts ==
  ASSUME NEW S, NEW s \in Seq(S), s # <<>>
  PROVE  /\ Tail(s) \in Seq(S)
         /\ Len(s) \in Nat \ {0}
         /\ Len(Tail(s)) = Len(s) - 1
         /\ \A i \in 1..Len(s) - 1 : Tail(s)[i] = s[i + 1]
         /\ Head(s) \in S
         /\ Head(s) = s[1]
  OBVIOUS

\* Two queues of the same type make a queue of that type.
LEMMA ConcatType ==
  ASSUME NEW S, NEW s \in Seq(S), NEW t \in Seq(S)
  PROVE  s \o t \in Seq(S)
  OBVIOUS

\* The elements of two queues behind one another.
LEMMA ConcatFacts ==
  ASSUME NEW S, NEW s \in Seq(S), NEW t \in Seq(S)
  PROVE  /\ s \o t \in Seq(S) /\ Len(s) \in Nat /\ Len(t) \in Nat
         /\ Len(s \o t) = Len(s) + Len(t)
         /\ \A i \in 1..Len(s) : (s \o t)[i] = s[i]
         /\ \A i \in Len(s) + 1..Len(s) + Len(t) : (s \o t)[i] = t[i - Len(s)]
  OBVIOUS

\* Three queues behind one another.
LEMMA ConcatAssoc ==
  ASSUME NEW S, NEW r \in Seq(S), NEW s \in Seq(S), NEW t \in Seq(S)
  PROVE  (r \o s) \o t = r \o (s \o t)
  <1> DEFINE a == r \o s
             b == s \o t
             v == a \o t
             w == r \o b
  <1>1. /\ a \in Seq(S) /\ Len(r) \in Nat /\ Len(s) \in Nat /\ Len(a) = Len(r) + Len(s)
        /\ \A i \in 1..Len(r) : a[i] = r[i]
        /\ \A i \in Len(r) + 1..Len(r) + Len(s) : a[i] = s[i - Len(r)]
    BY ConcatFacts
  <1>2. /\ b \in Seq(S) /\ Len(t) \in Nat /\ Len(b) = Len(s) + Len(t)
        /\ \A i \in 1..Len(s) : b[i] = s[i]
        /\ \A i \in Len(s) + 1..Len(s) + Len(t) : b[i] = t[i - Len(s)]
    BY ConcatFacts
  <1> HIDE DEF a, b
  <1>3. /\ v \in Seq(S) /\ Len(v) = Len(a) + Len(t)
        /\ \A i \in 1..Len(a) : v[i] = a[i]
        /\ \A i \in Len(a) + 1..Len(a) + Len(t) : v[i] = t[i - Len(a)]
    <2>1. a \in Seq(S)
      BY <1>1
    <2> QED BY <2>1, ConcatFacts, Zenon
  <1>4. /\ w \in Seq(S) /\ Len(w) = Len(r) + Len(b)
        /\ \A i \in 1..Len(r) : w[i] = r[i]
        /\ \A i \in Len(r) + 1..Len(r) + Len(b) : w[i] = b[i - Len(r)]
    <2>1. b \in Seq(S)
      BY <1>2
    <2> QED BY <2>1, ConcatFacts, Zenon
  <1> HIDE DEF v, w
  <1>5. Len(v) = Len(w)
    BY <1>1, <1>2, <1>3, <1>4
  <1>6. ASSUME NEW i \in 1..Len(v) PROVE v[i] = w[i]
    <2>1. CASE i \in 1..Len(r)
      <3>1. i \in 1..Len(a)
        BY <1>1, <2>1
      <3> QED BY <1>1, <1>3, <1>4, <2>1, <3>1
    <2>2. CASE i \in Len(r) + 1..Len(r) + Len(s)
      <3>1. i \in 1..Len(a) /\ i \in Len(r) + 1..Len(r) + Len(b) /\ i - Len(r) \in 1..Len(s)
        BY <1>1, <1>2, <2>2
      <3> QED BY <1>1, <1>2, <1>3, <1>4, <2>2, <3>1
    <2>3. CASE i \in Len(a) + 1..Len(a) + Len(t)
      <3>1. /\ i \in Len(r) + 1..Len(r) + Len(b) /\ i - Len(r) \in Len(s) + 1..Len(s) + Len(t)
            /\ (i - Len(r)) - Len(s) = i - Len(a)
        BY <1>1, <1>2, <2>3
      <3> QED BY <1>2, <1>3, <1>4, <2>3, <3>1
    <2> QED BY <1>1, <1>2, <1>3, <2>1, <2>2, <2>3
  <1>7. v = w
    BY <1>3, <1>4, <1>5, <1>6, SeqEqual
  <1> QED BY <1>7 DEF v, w, a, b

\* Taking out the element at i moves the later ones up by one.
LEMMA RemoveAtFacts ==
  ASSUME NEW T, NEW s \in Seq(T), NEW i \in 1..Len(s)
  PROVE  /\ RemoveAt(s, i) \in Seq(T)
         /\ Len(RemoveAt(s, i)) = Len(s) - 1
         /\ \A k \in 1..Len(s) - 1 : RemoveAt(s, i)[k] = IF k < i THEN s[k] ELSE s[k + 1]
  <1> DEFINE a == SubSeq(s, 1, i - 1)
             b == SubSeq(s, i + 1, Len(s))
  <1>1. Len(s) \in Nat /\ i \in Nat /\ 1 <= i /\ i <= Len(s)
    OBVIOUS
  <1>2. a \in Seq(T) /\ Len(a) = i - 1 /\ \A k \in 1..i - 1 : a[k] = s[k]
    BY <1>1
  <1>3. b \in Seq(T) /\ Len(b) = Len(s) - i /\ \A k \in 1..Len(s) - i : b[k] = s[i + k]
    BY <1>1
  <1>4. RemoveAt(s, i) = a \o b
    BY DEF RemoveAt
  <1> HIDE DEF a, b
  <1>5. a \o b \in Seq(T) /\ Len(a \o b) = Len(s) - 1
    <2>1. a \o b \in Seq(T) /\ Len(a \o b) = Len(a) + Len(b)
      BY <1>2, <1>3, ConcatProperties
    <2> QED BY <1>1, <1>2, <1>3, <2>1
  <1>6. ASSUME NEW k \in 1..Len(s) - 1
        PROVE  (a \o b)[k] = IF k < i THEN s[k] ELSE s[k + 1]
    <2>1. CASE k < i
      BY <1>1, <1>2, <1>3, <2>1
    <2>2. CASE ~(k < i)
      <3>1. (a \o b)[k] = b[k - (i - 1)]
        BY <1>1, <1>2, <1>3, <2>2
      <3>2. k - (i - 1) \in 1..Len(s) - i /\ i + (k - (i - 1)) = k + 1
        BY <1>1, <2>2
      <3> QED BY <1>3, <2>2, <3>1, <3>2
    <2> QED BY <2>1, <2>2
  <1> QED BY <1>4, <1>5, <1>6

\* The first place of a sequence that is in I.
LEMMA MinIsLeast ==
  ASSUME NEW I \in SUBSET Nat, I # {}
  PROVE  Min(I) \in I /\ \A k \in I : Min(I) <= k
  <1>1. \E n \in I : \A k \in I : n <= k
    BY LeastNumber
  <1> QED BY <1>1 DEF Min

\* The greatest number of a set.
LEMMA GreatestIsMax ==
  ASSUME NEW I \in SUBSET Int, NEW m \in I, \A k \in I : k <= m
  PROVE  Max(I) = m
  <1>1. \A x \in I : (\A y \in I : x >= y) => x = m
    OBVIOUS
  <1>2. \A y \in I : m >= y
    OBVIOUS
  <1> QED BY <1>1, <1>2 DEF Max

\* A set of places has a last one.
LEMMA MaxIsIn ==
  ASSUME NEW n \in Nat, NEW I \in SUBSET (1..n), I # {}
  PROVE  Max(I) \in I
  <1> DEFINE T == {j \in 0..n : n - j \in I}
  <1>1. PICK k \in I : TRUE
    OBVIOUS
  <1>2. n - k \in T
    BY <1>1
  <1>3. T \in SUBSET Nat /\ T # {}
    <2>1. \A j \in T : j \in Nat
      OBVIOUS
    <2> HIDE DEF T
    <2> QED BY <1>2, <2>1
  <1>4. PICK j \in T : \A i \in T : j <= i
    <2> HIDE DEF T
    <2> QED BY <1>3, LeastNumber
  <1>5. n - j \in I
    BY <1>4
  <1>6. ASSUME NEW i \in I PROVE i <= n - j
    <2>1. n - i \in T
      OBVIOUS
    <2>2. j <= n - i
      BY <1>4, <2>1
    <2> QED BY <2>2
  <1>7. I \in SUBSET Int
    OBVIOUS
  <1>8. Max(I) = n - j
    <2>n. PICK m : m = n - j
      OBVIOUS
    <2> QED BY <1>5, <1>6, <1>7, <2>n, GreatestIsMax
  <1> QED BY <1>5, <1>8

\* The numbers up to i, without the greatest.
LEMMA UptoMax ==
  ASSUME NEW i \in Nat \ {0}
  PROVE  Max(1..i) = i /\ (1..i) \ {i} = 1..i - 1
  <1>1. 1..i \in SUBSET Int /\ i \in 1..i /\ \A k \in 1..i : k <= i
    OBVIOUS
  <1>2. Max(1..i) = i
    BY <1>1, GreatestIsMax
  <1> QED BY <1>2

\* The fold of the community modules recurses over the sets of places, from the
\* greatest place down.  A function that does so exists: the values are in V,
\* and op[<<i, v>>] adds place i to v.
FoldsBy(it, k, base, op) ==
  \A t \in SUBSET (1..k) : it[t] = IF t = {} THEN base ELSE op[<<Max(t), it[t \ {Max(t)}]>>]

\* A fold over numbers is given by its values on all sets up to a bound.
LEMMA FoldExists ==
  ASSUME NEW n \in Nat, NEW V, NEW base \in V, NEW op \in [(1..n) \X V -> V]
  PROVE  \E it \in [SUBSET (1..n) -> V] : FoldsBy(it, n, base, op)
  <1> DEFINE Fine(k) == \E it \in [SUBSET (1..k) -> V] : FoldsBy(it, k, base, op)
             S == {k \in Nat : k <= n => Fine(k)}
  <1>1. Fine(0)
    <2> DEFINE it == [t \in SUBSET (1..0) |-> base]
    <2>1. \A t \in SUBSET (1..0) : t = {}
      OBVIOUS
    <2>2. it \in [SUBSET (1..0) -> V] /\ FoldsBy(it, 0, base, op)
      BY <2>1 DEF FoldsBy
    <2> QED BY <2>2
  <1>2. ASSUME NEW k \in 0..n - 1, Fine(k) PROVE Fine(k + 1)
    <2>1. PICK it \in [SUBSET (1..k) -> V] : FoldsBy(it, k, base, op)
      BY <1>2
    <2> DEFINE new(t) == IF k + 1 \in t THEN op[<<k + 1, it[t \ {k + 1}]>>] ELSE it[t]
               jt == [t \in SUBSET (1..k + 1) |-> new(t)]
    <2>2. \A t \in SUBSET (1..k + 1) : t \ {k + 1} \in SUBSET (1..k) /\ (k + 1 \notin t => t \in SUBSET (1..k))
      BY <1>2
    <2>3. ASSUME NEW t \in SUBSET (1..k + 1) PROVE new(t) \in V
      <3>1. it[t \ {k + 1}] \in V /\ (k + 1 \notin t => it[t] \in V)
        BY <2>2
      <3>2. k + 1 \in 1..n
        OBVIOUS
      <3> QED BY <3>1, <3>2
    <2>4. jt \in [SUBSET (1..k + 1) -> V]
      BY <2>3
    <2>5. ASSUME NEW t \in SUBSET (1..k + 1)
          PROVE  jt[t] = IF t = {} THEN base ELSE op[<<Max(t), jt[t \ {Max(t)}]>>]
      <3>1. CASE k + 1 \in t
        <4>1. Max(t) = k + 1
          <5>1. t \in SUBSET Int /\ \A y \in t : y <= k + 1
            OBVIOUS
          <5> QED BY <3>1, <5>1, GreatestIsMax
        <4>2. t \ {k + 1} \in SUBSET (1..k + 1) /\ k + 1 \notin t \ {k + 1}
          OBVIOUS
        <4>3. jt[t \ {k + 1}] = it[t \ {k + 1}]
          BY <4>2
        <4> QED BY <3>1, <4>1, <4>3
      <3>2. CASE k + 1 \notin t
        <4>1. t \in SUBSET (1..k) /\ t \ {Max(t)} \in SUBSET (1..k) /\ t \ {Max(t)} \in SUBSET (1..k + 1)
          BY <2>2, <3>2
        <4>2. jt[t] = it[t] /\ jt[t \ {Max(t)}] = it[t \ {Max(t)}]
          BY <3>2, <4>1
        <4> HIDE DEF jt
        <4> QED BY <2>1, <4>1, <4>2 DEF FoldsBy
      <3> QED BY <3>1, <3>2
    <2>6. FoldsBy(jt, k + 1, base, op)
      <3> HIDE DEF jt
      <3> QED BY <2>5 DEF FoldsBy
    <2> HIDE DEF jt
    <2> QED BY <2>4, <2>6
  <1> HIDE DEF Fine
  <1>3. 0 \in S /\ \A k \in 0..n - 1 : k \in S => k + 1 \in S
    BY <1>1, <1>2
  <1>4. \A k \in 0..n : k \in S
    <2> HIDE DEF S
    <2> QED BY <1>3, Induction
  <1>5. Fine(n)
    BY <1>4
  <1> QED BY <1>5 DEF Fine

\* The numbers of the messages in a queue.
IdsOf(q) == [k \in 1..Len(q) |-> q[k].id]

\* A message that is appended appends its number.
LEMMA IdsOfAppend ==
  ASSUME NEW M, NEW q \in Seq(M), NEW m \in M
  PROVE  IdsOf(Append(q, m)) = Append(IdsOf(q), m.id)
  <1> DEFINE a == Append(q, m)
             f == IdsOf(q)
             g == Append(f, m.id)
  <1>1. /\ a \in Seq(M) /\ Len(q) \in Nat /\ Len(a) = Len(q) + 1
        /\ \A i \in 1..Len(q) : a[i] = q[i]
        /\ a[Len(q) + 1] = m
    BY AppendFacts
  <1> DEFINE S == {f[k] : k \in 1..Len(q)} \cup {m.id}
  <1>2. f \in Seq(S) /\ Len(f) = Len(q) /\ \A i \in 1..Len(q) : f[i] = q[i].id
    BY <1>1 DEF IdsOf
  <1> HIDE DEF f
  <1>3. /\ g \in Seq(S) /\ Len(g) = Len(q) + 1
        /\ \A i \in 1..Len(q) : g[i] = q[i].id
        /\ g[Len(q) + 1] = m.id
    <2>1. m.id \in S
      OBVIOUS
    <2> HIDE DEF S
    <2> QED BY <1>1, <1>2, <2>1, AppendFacts
  <1> HIDE DEF a, g, S
  <1>4. g = [k \in 1..Len(q) + 1 |-> g[k]]
    BY <1>1, <1>3
  <1>5. \A k \in 1..Len(q) + 1 : a[k].id = g[k]
    BY <1>1, <1>3
  <1>6. [k \in 1..Len(q) + 1 |-> a[k].id] = [k \in 1..Len(q) + 1 |-> g[k]]
    BY <1>5
  <1> QED BY <1>1, <1>4, <1>6 DEF IdsOf, a, f, g

\* A message that is taken takes its number along.
LEMMA IdsOfTail ==
  ASSUME NEW M, NEW q \in Seq(M), q # <<>>
  PROVE  /\ IdsOf(Tail(q)) = Tail(IdsOf(q))
         /\ IdsOf(q) # <<>>
         /\ Head(IdsOf(q)) = Head(q).id
  <1> DEFINE t == Tail(q)
             f == IdsOf(q)
  <1>1. /\ t \in Seq(M) /\ Len(q) \in Nat \ {0} /\ Len(t) = Len(q) - 1
        /\ \A i \in 1..Len(q) - 1 : t[i] = q[i + 1]
        /\ Head(q) = q[1]
    BY TailFacts
  <1> DEFINE S == {f[k] : k \in 1..Len(q)}
  <1>2. f \in Seq(S) /\ Len(f) = Len(q) /\ \A i \in 1..Len(q) : f[i] = q[i].id
    BY <1>1 DEF IdsOf
  <1> HIDE DEF f, S
  <1>3. f # <<>>
    BY <1>1, <1>2
  <1> DEFINE g == Tail(f)
  <1>4. /\ g \in Seq(S) /\ Len(g) = Len(q) - 1
        /\ \A i \in 1..Len(q) - 1 : g[i] = f[i + 1]
        /\ Head(f) = f[1]
    BY <1>2, <1>3, TailFacts
  <1> HIDE DEF g, t
  <1>5. ASSUME NEW i \in 1..Len(q) - 1 PROVE g[i] = t[i].id
    <2>1. i + 1 \in 1..Len(q)
      BY <1>1
    <2>2. g[i] = f[i + 1] /\ t[i] = q[i + 1] /\ f[i + 1] = q[i + 1].id
      BY <1>1, <1>2, <1>4, <2>1
    <2> QED BY <2>2
  <1>6. g = [k \in 1..Len(q) - 1 |-> g[k]]
    BY <1>1, <1>4
  <1>7. [k \in 1..Len(q) - 1 |-> g[k]] = [k \in 1..Len(q) - 1 |-> t[k].id]
    BY <1>5
  <1>8. IdsOf(t) = g
    BY <1>1, <1>6, <1>7 DEF IdsOf
  <1>9. Head(f) = Head(q).id
    BY <1>1, <1>2, <1>4
  <1> QED BY <1>3, <1>8, <1>9 DEF f, g, t

\* The sequences up to the i-th behind one another.
Flattens(seqs, g) ==
  \A i \in 1..Len(seqs) : g[i] = IF i = 1 THEN seqs[i] ELSE g[i - 1] \o seqs[i]

\* The recursive function in FlattenSeq appends one sequence per step.
LEMMA FlattenUnfolds ==
  ASSUME NEW seqs, Len(seqs) \in Nat \ {0}
  PROVE  \E g : FlattenSeq(seqs) = g[Len(seqs)] /\ Flattens(seqs, g)
  <1> DEFINE Upto(n, g) == g = [i \in 1..n |-> IF i = 1 THEN seqs[i] ELSE g[i - 1] \o seqs[i]]
             S == {n \in Nat : \E g : Upto(n, g)}
  <1>1. 0 \in S
    <2> DEFINE g == [i \in 1..0 |-> {}]
    <2>1. Upto(0, g)
      OBVIOUS
    <2> QED BY <2>1
  <1>2. ASSUME NEW n \in Nat, n \in S PROVE n + 1 \in S
    <2>1. PICK g : Upto(n, g)
      BY <1>2
    <2> DEFINE h == [i \in 1..n + 1 |-> IF i <= n THEN g[i]
                                       ELSE IF i = 1 THEN seqs[i] ELSE g[n] \o seqs[i]]
    <2> HIDE DEF Upto
    <2>2. ASSUME NEW i \in 1..n + 1
          PROVE  h[i] = IF i = 1 THEN seqs[i] ELSE h[i - 1] \o seqs[i]
      <3>1. \A k \in 1..n : g[k] = IF k = 1 THEN seqs[k] ELSE g[k - 1] \o seqs[k]
        BY <2>1 DEF Upto
      <3>2. CASE i \in 1..n
        <4>1. h[i] = g[i] /\ (i # 1 => h[i - 1] = g[i - 1])
          BY <3>2
        <4> HIDE DEF h
        <4> QED BY <3>1, <3>2, <4>1, Zenon
      <3>3. CASE i = n + 1
        <4>1. h[i] = (IF i = 1 THEN seqs[i] ELSE g[n] \o seqs[i]) /\ (i # 1 => h[i - 1] = g[n])
          BY <3>3
        <4> HIDE DEF h
        <4> QED BY <4>1, Zenon
      <3> QED BY <3>2, <3>3
    <2>3. Upto(n + 1, h)
      <3>1. h = [i \in 1..n + 1 |-> h[i]]
        OBVIOUS
      <3> HIDE DEF h
      <3> QED BY <2>2, <3>1 DEF Upto
    <2> QED BY <2>3
  <1>3. \A n \in 0..Len(seqs) : n \in S
    <2>1. \A n \in 0..Len(seqs) - 1 : n \in S => n + 1 \in S
      BY <1>2
    <2> HIDE DEF S
    <2> QED BY <1>1, <2>1, Induction
  <1>4. PICK g : Upto(Len(seqs), g)
    <2>1. Len(seqs) \in S
      <3> HIDE DEF S
      <3> QED BY <1>3
    <2> HIDE DEF Upto
    <2> QED BY <2>1
  <1> DEFINE flatten == CHOOSE x : Upto(Len(seqs), x)
  <1>5. Upto(Len(seqs), flatten)
    <2> HIDE DEF Upto
    <2> QED BY <1>4, Zenon DEF flatten
  <1>6. FlattenSeq(seqs) = flatten[Len(seqs)]
    <2>1. Len(seqs) # 0
      OBVIOUS
    <2> QED BY <2>1, Zenon DEF FlattenSeq
  <1>7. Flattens(seqs, flatten)
    <2> HIDE DEF flatten
    <2> QED BY <1>5 DEF Flattens, Upto
  <1> QED BY <1>6, <1>7

-----------------------------------------------------------------------------
(***************************************************************************)
(* Streams of bytes, and what a framer makes of them.  M is the set of     *)
(* messages, F the set of those that are sent to their last byte.          *)
(***************************************************************************)
\* What the loop of push has after each of its turns.
Turns(bytes, header, limit, g) ==
  \A i \in 0..Len(bytes) :
    g[i] = IF i = 0 THEN Unframed(bytes) ELSE FrameOne(g[i - 1], header, limit)

\* The recursive function in Push takes out one frame per step.
LEMMA PushUnfolds ==
  ASSUME NEW bytes, NEW header, NEW limit, Len(bytes) \in Nat
  PROVE  \E g : /\ Push(bytes, header, limit) = g[Len(bytes)]
                /\ Turns(bytes, header, limit, g)
  <1> DEFINE Upto(n, g) == g = [i \in 0..n |->
                 IF i = 0 THEN Unframed(bytes) ELSE FrameOne(g[i - 1], header, limit)]
             S == {n \in Nat : \E g : Upto(n, g)}
  <1>1. 0 \in S
    <2> DEFINE g == [i \in 0..0 |-> Unframed(bytes)]
    <2>1. Upto(0, g)
      OBVIOUS
    <2> QED BY <2>1
  <1>2. ASSUME NEW n \in Nat, n \in S PROVE n + 1 \in S
    <2>1. PICK g : Upto(n, g)
      BY <1>2
    <2> DEFINE h == [i \in 0..n + 1 |-> IF i <= n THEN g[i] ELSE FrameOne(g[n], header, limit)]
    <2> HIDE DEF Upto
    <2>2. ASSUME NEW i \in 0..n + 1
          PROVE  h[i] = IF i = 0 THEN Unframed(bytes) ELSE FrameOne(h[i - 1], header, limit)
      BY <2>1 DEF Upto
    <2>3. Upto(n + 1, h)
      <3>1. h = [i \in 0..n + 1 |-> h[i]]
        OBVIOUS
      <3> HIDE DEF h
      <3> QED BY <2>2, <3>1 DEF Upto
    <2> QED BY <2>3
  <1>3. \A n \in 0..Len(bytes) : n \in S
    <2>1. \A n \in 0..Len(bytes) - 1 : n \in S => n + 1 \in S
      BY <1>2
    <2> HIDE DEF S
    <2> QED BY <1>1, <2>1, Induction
  <1>4. PICK g : Upto(Len(bytes), g)
    BY <1>3
  <1> DEFINE turn == CHOOSE x : Upto(Len(bytes), x)
  <1>5. Upto(Len(bytes), turn)
    <2> HIDE DEF Upto
    <2> QED BY <1>4, Zenon DEF turn
  <1>6. Push(bytes, header, limit) = turn[Len(bytes)]
    BY Zenon DEF Push
  <1>7. Turns(bytes, header, limit, turn)
    <2> HIDE DEF turn
    <2> QED BY <1>5 DEF Turns, Upto
  <1> QED BY <1>6, <1>7

\* A stream whose bytes are in line: a byte continues the message of the byte
\* before it, or is the first of a later message; a message of F is not cut off.
Lined(s, F) ==
  /\ \A i \in 1..Len(s) : s[i].msg \in F => s[i].at <= s[i].msg.size
  /\ \A i \in 1..Len(s) - 1 :
       \/ s[i + 1].msg = s[i].msg /\ s[i + 1].at = s[i].at + 1
       \/ /\ s[i + 1].at = 1 /\ s[i].msg.id < s[i + 1].msg.id
          /\ s[i].msg \in F => s[i].at = s[i].msg.size
  /\ \A i, j \in 1..Len(s) : i <= j => s[i].msg.id <= s[j].msg.id

Starts(s) == s # <<>> => s[1].at = 1

\* The first k bytes end with a message of F.
EndsAt(s, k, F) == k > 0 => s[k].msg \in F /\ s[k].at = s[k].msg.size

Messages(M) == \A m \in M : m.id \in Nat /\ m.size \in Nat
Cells(M) == [msg : M, at : Nat \ {0}]

\* The parts of a byte in a stream.
LEMMA CellFacts ==
  ASSUME NEW M, Messages(M), NEW s \in Seq(Cells(M)), NEW i \in 1..Len(s)
  PROVE  /\ s[i] \in Cells(M) /\ s[i].msg \in M /\ s[i].at \in Nat \ {0}
         /\ s[i].msg.id \in Nat /\ s[i].msg.size \in Nat
  <1>1. s[i] \in Cells(M)
    OBVIOUS
  <1>2. s[i].msg \in M /\ s[i].at \in Nat \ {0}
    BY <1>1 DEF Cells
  <1> QED BY <1>1, <1>2 DEF Messages

\* What is behind such an end starts with the first byte of a later message.
LEMMA BehindAnEnd ==
  ASSUME NEW M, Messages(M), NEW F \in SUBSET M, NEW s \in Seq(Cells(M)), Lined(s, F),
         NEW k \in 1..Len(s) - 1, EndsAt(s, k, F)
  PROVE  /\ s[k + 1].at = 1
         /\ \A i \in 1..k, j \in k + 1..Len(s) : s[i].msg.id < s[j].msg.id
  <1>1. Len(s) \in Nat /\ k \in 1..Len(s) /\ k + 1 \in 1..Len(s)
    OBVIOUS
  <1>2. \A i \in 1..Len(s) : s[i] \in Cells(M) /\ s[i].msg.id \in Nat /\ s[i].msg.size \in Nat
    BY CellFacts
  <1>3. s[k].msg \in F /\ s[k].at = s[k].msg.size
    BY <1>1 DEF EndsAt
  <1>4. ~(s[k + 1].msg = s[k].msg /\ s[k + 1].at = s[k].at + 1)
    <2> SUFFICES ASSUME s[k + 1].msg = s[k].msg, s[k + 1].at = s[k].at + 1 PROVE FALSE
      OBVIOUS
    <2>1. s[k + 1].at <= s[k].msg.size
      BY <1>1, <1>3 DEF Lined
    <2> QED BY <1>1, <1>2, <1>3, <2>1
  <1>5. s[k + 1].at = 1 /\ s[k].msg.id < s[k + 1].msg.id
    BY <1>4 DEF Lined
  <1>6. ASSUME NEW i \in 1..k, NEW j \in k + 1..Len(s) PROVE s[i].msg.id < s[j].msg.id
    <2>1. i \in 1..Len(s) /\ j \in 1..Len(s) /\ i <= k /\ k + 1 <= j
      BY <1>1
    <2>2. s[i].msg.id <= s[k].msg.id /\ s[k + 1].msg.id <= s[j].msg.id
      BY <1>1, <2>1 DEF Lined
    <2> QED BY <1>1, <1>2, <1>5, <2>1, <2>2
  <1> QED BY <1>5, <1>6

\* What is left without the first bytes.
LEMMA DropFacts ==
  ASSUME NEW S, NEW s \in Seq(S), NEW k \in 0..Len(s)
  PROVE  /\ Drop(s, k) \in Seq(S)
         /\ Len(Drop(s, k)) = Len(s) - k
         /\ \A i \in 1..Len(s) - k : Drop(s, k)[i] = s[i + k]
  BY DEF Drop

\* Leaving out bytes twice.
LEMMA DropDrop ==
  ASSUME NEW S, NEW s \in Seq(S), NEW k \in 0..Len(s), NEW n \in 0..Len(s) - k
  PROVE  Drop(Drop(s, k), n) = Drop(s, k + n)
  <1> DEFINE r == Drop(s, k)
             t == Drop(r, n)
             u == Drop(s, k + n)
  <1>1. Len(s) \in Nat /\ k \in Nat /\ n \in Nat /\ k + n \in 0..Len(s)
    OBVIOUS
  <1>2. r \in Seq(S) /\ Len(r) = Len(s) - k /\ \A i \in 1..Len(s) - k : r[i] = s[i + k]
    BY DropFacts
  <1> HIDE DEF r
  <1>3. n \in 0..Len(r)
    BY <1>2
  <1>4. t \in Seq(S) /\ Len(t) = Len(r) - n /\ \A i \in 1..Len(r) - n : t[i] = r[i + n]
    BY <1>2, <1>3, DropFacts
  <1>5. u \in Seq(S) /\ Len(u) = Len(s) - (k + n) /\ \A i \in 1..Len(s) - (k + n) : u[i] = s[i + (k + n)]
    BY <1>1, DropFacts
  <1> HIDE DEF t, u
  <1>6. Len(t) = Len(u)
    BY <1>1, <1>2, <1>4, <1>5
  <1>7. ASSUME NEW i \in 1..Len(t) PROVE t[i] = u[i]
    <2>1. i \in 1..Len(r) - n /\ i + n \in 1..Len(s) - k /\ (i + n) + k = i + (k + n)
      BY <1>1, <1>2, <1>4
    <2>2. t[i] = r[i + n] /\ r[i + n] = s[(i + n) + k]
      BY <1>2, <1>4, <2>1
    <2>3. u[i] = s[i + (k + n)]
      BY <1>5, <1>6
    <2> QED BY <2>1, <2>2, <2>3
  <1>8. t = u
    BY <1>4, <1>5, <1>6, <1>7, SeqEqual
  <1> QED BY <1>8 DEF t, u, r

\* Leaving out the first bytes keeps the rest in line.
LEMMA DropLined ==
  ASSUME NEW M, NEW F, NEW s \in Seq(Cells(M)), Lined(s, F), NEW k \in 0..Len(s)
  PROVE  Lined(Drop(s, k), F)
  <1> DEFINE t == Drop(s, k)
  <1>1. t \in Seq(Cells(M)) /\ Len(t) = Len(s) - k /\ \A i \in 1..Len(s) - k : t[i] = s[i + k]
    BY DropFacts
  <1> HIDE DEF t
  <1>2. \A i \in 1..Len(t) : i + k \in 1..Len(s) /\ t[i] = s[i + k]
    BY <1>1
  <1>3. \A i \in 1..Len(t) : t[i].msg \in F => t[i].at <= t[i].msg.size
    BY <1>2 DEF Lined
  <1>4. ASSUME NEW i \in 1..Len(t) - 1
        PROVE  \/ t[i + 1].msg = t[i].msg /\ t[i + 1].at = t[i].at + 1
               \/ /\ t[i + 1].at = 1 /\ t[i].msg.id < t[i + 1].msg.id
                  /\ t[i].msg \in F => t[i].at = t[i].msg.size
    <2>1. i + k \in 1..Len(s) - 1 /\ t[i] = s[i + k] /\ t[i + 1] = s[(i + k) + 1]
      BY <1>1
    <2> QED BY <2>1 DEF Lined
  <1>5. ASSUME NEW i \in 1..Len(t), NEW j \in 1..Len(t), i <= j
        PROVE  t[i].msg.id <= t[j].msg.id
    <2>1. i + k \in 1..Len(s) /\ j + k \in 1..Len(s) /\ i + k <= j + k
      BY <1>1, <1>5
    <2> QED BY <1>2, <2>1 DEF Lined
  <1> QED BY <1>3, <1>4, <1>5 DEF Lined, t

\* A stream that starts with a message of F goes on with it up to its end.
LEMMA SameMessage ==
  ASSUME NEW M, Messages(M), NEW F \in SUBSET M, NEW s \in Seq(Cells(M)), Lined(s, F),
         Len(s) > 0, s[1].at = 1, s[1].msg \in F,
         NEW b \in Nat \ {0}, b <= s[1].msg.size, b <= Len(s)
  PROVE  \A j \in 1..b : s[j].msg = s[1].msg /\ s[j].at = j
  <1> DEFINE m == s[1].msg
             T == {j \in Nat : s[j + 1].msg = m /\ s[j + 1].at = j + 1}
  <1>1. Len(s) \in Nat /\ m.size \in Nat /\ m \in F
    BY DEF Messages
  <1>2. 0 \in T
    OBVIOUS
  <1>3. ASSUME NEW j \in 0..(b - 1) - 1, j \in T PROVE j + 1 \in T
    <2>1. j + 1 \in 1..Len(s) - 1 /\ j + 1 # m.size /\ s[j + 1].msg = m /\ s[j + 1].at = j + 1
      BY <1>1, <1>3
    <2>2. s[(j + 1) + 1].msg = s[j + 1].msg /\ s[(j + 1) + 1].at = s[j + 1].at + 1
      BY <1>1, <2>1 DEF Lined
    <2> QED BY <2>1, <2>2
  <1>4. \A j \in 0..b - 1 : j \in T
    <2>1. b - 1 \in Nat
      OBVIOUS
    <2> HIDE DEF T
    <2> QED BY <1>2, <1>3, <2>1, Induction
  <1>5. ASSUME NEW j \in 1..b PROVE s[j].msg = m /\ s[j].at = j
    <2>1. j - 1 \in 0..b - 1 /\ (j - 1) + 1 = j
      OBVIOUS
    <2> QED BY <1>4, <2>1
  <1> QED BY <1>5

\* A message of F that starts a stream long enough is there as a whole.
LEMMA WholeAtStart ==
  ASSUME NEW M, Messages(M), NEW F \in SUBSET M, NEW s \in Seq(Cells(M)), Lined(s, F),
         Len(s) > 0, s[1].at = 1, s[1].msg \in F, s[1].msg.size > 0, s[1].msg.size <= Len(s)
  PROVE  SubSeq(s, 1, s[1].msg.size) = Whole(s[1].msg)
  <1> DEFINE m == s[1].msg
             n == m.size
  <1>1. Len(s) \in Nat /\ n \in Nat \ {0} /\ m \in F
    BY DEF Messages
  <1>4. \A j \in 1..n : s[j].msg = m /\ s[j].at = j
    BY <1>1, SameMessage
  <1>5. ASSUME NEW j \in 1..n PROVE s[j] = [msg |-> m, at |-> j]
    <2>1. j \in 1..Len(s)
      BY <1>1
    <2>2. s[j].msg = m /\ s[j].at = j
      BY <1>4
    <2>3. s[j] \in Cells(M)
      BY <2>1
    <2> QED BY <2>2, <2>3 DEF Cells
  <1> DEFINE t == SubSeq(s, 1, n)
  <1>6. t = [j \in 1..n |-> s[j]]
    BY <1>1
  <1> QED BY <1>5, <1>6 DEF Whole, Bytes

\* No message is missing between the first and the last of a stream.
Gapless(s) == \A i \in 1..Len(s) - 1 : s[i + 1].msg.id <= s[i].msg.id + 1

\* The frames cut off k bytes have the numbers from the first one on.
Numbered(s, k, out) ==
  /\ k = 0 => Len(out) = 0
  /\ k > 0 => s[k].msg.id = s[1].msg.id + Len(out) - 1
  /\ \A j \in 1..Len(out) : out[j][1].msg.id = s[1].msg.id + j - 1

\* The frames found so far, when k bytes are cut into frames: whole messages
\* of these bytes, later ones behind earlier ones, and all of them.
Framed(bytes, k, out, header, limit, F) ==
  /\ \A j \in 1..Len(out) : \E i \in 1..k :
       /\ out[j] = Whole(bytes[i].msg) /\ bytes[i].msg \in F
       /\ bytes[i].msg.size >= header /\ bytes[i].msg.size <= limit
  /\ \A j, l \in 1..Len(out) : j < l => out[j][1].msg.id < out[l][1].msg.id
  /\ Gapless(bytes) => Numbered(bytes, k, out)

\* A frame is not empty and starts with the first byte of its message.
LEMMA WholeFacts ==
  ASSUME NEW M, Messages(M), NEW m \in M, m.size > 0
  PROVE  /\ Whole(m) \in Seq(Cells(M)) /\ Len(Whole(m)) = m.size
         /\ \A i \in 1..m.size : Whole(m)[i] = [msg |-> m, at |-> i]
         /\ Whole(m)[1].msg = m
  <1>1. m.size \in Nat
    BY DEF Messages
  <1>2. /\ Whole(m) = [j \in 1..m.size |-> [msg |-> m, at |-> j]]
        /\ \A j \in 1..m.size : [msg |-> m, at |-> j] \in Cells(M)
    BY <1>1 DEF Whole, Bytes, Cells
  <1>3. Whole(m) \in Seq(Cells(M)) /\ Len(Whole(m)) = m.size
    BY <1>1, <1>2
  <1> QED BY <1>1, <1>2, <1>3

\* A stream a framer can read: every length it accepts is of a message of F.
Stream(s, header, limit, M, F) ==
  /\ Messages(M) /\ F \in SUBSET M /\ s \in Seq(Cells(M)) /\ Lined(s, F) /\ Starts(s)
  /\ header \in Nat \ {0} /\ limit \in Nat
  /\ \A m \in M : header <= m.size /\ m.size <= limit => m \in F

\* The next n bytes are a message that can be cut off.
CanCut(r, n, header, limit) ==
  /\ n = r[1].msg.size /\ Len(r) >= header
  /\ n >= header /\ n <= limit /\ Len(r) >= n

\* One turn of the loop cuts off one more message, or nothing.
LEMMA FrameOneFacts ==
  ASSUME NEW M, NEW F, NEW s, NEW header, NEW limit, Stream(s, header, limit, M, F),
         NEW k \in 0..Len(s), EndsAt(s, k, F),
         NEW out \in Seq(Seq(Cells(M))), Framed(s, k, out, header, limit, F),
         NEW n, CanCut(Drop(s, k), n, header, limit)
  PROVE  /\ k + n \in 0..Len(s) /\ EndsAt(s, k + n, F)
         /\ Drop(Drop(s, k), n) = Drop(s, k + n)
         /\ Append(out, SubSeq(Drop(s, k), 1, n)) \in Seq(Seq(Cells(M)))
         /\ Framed(s, k + n, Append(out, SubSeq(Drop(s, k), 1, n)), header, limit, F)
  <1> DEFINE r == Drop(s, k)
             m == r[1].msg
             o == Append(out, SubSeq(r, 1, n))
  <1> USE DEF Stream, CanCut
  <1>1. /\ r \in Seq(Cells(M)) /\ Len(r) = Len(s) - k
        /\ \A i \in 1..Len(s) - k : r[i] = s[i + k]
    BY DropFacts
  <1>2. Len(s) \in Nat /\ k \in Nat /\ k < Len(s) /\ r[1] = s[k + 1]
    BY <1>1
  <1>3. m \in M /\ m.size = n /\ n \in Nat
    <2>1. k + 1 \in 1..Len(s)
      BY <1>2
    <2> QED BY <1>2, <2>1, CellFacts
  <1>4. m \in F
    BY <1>3
  <1>5. Lined(r, F)
    BY DropLined
  <1>6. r[1].at = 1
    <2>1. CASE k = 0
      BY <1>2, <2>1 DEF Starts
    <2>2. CASE k # 0
      <3>1. k \in 1..Len(s) - 1
        BY <1>2, <2>2
      <3> QED BY <1>2, <3>1, BehindAnEnd
    <2> QED BY <2>1, <2>2
  <1>7. SubSeq(r, 1, n) = Whole(m)
    <2>1. Len(r) > 0 /\ m.size > 0 /\ m.size <= Len(r)
      BY <1>1, <1>2, <1>3
    <2> HIDE DEF r
    <2> QED BY <1>1, <1>3, <1>4, <1>5, <1>6, <2>1, WholeAtStart
  <1>8. /\ Whole(m) \in Seq(Cells(M)) /\ Whole(m)[1].msg = m
        /\ \A i \in 1..n : Whole(m)[i] = [msg |-> m, at |-> i]
    <2>1. m.size > 0
      BY <1>3
    <2> HIDE DEF m
    <2> QED BY <1>3, <2>1, WholeFacts
  <1>0. n <= Len(r)
    OBVIOUS
  <1> HIDE DEF r
  <1>9. k + n \in 0..Len(s) /\ n > 0 /\ n \in 0..Len(s) - k
    <2>1. n >= header /\ header \in Nat \ {0} /\ Len(r) = Len(s) - k
      BY <1>1
    <2> QED BY ONLY <1>0, <1>2, <1>3, <2>1
  <1>10. EndsAt(s, k + n, F)
    <2>1. s[n + k] = r[n] /\ n \in 1..Len(s) - k
      BY <1>1, <1>9
    <2>2. SubSeq(r, 1, n)[n] = r[n]
      <3>1. n \in Nat /\ 1 <= n /\ n <= Len(r) /\ r \in Seq(Cells(M))
        BY <1>0, <1>1, <1>3, <1>9
      <3> QED BY ONLY <3>1
    <2>3. r[n] = [msg |-> m, at |-> n]
      <3>1. n \in 1..n
        BY <1>3, <1>9
      <3> HIDE DEF m
      <3> QED BY ONLY <1>7, <1>8, <2>2, <3>1
    <2>4. s[k + n] = [msg |-> m, at |-> n]
      BY ONLY <1>2, <1>3, <2>1, <2>3
    <2>5. s[k + n].msg = m /\ s[k + n].at = n
      BY <2>4
    <2> QED BY ONLY <1>3, <1>4, <2>5 DEF EndsAt
  <1>11. Drop(r, n) = Drop(s, k + n)
    BY <1>9, DropDrop DEF r
  <1>12. /\ o \in Seq(Seq(Cells(M))) /\ Len(o) = Len(out) + 1 /\ Len(out) \in Nat
         /\ \A j \in 1..Len(out) : o[j] = out[j]
         /\ o[Len(out) + 1] = Whole(m)
    <2>1. SubSeq(r, 1, n) \in Seq(Cells(M))
      BY <1>7, <1>8
    <2> DEFINE x == SubSeq(r, 1, n)
               S == Seq(Cells(M))
    <2>2. out \in Seq(S) /\ x \in S
      BY <2>1
    <2> HIDE DEF x, S
    <2>3. /\ Append(out, x) \in Seq(S) /\ Len(Append(out, x)) = Len(out) + 1
          /\ \A j \in 1..Len(out) : Append(out, x)[j] = out[j]
          /\ Append(out, x)[Len(out) + 1] = x
          /\ Len(out) \in Nat
      BY <2>2, AppendFacts
    <2> QED BY <1>7, <2>3 DEF x, S
  <1> HIDE DEF o
  <1>13. ASSUME NEW j \in 1..Len(o)
         PROVE  \E i \in 1..k + n : /\ o[j] = Whole(s[i].msg) /\ s[i].msg \in F
                                    /\ s[i].msg.size >= header /\ s[i].msg.size <= limit
    <2>1. CASE j \in 1..Len(out)
      <3>1. PICK i \in 1..k : /\ out[j] = Whole(s[i].msg) /\ s[i].msg \in F
                              /\ s[i].msg.size >= header /\ s[i].msg.size <= limit
        BY <2>1 DEF Framed
      <3>2. i \in 1..k + n
        BY <1>2, <1>3
      <3> QED BY <1>12, <2>1, <3>1, <3>2
    <2>2. CASE j = Len(out) + 1
      <3>1. k + 1 \in 1..k + n /\ s[k + 1].msg = m
        <4>1. k + 1 \in 1..k + n
          BY ONLY <1>2, <1>3, <1>9
        <4> QED BY <1>2, <4>1
      <3> QED BY <1>12, <1>3, <1>4, <2>2, <3>1
    <2> QED BY <1>12, <2>1, <2>2
  <1>14. ASSUME NEW j \in 1..Len(o), NEW l \in 1..Len(o), j < l
         PROVE  o[j][1].msg.id < o[l][1].msg.id
    <2>1. CASE l \in 1..Len(out)
      <3>1. j \in 1..Len(out)
        BY <1>12, <1>14, <2>1
      <3> QED BY <1>12, <1>14, <2>1, <3>1 DEF Framed
    <2>2. CASE l = Len(out) + 1
      <3>1. j \in 1..Len(out)
        BY <1>12, <1>14, <2>2
      <3>2. PICK i \in 1..k : out[j] = Whole(s[i].msg) /\ s[i].msg \in F
                              /\ s[i].msg.size >= header
        BY <3>1 DEF Framed
      <3>3. k \in 1..Len(s) - 1 /\ i \in 1..Len(s) /\ k + 1 \in k + 1..Len(s)
        BY <1>2
      <3>4. s[i].msg.id < s[k + 1].msg.id
        BY <3>3, BehindAnEnd
      <3>5. s[i].msg \in M /\ s[i].msg.size \in Nat
        BY <3>3, CellFacts
      <3>6. Whole(s[i].msg)[1].msg = s[i].msg
        BY <3>2, <3>5, WholeFacts
      <3> QED BY <1>2, <1>8, <1>12, <2>2, <3>1, <3>2, <3>4, <3>6
    <2> QED BY <1>12, <2>1, <2>2
  <1>15. ASSUME Gapless(s) PROVE Numbered(s, k + n, o)
    <2>1. Numbered(s, k, out)
      BY <1>15 DEF Framed
    <2>2. s[k + n].msg = m
      <3>1. k + n > 0
        BY ONLY <1>2, <1>3, <1>9
      <3>2. s[k + n] = r[n] /\ n \in 1..Len(s) - k /\ n \in 1..n
        BY <1>1, <1>2, <1>3, <1>9
      <3>3. SubSeq(r, 1, n)[n] = r[n]
        <4>1. n \in Nat /\ 1 <= n /\ n <= Len(r) /\ r \in Seq(Cells(M))
          BY <1>0, <1>1, <1>3, <1>9
        <4> QED BY ONLY <4>1
      <3>4. r[n] = [msg |-> m, at |-> n]
        <4> HIDE DEF m
        <4> QED BY ONLY <1>7, <1>8, <3>2, <3>3
      <3> QED BY <3>2, <3>4
    <2>3. s[1].msg.id \in Nat /\ s[k + 1].msg = m /\ m.id \in Nat
      <3>1. 1 \in 1..Len(s) /\ k + 1 \in 1..Len(s)
        BY <1>2
      <3> QED BY <1>2, <3>1, CellFacts
    <2>4. m.id = s[1].msg.id + Len(out)
      <3>1. CASE k = 0
        <4>1. Len(out) = 0 /\ s[k + 1] = s[1]
          BY <2>1, <3>1 DEF Numbered
        <4> HIDE DEF m
        <4> QED BY <2>3, <4>1
      <3>2. CASE k # 0
        <4>1. k \in 1..Len(s) - 1 /\ k \in 1..k /\ k + 1 \in k + 1..Len(s) /\ k > 0 /\ k \in 1..Len(s)
          BY <1>2, <3>2
        <4>2. s[k].msg.id < s[k + 1].msg.id
          BY <4>1, BehindAnEnd
        <4>3. s[k + 1].msg.id <= s[k].msg.id + 1
          BY <1>15, <4>1 DEF Gapless
        <4>4. s[k].msg.id = s[1].msg.id + Len(out) - 1
          BY <2>1, <4>1 DEF Numbered
        <4>5. s[k].msg.id \in Nat
          BY <4>1, CellFacts
        <4>6. s[k + 1].msg.id = m.id /\ Len(out) \in Nat
          BY <1>12, <2>3
        <4>7. ASSUME NEW a \in Nat, NEW b \in Nat, NEW c \in Nat, NEW l \in Nat,
                     b < c, c <= b + 1, b = a + l - 1
              PROVE  c = a + l
          BY ONLY <4>7, a \in Nat, b \in Nat, c \in Nat, l \in Nat
        <4> HIDE DEF m
        <4> QED BY ONLY <2>3, <4>2, <4>3, <4>4, <4>5, <4>6, <4>7
      <3> QED BY <3>1, <3>2
    <2>5. ASSUME NEW j \in 1..Len(o) PROVE o[j][1].msg.id = s[1].msg.id + j - 1
      <3>1. CASE j \in 1..Len(out)
        BY <1>12, <2>1, <3>1 DEF Numbered
      <3>2. CASE j = Len(out) + 1
        <4>1. o[j][1].msg = m
          BY <1>8, <1>12, <3>2
        <4> HIDE DEF m
        <4> QED BY ONLY <1>12, <2>3, <2>4, <3>2, <4>1
      <3> QED BY <1>12, <3>1, <3>2
    <2>6. k + n # 0 /\ s[k + n].msg.id = s[1].msg.id + Len(o) - 1
      <3>1. k + n # 0
        BY ONLY <1>2, <1>3, <1>9
      <3> HIDE DEF m
      <3> QED BY ONLY <1>12, <2>2, <2>3, <2>4, <3>1
    <2> QED BY <2>5, <2>6 DEF Numbered
  <1>16. Framed(s, k + n, o, header, limit, F)
    BY <1>13, <1>14, <1>15 DEF Framed
  <1> QED BY <1>9, <1>10, <1>11, <1>12, <1>16 DEF o, r

\* A state of the loop after k bytes were cut into frames.  A length that was
\* rejected is in the bytes that are left.
Cut(s, k, f, header, limit, M, F) ==
  /\ f \in [out : Seq(Seq(Cells(M))), rest : Seq(Cells(M)), ok : BOOLEAN]
  /\ f.rest = Drop(s, k) /\ EndsAt(s, k, F)
  /\ Framed(s, k, f.out, header, limit, F)
  /\ f.ok \/ f.rest # <<>>

\* A turn of the loop keeps its state sound.
LEMMA FrameOneCuts ==
  ASSUME NEW M, NEW F, NEW s, NEW header, NEW limit, Stream(s, header, limit, M, F),
         NEW k \in 0..Len(s), NEW f, Cut(s, k, f, header, limit, M, F)
  PROVE  \E j \in 0..Len(s) : Cut(s, j, FrameOne(f, header, limit), header, limit, M, F)
  <1> DEFINE n == f.rest[1].msg.size
             g == FrameOne(f, header, limit)
  <1>0. /\ Messages(M) /\ s \in Seq(Cells(M)) /\ header \in Nat \ {0} /\ limit \in Nat
    BY DEF Stream
  <1>1. /\ f \in [out : Seq(Seq(Cells(M))), rest : Seq(Cells(M)), ok : BOOLEAN]
        /\ f.rest = Drop(s, k) /\ EndsAt(s, k, F)
        /\ Framed(s, k, f.out, header, limit, F)
    BY DEF Cut
  <1>2. CASE ~f.ok \/ Len(f.rest) < header
    <2>1. g = f
      BY <1>2, Zenon DEF FrameOne
    <2> QED BY <2>1
  <1>3. CASE ~(~f.ok \/ Len(f.rest) < header) /\ (n < header \/ n > limit)
    <2>1. g = [f EXCEPT !.ok = FALSE]
      BY <1>3, Zenon DEF FrameOne
    <2>2. g \in [out : Seq(Seq(Cells(M))), rest : Seq(Cells(M)), ok : BOOLEAN]
      BY <1>1, <2>1
    <2>3. g.rest = f.rest /\ g.out = f.out
      BY <1>1, <2>1
    <2>4. f.rest # <<>>
      <3>1. Len(f.rest) \in Nat /\ ~(Len(f.rest) < header)
        BY <1>1, <1>3
      <3>2. Len(f.rest) # 0
        BY <1>0, <3>1
      <3> QED BY <1>1, <3>2, EmptySeq
    <2>5. Cut(s, k, g, header, limit, M, F)
      <3> HIDE DEF g
      <3> QED BY <1>1, <2>2, <2>3, <2>4 DEF Cut
    <2> QED BY <2>5
  <1>4. CASE ~(~f.ok \/ Len(f.rest) < header) /\ ~(n < header \/ n > limit) /\ Len(f.rest) < n
    <2>1. g = f
      BY <1>4, Zenon DEF FrameOne
    <2> QED BY <2>1
  <1>5. CASE ~(~f.ok \/ Len(f.rest) < header) /\ ~(n < header \/ n > limit) /\ ~(Len(f.rest) < n)
    <2> DEFINE o == Append(f.out, SubSeq(f.rest, 1, n))
    <2>1. g = [f EXCEPT !.out = o, !.rest = Drop(f.rest, n)]
      BY <1>5, Zenon DEF FrameOne
    <2>2. n \in Nat
      <3>1. Len(f.rest) \in Nat /\ f.rest \in Seq(Cells(M)) /\ ~(Len(f.rest) < header)
        BY <1>1, <1>5
      <3>2. 1 \in 1..Len(f.rest)
        BY <1>0, <3>1
      <3> HIDE DEF n
      <3>3. f.rest[1].msg.size \in Nat
        BY <1>0, <3>1, <3>2, CellFacts
      <3> QED BY <3>3 DEF n
    <2>3. n >= header /\ n <= limit /\ Len(f.rest) >= header /\ Len(f.rest) >= n
      <3>1. Len(f.rest) \in Nat
        BY <1>1
      <3> HIDE DEF n
      <3> QED BY <1>0, <1>5, <2>2, <3>1
    <2>4. /\ k + n \in 0..Len(s) /\ EndsAt(s, k + n, F)
          /\ Drop(f.rest, n) = Drop(s, k + n)
          /\ o \in Seq(Seq(Cells(M)))
          /\ Framed(s, k + n, o, header, limit, F)
      <3>1. f.out \in Seq(Seq(Cells(M)))
        BY <1>1
      <3>2. CanCut(Drop(s, k), n, header, limit)
        BY <1>1, <2>3 DEF CanCut
      <3> HIDE DEF n
      <3> DEFINE p == f.out
      <3>3. p \in Seq(Seq(Cells(M))) /\ Framed(s, k, p, header, limit, F)
        BY <1>1, <3>1
      <3> HIDE DEF p
      <3>4. /\ k + n \in 0..Len(s) /\ EndsAt(s, k + n, F)
            /\ Drop(Drop(s, k), n) = Drop(s, k + n)
            /\ Append(p, SubSeq(Drop(s, k), 1, n)) \in Seq(Seq(Cells(M)))
            /\ Framed(s, k + n, Append(p, SubSeq(Drop(s, k), 1, n)), header, limit, F)
        BY <1>1, <3>2, <3>3, FrameOneFacts, Zenon
      <3> QED BY <1>1, <3>4 DEF p
    <2>5. Drop(f.rest, n) \in Seq(Cells(M))
      BY <1>0, <2>4, DropFacts
    <2>6. g \in [out : Seq(Seq(Cells(M))), rest : Seq(Cells(M)), ok : BOOLEAN]
      <3> HIDE DEF o, n
      <3> QED BY <1>1, <2>1, <2>4, <2>5
    <2>7. g.rest = Drop(f.rest, n) /\ g.out = o /\ g.ok
      <3> HIDE DEF o, n
      <3> QED BY <1>1, <1>5, <2>1
    <2>8. Cut(s, k + n, g, header, limit, M, F)
      <3> HIDE DEF o, n, g
      <3> QED BY <2>4, <2>6, <2>7 DEF Cut
    <2> QED BY <2>4, <2>8
  <1> QED BY <1>2, <1>3, <1>4, <1>5, Zenon

\* What push returns: it has cut a number of bytes that ends with a message
\* into whole messages, and keeps the other bytes.
LEMMA PushCuts ==
  ASSUME NEW M, NEW F, NEW s, NEW header, NEW limit, Stream(s, header, limit, M, F)
  PROVE  \E k \in 0..Len(s) : Cut(s, k, Push(s, header, limit), header, limit, M, F)
  <1>1. s \in Seq(Cells(M)) /\ Len(s) \in Nat
    BY DEF Stream
  <1>2. PICK g : Push(s, header, limit) = g[Len(s)] /\ Turns(s, header, limit, g)
    BY <1>1, PushUnfolds
  <1> DEFINE T == {i \in 0..Len(s) : \E k \in 0..Len(s) : Cut(s, k, g[i], header, limit, M, F)}
  <1>3. 0 \in T
    <2>1. g[0] = Unframed(s)
      BY <1>1, <1>2 DEF Turns
    <2>2. Cut(s, 0, Unframed(s), header, limit, M, F)
      <3>1. Drop(s, 0) = s
        BY <1>1 DEF Drop
      <3>2. Unframed(s) = [out |-> <<>>, rest |-> s, ok |-> TRUE]
        BY DEF Unframed
      <3>3. <<>> \in Seq(Seq(Cells(M))) /\ Len(<<>>) = 0
        OBVIOUS
      <3>4. EndsAt(s, 0, F)
        BY DEF EndsAt
      <3>5. Framed(s, 0, <<>>, header, limit, F)
        BY <3>3 DEF Framed, Numbered
      <3> QED BY <1>1, <3>1, <3>2, <3>3, <3>4, <3>5 DEF Cut
    <2> QED BY <1>1, <2>1, <2>2
  <1>4. ASSUME NEW i \in 0..Len(s) - 1, i \in T PROVE i + 1 \in T
    <2>1. PICK k \in 0..Len(s) : Cut(s, k, g[i], header, limit, M, F)
      BY <1>4
    <2>2. g[i + 1] = FrameOne(g[i], header, limit)
      <3>1. i + 1 \in 0..Len(s) /\ i + 1 # 0 /\ (i + 1) - 1 = i
        BY <1>1
      <3> QED BY <1>2, <3>1 DEF Turns
    <2>3. \E j \in 0..Len(s) : Cut(s, j, FrameOne(g[i], header, limit), header, limit, M, F)
      BY <2>1, FrameOneCuts
    <2> QED BY <1>1, <2>2, <2>3
  <1>5. \A i \in 0..Len(s) : i \in T
    <2>1. \A i \in 0..Len(s) - 1 : i \in T => i + 1 \in T
      BY <1>4
    <2> HIDE DEF T
    <2> QED BY <1>1, <1>3, <2>1, Induction
  <1> QED BY <1>1, <1>2, <1>5

\* Bytes that are read join those in the buffer.
ReadOff(s, t, c, p, d) ==
  /\ \E n \in 1..Len(t) : c = SubSeq(t, 1, n)
  /\ p = s \o c /\ d = Drop(t, Len(c))

\* What was read and what is left is what there was.
LEMMA ReadSplits ==
  ASSUME NEW S, NEW s \in Seq(S), NEW t \in Seq(S), NEW c, NEW p, NEW d, ReadOff(s, t, c, p, d)
  PROVE  /\ c \in Seq(S) /\ p \in Seq(S) /\ Len(p) > 0 /\ d \in Seq(S)
         /\ p \o d = s \o t
  <1>a. PICK n \in 1..Len(t) : c = SubSeq(t, 1, n)
    BY DEF ReadOff
  <1>1. n \in Nat /\ 1 <= n /\ n <= Len(t) /\ Len(t) \in Nat /\ Len(s) \in Nat /\ n \in 0..Len(t)
    OBVIOUS
  <1>2. c \in Seq(S) /\ Len(c) = n /\ \A i \in 1..n : c[i] = t[i]
    BY <1>1, <1>a
  <1>b. d = Drop(t, n) /\ p = s \o c
    BY <1>2 DEF ReadOff
  <1>3. d \in Seq(S) /\ Len(d) = Len(t) - n /\ \A i \in 1..Len(t) - n : d[i] = t[i + n]
    BY <1>1, <1>b, DropFacts
  <1> DEFINE w == p \o d
             u == s \o t
  <1>4. /\ p \in Seq(S) /\ Len(p) = Len(s) + n
        /\ \A i \in 1..Len(s) : p[i] = s[i]
        /\ \A i \in Len(s) + 1..Len(s) + n : p[i] = c[i - Len(s)]
    <2>1. c \in Seq(S) /\ Len(c) = n
      BY <1>2
    <2>2. /\ p \in Seq(S) /\ Len(p) = Len(s) + Len(c)
          /\ \A i \in 1..Len(s) : p[i] = s[i]
          /\ \A i \in Len(s) + 1..Len(s) + Len(c) : p[i] = c[i - Len(s)]
      BY <1>b, <2>1, ConcatFacts, Zenon
    <2> QED BY ONLY <2>1, <2>2
  <1>5. /\ u \in Seq(S) /\ Len(u) = Len(s) + Len(t)
        /\ \A i \in 1..Len(s) : u[i] = s[i]
        /\ \A i \in Len(s) + 1..Len(s) + Len(t) : u[i] = t[i - Len(s)]
    BY ConcatFacts
  <1> HIDE DEF u
  <1>6. /\ w \in Seq(S) /\ Len(w) = Len(p) + Len(d)
        /\ \A i \in 1..Len(p) : w[i] = p[i]
        /\ \A i \in Len(p) + 1..Len(p) + Len(d) : w[i] = d[i - Len(p)]
    <2>1. p \in Seq(S) /\ d \in Seq(S)
      BY <1>3, <1>4
    <2> QED BY ONLY <2>1, ConcatFacts
  <1> HIDE DEF w
  <1>7. Len(w) = Len(u)
    BY <1>1, <1>3, <1>4, <1>5, <1>6
  <1>8. ASSUME NEW i \in 1..Len(w) PROVE w[i] = u[i]
    <2>1. CASE i \in 1..Len(s)
      <3>1. i \in 1..Len(p)
        BY <1>1, <1>4, <2>1
      <3> QED BY <1>4, <1>5, <1>6, <2>1, <3>1
    <2>2. CASE i \in Len(s) + 1..Len(s) + n
      <3>1. i \in 1..Len(p) /\ i \in Len(s) + 1..Len(s) + Len(t) /\ i - Len(s) \in 1..n
        BY <1>1, <1>4, <2>2
      <3> QED BY <1>2, <1>4, <1>5, <1>6, <2>2, <3>1
    <2>3. CASE i \in Len(s) + n + 1..Len(s) + Len(t)
      <3>1. /\ i \in Len(p) + 1..Len(p) + Len(d) /\ i \in Len(s) + 1..Len(s) + Len(t)
            /\ i - Len(p) \in 1..Len(t) - n /\ (i - Len(p)) + n = i - Len(s)
        BY <1>1, <1>3, <1>4, <2>3
      <3>2. w[i] = d[i - Len(p)] /\ d[i - Len(p)] = t[(i - Len(p)) + n]
        BY <1>3, <1>6, <3>1
      <3> QED BY <1>5, <3>1, <3>2
    <2> QED BY <1>1, <1>5, <1>7, <2>1, <2>2, <2>3
  <1>9. w = u
    BY <1>5, <1>6, <1>7, <1>8, SeqEqual
  <1>10. Len(p) > 0
    BY ONLY <1>1, <1>4
  <1> QED BY <1>2, <1>3, <1>4, <1>9, <1>10 DEF w, u

\* The same as one formula, for steps that have no need to look inside.
SplitsInto(S, s, t, c, p, d) ==
  c \in Seq(S) /\ p \in Seq(S) /\ Len(p) > 0 /\ d \in Seq(S) /\ p \o d = s \o t

\* What was read splits the bytes there were.
LEMMA ReadSplitsInto ==
  ASSUME NEW S, NEW s \in Seq(S), NEW t \in Seq(S), NEW c, NEW p, NEW d, ReadOff(s, t, c, p, d)
  PROVE  SplitsInto(S, s, t, c, p, d)
  BY ReadSplits DEF SplitsInto

\* Leaving out bytes of the buffer leaves them out of the whole stream.
LEMMA DropConcat ==
  ASSUME NEW S, NEW s \in Seq(S), NEW t \in Seq(S), NEW k \in 0..Len(s)
  PROVE  Drop(s, k) \o t = Drop(s \o t, k)
  <1> DEFINE d == Drop(s, k)
             u == s \o t
             e == Drop(u, k)
             v == d \o t
  <1>1. d \in Seq(S) /\ Len(d) = Len(s) - k /\ \A i \in 1..Len(s) - k : d[i] = s[i + k]
    BY DropFacts
  <1>2. /\ u \in Seq(S) /\ Len(u) = Len(s) + Len(t) /\ Len(s) \in Nat /\ Len(t) \in Nat
        /\ \A i \in 1..Len(s) : u[i] = s[i]
        /\ \A i \in Len(s) + 1..Len(s) + Len(t) : u[i] = t[i - Len(s)]
    BY ConcatFacts
  <1> HIDE DEF d, u
  <1>0. k \in Nat /\ k <= Len(s) /\ k \in 0..Len(u)
    BY <1>2
  <1>3. e \in Seq(S) /\ Len(e) = Len(u) - k /\ \A i \in 1..Len(u) - k : e[i] = u[i + k]
    BY <1>0, <1>2, DropFacts
  <1>4. /\ v \in Seq(S) /\ Len(v) = Len(d) + Len(t) /\ Len(d) \in Nat
        /\ \A i \in 1..Len(d) : v[i] = d[i]
        /\ \A i \in Len(d) + 1..Len(d) + Len(t) : v[i] = t[i - Len(d)]
    BY <1>1, ConcatFacts
  <1> HIDE DEF e, v
  <1>5. Len(v) = Len(e)
    BY <1>0, <1>1, <1>2, <1>3, <1>4
  <1>6. ASSUME NEW i \in 1..Len(v) PROVE v[i] = e[i]
    <2>1. i \in 1..Len(u) - k /\ e[i] = u[i + k]
      BY <1>0, <1>2, <1>3, <1>5
    <2>2. CASE i <= Len(d)
      <3>1. i \in 1..Len(d) /\ i \in 1..Len(s) - k /\ i + k \in 1..Len(s)
        BY <1>0, <1>1, <1>2, <2>2
      <3> QED BY <1>1, <1>2, <1>4, <2>1, <3>1
    <2>3. CASE ~(i <= Len(d))
      <3>1. /\ i \in Len(d) + 1..Len(d) + Len(t) /\ i + k \in Len(s) + 1..Len(s) + Len(t)
            /\ i - Len(d) = (i + k) - Len(s)
        BY <1>0, <1>1, <1>2, <1>4, <2>3
      <3> QED BY <1>2, <1>4, <2>1, <3>1
    <2> QED BY <2>2, <2>3
  <1>7. v = e
    BY <1>3, <1>4, <1>5, <1>6, SeqEqual
  <1> QED BY <1>7 DEF v, e, d, u

\* The last message of a stream is there to its last byte, if it is one of F.
Closed(s, F) ==
  Len(s) > 0 /\ s[Len(s)].msg \in F => s[Len(s)].at = s[Len(s)].msg.size

\* Bytes in flight, from the first byte of a message on.
Orderly(s, M, F) ==
  /\ Messages(M) /\ F \in SUBSET M /\ s \in Seq(Cells(M))
  /\ Lined(s, F) /\ Starts(s) /\ Closed(s, F)

\* In a stream of complete messages the first one is there to its end.
LEMMA FirstIsWhole ==
  ASSUME NEW M, NEW s, Orderly(s, M, M), Len(s) > 0
  PROVE  /\ s[1].msg \in M /\ s[1].msg.size \in 1..Len(s)
         /\ EndsAt(s, s[1].msg.size, M)
  <1> DEFINE m == s[1].msg
             n == m.size
  <1> USE DEF Orderly
  <1>1. Len(s) \in Nat \ {0} /\ 1 \in 1..Len(s) /\ s # <<>>
    OBVIOUS
  <1>2. m \in M /\ n \in Nat /\ s[1].at = 1
    BY <1>1, CellFacts DEF Starts
  <1>3. n >= 1
    BY <1>1, <1>2 DEF Lined
  <1>4. n <= Len(s)
    <2> SUFFICES ASSUME n > Len(s) PROVE FALSE
      BY <1>1, <1>2
    <2>1. Len(s) \in Nat \ {0} /\ Len(s) <= n
      BY <1>1, <1>2
    <2>2. \A j \in 1..Len(s) : s[j].msg = m /\ s[j].at = j
      BY <1>1, <1>2, <2>1, SameMessage
    <2>3. s[Len(s)].msg = m /\ s[Len(s)].at = Len(s)
      BY <1>1, <2>2
    <2>4. Len(s) = n
      BY <1>1, <1>2, <2>3 DEF Closed
    <2> QED BY <1>1, <1>2, <2>4
  <1>5. s[n].msg = m /\ s[n].at = n
    <2>1. \A j \in 1..n : s[j].msg = m /\ s[j].at = j
      BY <1>1, <1>2, <1>3, <1>4, SameMessage
    <2> QED BY <1>2, <1>3, <2>1
  <1> QED BY <1>1, <1>2, <1>3, <1>4, <1>5 DEF EndsAt

\* n bytes of a message later than all others, all of them if it is one of F.
Sendable(s, m, n, F) ==
  (m \in F => n = m.size) /\ \A i \in 1..Len(s) : s[i].msg.id < m.id

\* A message that is sent behind all others keeps the stream in line.
LEMMA SendLined ==
  ASSUME NEW M, NEW F, NEW s, Orderly(s, M, F), NEW m \in M, NEW n \in Nat, Sendable(s, m, n, F)
  PROVE  /\ Orderly(s \o Bytes(m, n), M, F)
         /\ \A i \in 1..Len(s \o Bytes(m, n)) :
              \/ (s \o Bytes(m, n))[i].msg = m
              \/ i \in 1..Len(s) /\ (s \o Bytes(m, n))[i] = s[i]
  <1> DEFINE b == Bytes(m, n)
             t == s \o b
  <1> USE DEF Orderly, Sendable
  <1>0. /\ b = [j \in 1..n |-> [msg |-> m, at |-> j]]
        /\ \A j \in 1..n : [msg |-> m, at |-> j] \in Cells(M)
    BY DEF Bytes, Cells
  <1> HIDE DEF b
  <1>1. b \in Seq(Cells(M)) /\ Len(b) = n /\ \A i \in 1..n : b[i].msg = m /\ b[i].at = i
    <2>1. \A i \in 1..n : b[i] = [msg |-> m, at |-> i] /\ b[i] \in Cells(M)
      BY <1>0
    <2>2. b = [j \in 1..n |-> b[j]]
      BY <1>0, <2>1
    <2> QED BY ONLY <2>1, <2>2, n \in Nat
  <1>2. /\ t \in Seq(Cells(M)) /\ Len(t) = Len(s) + n /\ Len(s) \in Nat
        /\ \A i \in 1..Len(s) : t[i] = s[i]
        /\ \A i \in Len(s) + 1..Len(t) : t[i] = b[i - Len(s)]
    <2>1. s \in Seq(Cells(M)) /\ b \in Seq(Cells(M))
      BY <1>1
    <2>2. /\ s \o b \in Seq(Cells(M)) /\ Len(s) \in Nat /\ Len(b) \in Nat
          /\ Len(s \o b) = Len(s) + Len(b)
          /\ \A i \in 1..Len(s) : (s \o b)[i] = s[i]
          /\ \A i \in Len(s) + 1..Len(s) + Len(b) : (s \o b)[i] = b[i - Len(s)]
      BY <2>1, ConcatFacts, Zenon
    <2> QED BY ONLY <1>1, <2>2
  <1>3. \A i \in Len(s) + 1..Len(t) : t[i].msg = m /\ t[i].at = i - Len(s)
    BY <1>1, <1>2
  <1> HIDE DEF t
  <1>4. ASSUME NEW i \in 1..Len(t)
        PROVE  (i \in 1..Len(s) /\ t[i] = s[i]) \/ i \in Len(s) + 1..Len(t)
    BY <1>2
  <1>5. m.id \in Nat /\ m.size \in Nat
    BY DEF Messages
  <1>6. \A i \in 1..Len(t) : t[i].msg \in F => t[i].at <= t[i].msg.size
    <2> SUFFICES ASSUME NEW i \in 1..Len(t), t[i].msg \in F PROVE t[i].at <= t[i].msg.size
      OBVIOUS
    <2>1. CASE i \in 1..Len(s)
      BY <1>2, <2>1 DEF Lined
    <2>2. CASE i \in Len(s) + 1..Len(t)
      <3>1. t[i].msg = m /\ t[i].at = i - Len(s) /\ n = m.size
        BY <1>3, <2>2
      <3> QED BY <1>2, <1>5, <2>2, <3>1
    <2> QED BY <1>4, <2>1, <2>2
  <1>7. ASSUME NEW i \in 1..Len(t) - 1
        PROVE  \/ t[i + 1].msg = t[i].msg /\ t[i + 1].at = t[i].at + 1
               \/ /\ t[i + 1].at = 1 /\ t[i].msg.id < t[i + 1].msg.id
                  /\ t[i].msg \in F => t[i].at = t[i].msg.size
    <2>1. CASE i + 1 <= Len(s)
      <3>1. i \in 1..Len(s) - 1 /\ t[i] = s[i] /\ t[i + 1] = s[i + 1]
        <4>1. i \in 1..Len(s) - 1 /\ i \in 1..Len(s) /\ i + 1 \in 1..Len(s)
          BY <1>2, <2>1
        <4> QED BY <1>2, <4>1
      <3> QED BY <3>1 DEF Lined
    <2>2. CASE i = Len(s)
      <3>1. t[i] = s[Len(s)] /\ Len(s) > 0 /\ Len(s) \in 1..Len(s)
        BY <1>2, <2>2
      <3>2. t[i + 1].msg = m /\ t[i + 1].at = 1
        BY <1>2, <1>3, <2>2
      <3> QED BY <3>1, <3>2 DEF Closed
    <2>3. CASE i > Len(s)
      <3>1. i \in Len(s) + 1..Len(t) /\ i + 1 \in Len(s) + 1..Len(t)
        BY <1>2, <2>3
      <3>2. t[i].msg = m /\ t[i].at = i - Len(s) /\ t[i + 1].msg = m /\ t[i + 1].at = (i + 1) - Len(s)
        BY <1>3, <3>1
      <3> QED BY <1>2, <3>2
    <2> QED BY <1>2, <2>1, <2>2, <2>3
  <1>8. ASSUME NEW i \in 1..Len(t), NEW j \in 1..Len(t), i <= j
        PROVE  t[i].msg.id <= t[j].msg.id
    <2>1. CASE j \in 1..Len(s)
      <3>1. i \in 1..Len(s)
        BY <1>2, <1>8, <2>1
      <3> QED BY <1>2, <1>8, <2>1, <3>1 DEF Lined
    <2>2. CASE j \in Len(s) + 1..Len(t) /\ i \in 1..Len(s)
      <3>1. t[j].msg = m /\ t[i] = s[i] /\ s[i].msg.id < m.id
        BY <1>2, <1>3, <2>2
      <3>2. s[i].msg.id \in Nat
        BY <2>2, CellFacts
      <3> QED BY <1>5, <3>1, <3>2
    <2>3. CASE j \in Len(s) + 1..Len(t) /\ i \in Len(s) + 1..Len(t)
      BY <1>3, <1>5, <2>3
    <2> QED BY <1>4, <2>1, <2>2, <2>3
  <1>9. Lined(t, F)
    BY <1>6, <1>7, <1>8 DEF Lined
  <1>10. Closed(t, F)
    <2>1. CASE n = 0
      <3>1. Len(t) = Len(s) /\ (Len(s) > 0 => t[Len(s)] = s[Len(s)])
        BY <1>2, <2>1
      <3> QED BY <3>1 DEF Closed
    <2>2. CASE n # 0
      <3>1. Len(t) \in Len(s) + 1..Len(t) /\ Len(t) - Len(s) = n
        BY <1>2, <2>2
      <3>2. t[Len(t)].msg = m /\ t[Len(t)].at = n
        BY <1>3, <3>1
      <3> QED BY <3>2 DEF Closed
    <2> QED BY <2>1, <2>2
  <1>11. Starts(t)
    <2> SUFFICES ASSUME t # <<>> PROVE t[1].at = 1
      BY DEF Starts
    <2>1. Len(t) >= 1
      BY <1>2
    <2>2. CASE Len(s) = 0
      <3>1. 1 \in Len(s) + 1..Len(t)
        BY <1>2, <2>1, <2>2
      <3>2. t[1].at = 1 - Len(s)
        BY <1>3, <3>1
      <3> QED BY <2>2, <3>2
    <2>3. CASE Len(s) # 0
      <3>1. t[1] = s[1] /\ s # <<>>
        BY <1>2, <2>3
      <3> QED BY <3>1 DEF Starts
    <2> QED BY <2>2, <2>3
  <1>12. \A i \in 1..Len(t) : t[i].msg = m \/ (i \in 1..Len(s) /\ t[i] = s[i])
    BY <1>3, <1>4
  <1> QED BY <1>2, <1>9, <1>10, <1>11, <1>12 DEF t, b

\* The first bytes of a stream are in line.
LEMMA PrefixLined ==
  ASSUME NEW M, NEW F, NEW s \in Seq(Cells(M)), NEW t \in Seq(Cells(M)), Lined(s \o t, F),
         Starts(s \o t)
  PROVE  Lined(s, F) /\ Starts(s)
  <1> DEFINE u == s \o t
  <1>1. /\ u \in Seq(Cells(M)) /\ Len(s) \in Nat /\ Len(t) \in Nat /\ Len(u) = Len(s) + Len(t)
        /\ \A i \in 1..Len(s) : u[i] = s[i]
    BY ConcatFacts
  <1>0. Lined(u, F) /\ Starts(u)
    OBVIOUS
  <1> HIDE DEF u
  <1>2. \A i \in 1..Len(s) : i \in 1..Len(u) /\ u[i] = s[i]
    BY <1>1
  <1>3. \A i \in 1..Len(s) : s[i].msg \in F => s[i].at <= s[i].msg.size
    BY <1>0, <1>2 DEF Lined
  <1>4. ASSUME NEW i \in 1..Len(s) - 1
        PROVE  \/ s[i + 1].msg = s[i].msg /\ s[i + 1].at = s[i].at + 1
               \/ /\ s[i + 1].at = 1 /\ s[i].msg.id < s[i + 1].msg.id
                  /\ s[i].msg \in F => s[i].at = s[i].msg.size
    <2>1. i \in 1..Len(u) - 1 /\ i \in 1..Len(s) /\ i + 1 \in 1..Len(s)
      BY <1>1
    <2>2. u[i] = s[i] /\ u[i + 1] = s[i + 1]
      BY <1>2, <2>1
    <2> QED BY <1>0, <2>1, <2>2 DEF Lined
  <1>5. \A i, j \in 1..Len(s) : i <= j => s[i].msg.id <= s[j].msg.id
    BY <1>0, <1>2 DEF Lined
  <1>6. Starts(s)
    <2> SUFFICES ASSUME s # <<>> PROVE s[1].at = 1
      BY DEF Starts
    <2>1. 1 \in 1..Len(s) /\ u # <<>>
      BY <1>1
    <2> QED BY <1>0, <1>2, <2>1 DEF Starts
  <1> QED BY <1>3, <1>4, <1>5, <1>6 DEF Lined

\* What is left of a stream behind the end of a message.
LEMMA CutStream ==
  ASSUME NEW M, NEW F, NEW s, Orderly(s, M, F), NEW k \in 0..Len(s), EndsAt(s, k, F)
  PROVE  /\ Orderly(Drop(s, k), M, F) /\ Len(Drop(s, k)) = Len(s) - k
         /\ \A j \in 1..Len(Drop(s, k)) :
              /\ j + k \in 1..Len(s) /\ Drop(s, k)[j] = s[j + k]
              /\ \A i \in 1..k : s[i].msg.id < Drop(s, k)[j].msg.id
  <1> DEFINE t == Drop(s, k)
  <1> USE DEF Orderly
  <1>1. t \in Seq(Cells(M)) /\ Len(t) = Len(s) - k /\ \A i \in 1..Len(s) - k : t[i] = s[i + k]
    BY DropFacts
  <1>2. Lined(t, F)
    BY DropLined
  <1> HIDE DEF t
  <1>0. Len(s) \in Nat /\ k \in Nat /\ k <= Len(s)
    OBVIOUS
  <1>3. Starts(t)
    <2> SUFFICES ASSUME t # <<>> PROVE t[1].at = 1
      BY DEF Starts
    <2>1. 1 \in 1..Len(s) - k /\ t[1] = s[1 + k] /\ s # <<>>
      BY <1>0, <1>1
    <2>2. CASE k = 0
      BY <2>1, <2>2 DEF Starts
    <2>3. CASE k # 0
      <3>1. k \in 1..Len(s) - 1 /\ 1 + k = k + 1
        BY <1>0, <2>1, <2>3
      <3> QED BY <2>1, <3>1, BehindAnEnd
    <2> QED BY <2>2, <2>3
  <1>4. Closed(t, F)
    <2> SUFFICES ASSUME Len(t) > 0, t[Len(t)].msg \in F PROVE t[Len(t)].at = t[Len(t)].msg.size
      BY DEF Closed
    <2>1. t[Len(t)] = s[Len(s)] /\ Len(s) > 0
      <3>1. Len(t) \in 1..Len(s) - k /\ Len(t) + k = Len(s)
        BY <1>0, <1>1
      <3> QED BY <1>0, <1>1, <3>1
    <2> QED BY <2>1 DEF Closed
  <1>5. ASSUME NEW j \in 1..Len(t)
        PROVE  /\ j + k \in 1..Len(s) /\ t[j] = s[j + k]
               /\ \A i \in 1..k : s[i].msg.id < t[j].msg.id
    <2>1. j \in 1..Len(s) - k /\ j + k \in 1..Len(s) /\ j + k \in k + 1..Len(s)
      BY <1>0, <1>1
    <2>2. t[j] = s[j + k]
      BY <1>1, <2>1
    <2>3. ASSUME NEW i \in 1..k PROVE s[i].msg.id < t[j].msg.id
      <3>1. k \in 1..Len(s) - 1
        BY <1>0, <2>1
      <3> QED BY <2>1, <2>2, <3>1, BehindAnEnd
    <2> QED BY <2>1, <2>2, <2>3
  <1> QED BY <1>1, <1>2, <1>3, <1>4, <1>5 DEF t

=============================================================================
