------------------------------ MODULE FiniteSums -----------------------------
(***************************************************************************)
(* What proofs about sums over finite sets and over sequences of numbers   *)
(* need: the folds of the community modules are recursive functions on the *)
(* subsets of a set, and their values follow by an induction over these,   *)
(* which is stated for a set of subsets, so that it needs no operator as a *)
(* parameter.                                                              *)
(***************************************************************************)
EXTENDS Integers, Sequences, FiniteSets, FiniteSetsExt, SequencesExt, SequenceTheorems,
  FiniteSetTheorems, WellFoundedInduction, TLAPS

\* Induction over the subsets of a finite set, as a fact about a set of subsets.
LEMMA SubsetInduction ==
  ASSUME NEW S, IsFiniteSet(S), NEW T, {} \in T,
         \A s \in SUBSET S : s # {} /\ (\A x \in s : s \ {x} \in T) => s \in T
  PROVE  \A s \in SUBSET S : s \in T
<1> DEFINE bad == {s \in SUBSET S : s \notin T}
<1>1. SUFFICES ASSUME bad # {} PROVE FALSE
  OBVIOUS
<1>2. FiniteSubsetsOf(S) = SUBSET S
  BY FS_FiniteSubsetsOfFinite
<1>3. IsWellFoundedOn(StrictSubsetOrdering(S), SUBSET S)
  BY <1>2, FS_StrictSubsetOrderingWellFounded
<1>4. PICK s \in bad : \A t \in bad : ~(<<t, s>> \in StrictSubsetOrdering(S))
  <2>1. bad \subseteq SUBSET S
    OBVIOUS
  <2> HIDE DEF bad
  <2> QED
    BY <1>1, <1>3, <2>1, WFMin
<1>5. \A x \in s : s \ {x} \in T
  <2> SUFFICES ASSUME NEW x \in s PROVE s \ {x} \in T
    OBVIOUS
  <2>1. <<s \ {x}, s>> \in StrictSubsetOrdering(S)
    BY <1>4 DEF StrictSubsetOrdering
  <2> QED
    BY <1>4, <2>1
<1> QED
  BY <1>4, <1>5

\* The definition behind MapThenSumSet: iter[s] is the sum of f over s.
Sums(f, S) ==
  CHOOSE iter : iter = [s \in SUBSET S |->
    IF s = {} THEN 0 ELSE f[CHOOSE x \in s : TRUE] + iter[s \ {CHOOSE x \in s : TRUE}]]

LEMMA SumsDef ==
  ASSUME NEW f, NEW S
  PROVE  MapThenSumSet(LAMBDA x : f[x], S) = Sums(f, S)[S]
BY DEF MapThenSumSet, MapThenFoldSet, Sums

Pick(s) == CHOOSE x \in s : TRUE

SumsOver(f, S, iter) ==
  iter = [s \in SUBSET S |-> IF s = {} THEN 0 ELSE f[Pick(s)] + iter[s \ {Pick(s)}]]

\* The recursion has a solution: below each set the partial sums agree, and
\* together they make one for the set.
LEMMA SumsExist ==
  ASSUME NEW S, IsFiniteSet(S), NEW f
  PROVE  SumsOver(f, S, Sums(f, S))
<1> DEFINE Good(s, g) ==
      \A t \in SUBSET s : g[t] = IF t = {} THEN 0 ELSE f[Pick(t)] + g[t \ {Pick(t)}]
<1> DEFINE T == {s \in SUBSET S : \E g : Good(s, g)}
<1>0. \A t : t # {} => Pick(t) \in t
  BY DEF Pick
<1>1. {} \in T
  <2>1. Good({}, [t \in {{}} |-> 0])
    OBVIOUS
  <2> QED
    BY <2>1
\* Two partial sums agree where both are defined.
<1>2. ASSUME NEW u \in SUBSET S, NEW v \in SUBSET S, NEW g, NEW h, Good(u, g), Good(v, h)
      PROVE  \A t \in SUBSET (u \cap v) : g[t] = h[t]
  <2> DEFINE same == {t \in SUBSET S : t \subseteq u \cap v => g[t] = h[t]}
  <2>1. {} \in same
    BY <1>2
  <2>2. ASSUME NEW t \in SUBSET S, t # {}, \A x \in t : t \ {x} \in same
        PROVE  t \in same
    <3> SUFFICES ASSUME t \subseteq u \cap v PROVE g[t] = h[t]
      OBVIOUS
    <3>1. g[t] = f[Pick(t)] + g[t \ {Pick(t)}]
      BY <1>2, <2>2
    <3>2. h[t] = f[Pick(t)] + h[t \ {Pick(t)}]
      BY <1>2, <2>2
    <3>3. Pick(t) \in t
      BY <1>0, <2>2
    <3>4. t \ {Pick(t)} \in same
      BY <2>2, <3>3
    <3>5. g[t \ {Pick(t)}] = h[t \ {Pick(t)}]
      BY <3>4
    <3> QED
      BY <3>1, <3>2, <3>5
  <2> HIDE DEF same
  <2>3. \A t \in SUBSET S : t \in same
    BY <2>1, <2>2, SubsetInduction
  <2> QED
    BY <2>3 DEF same
<1>3. ASSUME NEW s \in SUBSET S, s # {}, \A x \in s : s \ {x} \in T
      PROVE  s \in T
  \* The sum of each proper part, by one of the partial sums that have it.
  <2> DEFINE part(t) == CHOOSE n : \E x \in s : \E g :
                          x \notin t /\ Good(s \ {x}, g) /\ n = g[t]
  <2>1. ASSUME NEW x \in s, NEW g, Good(s \ {x}, g), NEW t \in SUBSET (s \ {x})
        PROVE  part(t) = g[t]
    <3>1. \E n : \E y \in s : \E h : y \notin t /\ Good(s \ {y}, h) /\ n = h[t]
      BY <2>1
    <3> DEFINE n == part(t)
    <3>2. \E y \in s : \E h : y \notin t /\ Good(s \ {y}, h) /\ n = h[t]
      <4> HIDE DEF Good
      <4> QED
        BY <3>1
    <3>3. PICK y \in s : \E h : y \notin t /\ Good(s \ {y}, h) /\ n = h[t]
      BY <3>2
    <3>4. PICK h : y \notin t /\ Good(s \ {y}, h) /\ n = h[t]
      BY <3>3
    <3>5. t \in SUBSET ((s \ {x}) \cap (s \ {y}))
      BY <2>1, <3>4
    <3>6. g[t] = h[t]
      <4>1. s \ {x} \in SUBSET S /\ s \ {y} \in SUBSET S
        OBVIOUS
      <4>2. Good(s \ {x}, g) /\ Good(s \ {y}, h)
        BY <2>1, <3>4
      <4> HIDE DEF Good
      <4>3. \A r \in SUBSET ((s \ {x}) \cap (s \ {y})) : g[r] = h[r]
        BY <1>2, <4>1, <4>2
      <4> QED
        BY <3>5, <4>3
    <3> QED
      BY <3>4, <3>6
  <2> DEFINE whole == [t \in SUBSET s |-> IF t = s THEN f[Pick(s)] + part(s \ {Pick(s)})
                                          ELSE part(t)]
  <2>2. ASSUME NEW t \in SUBSET s
        PROVE  whole[t] = IF t = {} THEN 0 ELSE f[Pick(t)] + whole[t \ {Pick(t)}]
    <3>1. CASE t = s
      <4>1. Pick(t) \in t
        BY <1>0, <1>3, <3>1
      <4>2. t # {}
        BY <1>3, <3>1
      <4>3. t \ {Pick(t)} \in SUBSET s /\ t \ {Pick(t)} # s
        BY <3>1, <4>1
      <4>4. whole[t \ {Pick(t)}] = part(t \ {Pick(t)})
        <5> HIDE DEF part
        <5> QED
          BY <4>3
      <4>5. whole[t] = f[Pick(s)] + part(s \ {Pick(s)})
        <5> HIDE DEF part
        <5> QED
          BY <3>1
      <4> HIDE DEF part, whole
      <4> QED
        BY <3>1, <4>2, <4>4, <4>5
    <3>2. CASE t # s
      <4>1. PICK x \in s : x \notin t
        BY <3>2
      <4>2. s \ {x} \in T
        BY <1>3
      <4>3. PICK g : Good(s \ {x}, g)
        BY <4>2
      <4>4. whole[t] = part(t)
        <5> HIDE DEF part
        <5> QED
          BY <3>2
      <4>5. part(t) = g[t]
        <5>1. t \in SUBSET (s \ {x})
          BY <4>1
        <5> HIDE DEF part, Good
        <5> QED
          BY <2>1, <4>3, <5>1
      <4>6. g[t] = IF t = {} THEN 0 ELSE f[Pick(t)] + g[t \ {Pick(t)}]
        BY <4>1, <4>3
      <4>7. CASE t = {}
        <5> HIDE DEF part, whole, Good
        <5> QED
          BY <4>4, <4>5, <4>6, <4>7
      <4>8. CASE t # {}
        <5> DEFINE q == t \ {Pick(t)}
        <5>1. q \in SUBSET (s \ {x}) /\ q \in SUBSET s /\ q # s
          BY <4>1
        <5>2. part(q) = g[q]
          <6> HIDE DEF part, Good, q
          <6> QED
            BY <2>1, <4>3, <5>1
        <5>3. whole[q] = part(q)
          <6> HIDE DEF part, q
          <6> QED
            BY <5>1
        <5> HIDE DEF part, whole, Good
        <5> QED
          BY <4>4, <4>5, <4>6, <4>8, <5>2, <5>3
      <4> QED
        BY <4>7, <4>8
    <3> QED
      BY <3>1, <3>2
  <2> HIDE DEF whole, part
  <2>3. Good(s, whole)
    BY <2>2
  <2> QED
    BY <2>3
<1>4. S \in T
  <2> HIDE DEF T
  <2>1. \A s \in SUBSET S : s \in T
    BY <1>1, <1>3, SubsetInduction
  <2> QED
    BY <2>1
<1>5. PICK g : Good(S, g)
  BY <1>4
<1> DEFINE iter == [t \in SUBSET S |-> g[t]]
<1>6. SumsOver(f, S, iter)
  <2>1. \A t \in SUBSET S :
          iter[t] = IF t = {} THEN 0 ELSE f[Pick(t)] + iter[t \ {Pick(t)}]
    BY <1>5
  <2>2. iter = [t \in SUBSET S |-> iter[t]]
    OBVIOUS
  <2> HIDE DEF iter
  <2>3. iter = [t \in SUBSET S |-> IF t = {} THEN 0 ELSE f[Pick(t)] + iter[t \ {Pick(t)}]]
    BY <2>1, <2>2
  <2> QED
    BY <2>3 DEF SumsOver
<1>7. Sums(f, S) = CHOOSE i : SumsOver(f, S, i)
  BY DEF Sums, SumsOver, Pick
<1> HIDE DEF iter
<1> QED
  BY <1>6, <1>7

LEMMA SumsRecur ==
  ASSUME NEW S, IsFiniteSet(S), NEW f, NEW s \in SUBSET S
  PROVE  Sums(f, S)[s] = IF s = {} THEN 0 ELSE f[Pick(s)] + Sums(f, S)[s \ {Pick(s)}]
<1> DEFINE val(i, t) == IF t = {} THEN 0 ELSE f[Pick(t)] + i[t \ {Pick(t)}]
<1>1. ASSUME NEW i, i = [t \in SUBSET S |-> val(i, t)]
      PROVE  i[s] = val(i, s)
  <2> HIDE DEF val
  <2>1. [t \in SUBSET S |-> val(i, t)][s] = val(i, s)
    OBVIOUS
  <2> QED
    BY <1>1, <2>1, Zenon
<1>2. SumsOver(f, S, Sums(f, S))
  BY SumsExist
<1> QED
  BY <1>1, <1>2 DEF SumsOver

LEMMA SumsAreNumbers ==
  ASSUME NEW S, IsFiniteSet(S), NEW f \in [S -> Nat]
  PROVE  /\ Sums(f, S)[{}] = 0
         /\ \A s \in SUBSET S : Sums(f, S)[s] \in Nat
<1> DEFINE iter == Sums(f, S)
<1> DEFINE T == {s \in SUBSET S : iter[s] \in Nat}
<1>1. \A s \in SUBSET S : iter[s] = IF s = {} THEN 0 ELSE f[Pick(s)] + iter[s \ {Pick(s)}]
  BY SumsRecur
<1>2. {} \in T
  BY <1>1
<1>3. ASSUME NEW s \in SUBSET S, s # {}, \A x \in s : s \ {x} \in T
      PROVE  s \in T
  <2>1. Pick(s) \in s
    BY <1>3 DEF Pick
  <2>2. iter[s \ {Pick(s)}] \in Nat /\ f[Pick(s)] \in Nat
    BY <1>3, <2>1
  <2>3. iter[s] = f[Pick(s)] + iter[s \ {Pick(s)}]
    BY <1>1, <1>3
  <2>4. s \in SUBSET S
    OBVIOUS
  <2> HIDE DEF iter
  <2> QED
    BY <2>2, <2>3, <2>4
<1> HIDE DEF T
<1>4. \A s \in SUBSET S : s \in T
  BY <1>2, <1>3, SubsetInduction
<1> QED
  BY <1>1, <1>4 DEF T

\* A sum may be taken apart at any element.
LEMMA SumsApart ==
  ASSUME NEW S, IsFiniteSet(S), NEW f \in [S -> Nat], NEW u \in SUBSET S, NEW y \in u
  PROVE  Sums(f, S)[u] = f[y] + Sums(f, S)[u \ {y}]
<1> DEFINE iter == Sums(f, S)
<1> DEFINE T == {s \in SUBSET S : \A x \in s : iter[s] = f[x] + iter[s \ {x}]}
<1>1. \A s \in SUBSET S : iter[s] = IF s = {} THEN 0 ELSE f[Pick(s)] + iter[s \ {Pick(s)}]
  BY SumsRecur
<1>2. \A s \in SUBSET S : iter[s] \in Nat
  BY SumsAreNumbers
<1> HIDE DEF iter
<1>3. {} \in T
  OBVIOUS
<1>4. ASSUME NEW s \in SUBSET S, s # {}, \A x \in s : s \ {x} \in T
      PROVE  s \in T
  <2> DEFINE p == Pick(s)
  <2>1. p \in s
    BY <1>4 DEF Pick
  <2>2. iter[s] = f[p] + iter[s \ {p}]
    BY <1>1, <1>4
  <2> HIDE DEF p
  <2>3. ASSUME NEW x \in s, x # p
        PROVE  iter[s] = f[x] + iter[s \ {x}]
    <3>1. iter[s \ {p}] = f[x] + iter[(s \ {p}) \ {x}]
      BY <1>4, <2>1, <2>3
    <3>2. iter[s \ {x}] = f[p] + iter[(s \ {x}) \ {p}]
      BY <1>4, <2>1, <2>3
    <3>3. (s \ {p}) \ {x} = (s \ {x}) \ {p}
      OBVIOUS
    <3>4. /\ f[x] \in Nat /\ f[p] \in Nat /\ iter[(s \ {p}) \ {x}] \in Nat
          /\ iter[s \ {p}] \in Nat /\ iter[s \ {x}] \in Nat
      BY <1>2, <2>1, <2>3
    <3> DEFINE rest == iter[(s \ {p}) \ {x}]
    <3>5. rest \in Nat
      BY <3>4
    <3>6. iter[s] = f[p] + (f[x] + rest) /\ iter[s \ {x}] = f[p] + rest
      BY <2>2, <3>1, <3>2, <3>3
    <3>7. \A a, b, n \in Nat : a + (b + n) = b + (a + n)
      OBVIOUS
    <3> HIDE DEF rest
    <3>8. f[p] + (f[x] + rest) = f[x] + (f[p] + rest)
      BY <3>4, <3>5, <3>7
    <3> QED
      BY <3>6, <3>8
  <2> QED
    BY <2>2, <2>3
<1> HIDE DEF T
<1>5. u \in T
  BY <1>3, <1>4, SubsetInduction
<1> QED
  BY <1>5 DEF T, iter

\* As many units as there are members, one of them at least for each: one each.
LEMMA SumsOfOnes ==
  ASSUME NEW S, IsFiniteSet(S), NEW f \in [S -> Nat], NEW A \in SUBSET S,
         \A x \in A : f[x] >= 1, Sums(f, S)[S] = Cardinality(A)
  PROVE  \A x \in S : f[x] = IF x \in A THEN 1 ELSE 0
<1> DEFINE iter == Sums(f, S)
<1> DEFINE T == {s \in SUBSET S : iter[s] >= Cardinality(s \cap A)}
<1>1. \A s \in SUBSET S : iter[s] \in Nat
  BY SumsAreNumbers
<1>2. \A s \in SUBSET S : \A x \in s : iter[s] = f[x] + iter[s \ {x}]
  BY SumsApart
<1>3. \A s \in SUBSET S : IsFiniteSet(s \cap A) /\ Cardinality(s \cap A) \in Nat
  BY FS_Subset, FS_CardinalityType
<1>4. \A s \in SUBSET S : \A x \in s :
        Cardinality((s \ {x}) \cap A) = IF x \in A THEN Cardinality(s \cap A) - 1
                                        ELSE Cardinality(s \cap A)
  <2> TAKE s \in SUBSET S
  <2> TAKE x \in s
  <2>1. (s \ {x}) \cap A = (s \cap A) \ {x}
    OBVIOUS
  <2>2. x \in s \cap A <=> x \in A
    OBVIOUS
  <2>3. Cardinality((s \cap A) \ {x}) = IF x \in s \cap A THEN Cardinality(s \cap A) - 1
                                         ELSE Cardinality(s \cap A)
    <3>1. IsFiniteSet(s \cap A)
      BY <1>3
    <3> QED
      BY <3>1, FS_RemoveElement
  <2> QED
    BY <2>1, <2>2, <2>3
<1>5. iter[{}] = 0
  BY SumsAreNumbers
<1> HIDE DEF iter
<1>6. {} \in T
  <2>1. {} \cap A = {}
    OBVIOUS
  <2> QED
    BY <1>5, <2>1, FS_EmptySet
<1>7. ASSUME NEW s \in SUBSET S, s # {}, \A x \in s : s \ {x} \in T
      PROVE  s \in T
  <2>1. PICK x \in s : TRUE
    BY <1>7
  <2>2. iter[s \ {x}] >= Cardinality((s \ {x}) \cap A)
    BY <1>7, <2>1
  <2>3. f[x] \in Nat /\ (x \in A => f[x] >= 1)
    BY <2>1
  <2>4. iter[s] >= Cardinality(s \cap A)
    <3>1. iter[s] = f[x] + iter[s \ {x}] /\ iter[s \ {x}] \in Nat /\ Cardinality(s \cap A) \in Nat
      BY <1>1, <1>2, <1>3, <2>1
    <3>2. Cardinality((s \ {x}) \cap A) = IF x \in A THEN Cardinality(s \cap A) - 1
                                          ELSE Cardinality(s \cap A)
      BY <1>4, <2>1
    <3> QED
      BY <2>2, <2>3, <3>1, <3>2
  <2> QED
    BY <2>4
<1> HIDE DEF T
<1>8. \A s \in SUBSET S : s \in T
  BY <1>6, <1>7, SubsetInduction
<1>9. ASSUME NEW x \in S
      PROVE  f[x] = IF x \in A THEN 1 ELSE 0
  <2>1. iter[S \ {x}] >= Cardinality((S \ {x}) \cap A)
    BY <1>8 DEF T
  <2>2. iter[S] = f[x] + iter[S \ {x}] /\ iter[S \ {x}] \in Nat /\ Cardinality(S \cap A) \in Nat
    BY <1>1, <1>2, <1>3
  <2>3. Cardinality((S \ {x}) \cap A) = IF x \in A THEN Cardinality(S \cap A) - 1
                                        ELSE Cardinality(S \cap A)
    BY <1>4
  <2>4. S \cap A = A /\ iter[S] = Cardinality(A)
    BY DEF iter
  <2>5. f[x] \in Nat /\ (x \in A => f[x] >= 1)
    OBVIOUS
  <2> QED
    BY <2>1, <2>2, <2>3, <2>4, <2>5
<1> QED
  BY <1>9

\* Images of finite sets.
LEMMA ImageIsFinite ==
  ASSUME NEW S, IsFiniteSet(S), NEW T, NEW g \in [S -> T], \A t \in T : \E x \in S : g[x] = t
  PROVE  /\ IsFiniteSet(T)
         /\ (\A x, y \in S : g[x] = g[y] => x = y) => Cardinality(T) = Cardinality(S)
<1>1. g \in Surjection(S, T)
  BY DEF Surjection
<1>2. IsFiniteSet(T) /\ (Cardinality(T) = Cardinality(S) <=> g \in Injection(S, T))
  BY <1>1, FS_Surjection
<1>3. (\A x, y \in S : g[x] = g[y] => x = y) => g \in Injection(S, T)
  BY DEF Injection, IsInjective
<1> QED
  BY <1>2, <1>3

\* A set with one member.
LEMMA OneMember ==
  ASSUME NEW S, IsFiniteSet(S), Cardinality(S) = 1
  PROVE  \E x \in S : \A y \in S : y = x
<1>1. S # {}
  BY FS_EmptySet
<1>2. PICK x \in S : TRUE
  BY <1>1
<1>3. IsFiniteSet(S \ {x}) /\ Cardinality(S \ {x}) = 0
  BY <1>2, FS_RemoveElement
<1>4. S \ {x} = {}
  BY <1>3, FS_EmptySet
<1> QED
  BY <1>2, <1>4

-----------------------------------------------------------------------------
(* Sums over a sequence of numbers, as FoldSeq(+, 0, s) makes them.         *)

\* The definition behind FoldSeq(+, 0, s).
Summed(s) == Sums(s, DOMAIN s)[DOMAIN s]

LEMMA FoldSeqSums ==
  ASSUME NEW s
  PROVE  FoldSeq(+, 0, s) = Summed(s)
BY DEF FoldSeq, FoldFunction, FoldFunctionOnSet, MapThenFoldSet, Summed, Sums

LEMMA IntervalIsFinite ==
  ASSUME NEW a \in Int, NEW b \in Int
  PROVE  IsFiniteSet(a..b)
BY FS_Interval

LEMMA SummedIsANumber ==
  ASSUME NEW s \in Seq(Nat)
  PROVE  Summed(s) \in Nat
<1>1. DOMAIN s = 1..Len(s) /\ Len(s) \in Nat /\ s \in [DOMAIN s -> Nat]
  OBVIOUS
<1>2. IsFiniteSet(DOMAIN s)
  BY <1>1, IntervalIsFinite
<1> QED
  BY <1>1, <1>2, SumsAreNumbers DEF Summed

LEMMA SummedOfNone == Summed(<<>>) = 0
<1>1. DOMAIN <<>> = {}
  OBVIOUS
<1>2. IsFiniteSet({}) /\ <<>> \in [{} -> Nat]
  BY FS_EmptySet
<1> QED
  BY <1>1, <1>2, SumsAreNumbers DEF Summed

\* The first number and the others: what is summed over the places of the tail
\* is what is summed over the same places, one further, of the sequence.
LEMMA SummedFromTheHead ==
  ASSUME NEW s \in Seq(Nat), s # <<>>
  PROVE  Summed(s) = Head(s) + Summed(Tail(s))
<1> DEFINE n == Len(s)
           S == 1..n
           R == 1..(n - 1)
           r == Tail(s)
           Next1(u) == {i \in S : i - 1 \in u}
           T == {u \in SUBSET R : Sums(r, R)[u] = Sums(s, S)[Next1(u)]}
<1>1. n \in Nat \ {0} /\ DOMAIN s = S /\ s \in [S -> Nat]
  OBVIOUS
<1>2. DOMAIN r = R /\ r \in [R -> Nat] /\ \A i \in R : r[i] = s[i + 1]
  <2>1. r \in Seq(Nat) /\ Len(r) = n - 1 /\ \A i \in 1..Len(r) : r[i] = s[i + 1]
    BY <1>1, HeadTailProperties
  <2> HIDE DEF r
  <2>2. DOMAIN r = 1..Len(r) /\ r \in [1..Len(r) -> Nat]
    BY <2>1
  <2> QED
    BY <2>1, <2>2
<1>3. IsFiniteSet(S) /\ IsFiniteSet(R)
  BY <1>1, IntervalIsFinite
<1>4. \A u \in SUBSET R : \A y \in u : Sums(r, R)[u] = r[y] + Sums(r, R)[u \ {y}]
  BY <1>2, <1>3, SumsApart
<1>5. \A u \in SUBSET S : \A y \in u : Sums(s, S)[u] = s[y] + Sums(s, S)[u \ {y}]
  BY <1>1, <1>3, SumsApart
<1>6. Sums(r, R)[{}] = 0 /\ Sums(s, S)[{}] = 0
  BY <1>1, <1>2, <1>3, SumsAreNumbers
<1>7. \A u \in SUBSET R : Next1(u) \in SUBSET S
  OBVIOUS
<1>8. \A u \in SUBSET R : \A y \in u :
        y + 1 \in Next1(u) /\ Next1(u \ {y}) = Next1(u) \ {y + 1}
  <2> TAKE u \in SUBSET R
  <2> TAKE y \in u
  <2>1. y \in R /\ y + 1 \in S /\ (y + 1) - 1 = y
    BY <1>1
  <2>2. \A i \in S : i - 1 = y <=> i = y + 1
    BY <1>1, <2>1
  <2> HIDE DEF R, S
  <2> QED
    BY <2>1, <2>2
<1>9. Next1({}) = {} /\ Next1(R) = S \ {1}
  <2>1. \A i \in S : i - 1 \in R <=> i # 1
    BY <1>1
  <2> HIDE DEF R, S
  <2> QED
    BY <2>1
<1> HIDE DEF S, R, r, Next1
<1>10. {} \in T
  BY <1>6, <1>9
<1>11. ASSUME NEW u \in SUBSET R, u # {}, \A y \in u : u \ {y} \in T
       PROVE  u \in T
  <2>1. PICK y \in u : TRUE
    BY <1>11
  <2>2. Sums(r, R)[u \ {y}] = Sums(s, S)[Next1(u \ {y})]
    BY <1>11, <2>1
  <2>3. Sums(r, R)[u] = r[y] + Sums(r, R)[u \ {y}]
    BY <1>4, <2>1
  <2>4. Sums(s, S)[Next1(u)] = s[y + 1] + Sums(s, S)[Next1(u) \ {y + 1}]
    BY <1>5, <1>7, <1>8, <2>1
  <2>5. Next1(u \ {y}) = Next1(u) \ {y + 1} /\ r[y] = s[y + 1]
    BY <1>2, <1>8, <2>1
  <2> QED
    BY <2>2, <2>3, <2>4, <2>5
<1> HIDE DEF T
<1>12. R \in T
  BY <1>3, <1>10, <1>11, SubsetInduction
<1>13. 1 \in S /\ Head(s) = s[1]
  BY <1>1 DEF S
<1>14. Sums(s, S)[S] = s[1] + Sums(s, S)[S \ {1}]
  BY <1>5, <1>13
<1>15. Sums(r, R)[R] = Sums(s, S)[S \ {1}]
  BY <1>9, <1>12 DEF T
<1> QED
  BY <1>1, <1>2, <1>13, <1>14, <1>15 DEF Summed, r

\* A set of natural numbers has a least one.
LEMMA LeastNumber ==
  ASSUME NEW S, S \subseteq Nat, S # {}
  PROVE  \E m \in S : \A n \in S : m <= n
<1> DEFINE less == OpToRel(<, Nat)
<1>1. IsWellFoundedOn(less, Nat)
  BY NatLessThanWellFounded
<1>2. \A n, m \in Nat : <<n, m>> \in less <=> n < m
  BY DEF OpToRel
<1> HIDE DEF less
<1>3. PICK m \in S : \A n \in S : ~(<<n, m>> \in less)
  BY <1>1, WFMin
<1>4. \A n \in S : ~(n < m)
  BY <1>2, <1>3
<1> QED
  BY <1>4

\* Induction over the natural numbers, as a fact about a set of them.
LEMMA NaturalInduction ==
  ASSUME NEW T, 0 \in T, \A n \in Nat : n \in T => n + 1 \in T
  PROVE  \A n \in Nat : n \in T
<1> DEFINE bad == {n \in Nat : n \notin T}
<1>1. SUFFICES ASSUME bad # {} PROVE FALSE
  OBVIOUS
<1>2. PICK m \in bad : \A n \in bad : m <= n
  <2>1. bad \subseteq Nat
    OBVIOUS
  <2> HIDE DEF bad
  <2> QED
    BY <1>1, <2>1, LeastNumber
<1>3. m # 0 /\ m \in Nat /\ m \notin T
  BY <1>2
<1>4. m - 1 \in Nat /\ m - 1 \notin bad
  BY <1>2, <1>3
<1> QED
  BY <1>3, <1>4

\* Min is the least number of a set.
LEMMA MinIsLeast ==
  ASSUME NEW S, S \subseteq Nat, S # {}
  PROVE  Min(S) \in S /\ \A n \in S : Min(S) <= n
<1>1. \E m \in S : \A n \in S : m <= n
  BY LeastNumber
<1> QED
  BY <1>1 DEF Min

\* A sum over a part does not depend on what it is a part of.
LEMMA SumsWithin ==
  ASSUME NEW S, IsFiniteSet(S), NEW f \in [S -> Nat], NEW R \in SUBSET S
  PROVE  Sums(f, R)[R] = Sums(f, S)[R]
<1> DEFINE T == {u \in SUBSET R : Sums(f, R)[u] = Sums(f, S)[u]}
<1>1. IsFiniteSet(R)
  BY FS_Subset
<1>2. \A u \in SUBSET R :
        Sums(f, R)[u] = IF u = {} THEN 0 ELSE f[Pick(u)] + Sums(f, R)[u \ {Pick(u)}]
  BY <1>1, SumsRecur
<1>3. \A u \in SUBSET S :
        Sums(f, S)[u] = IF u = {} THEN 0 ELSE f[Pick(u)] + Sums(f, S)[u \ {Pick(u)}]
  BY SumsRecur
<1>4. {} \in T
  BY <1>2, <1>3
<1>5. ASSUME NEW u \in SUBSET R, u # {}, \A x \in u : u \ {x} \in T
      PROVE  u \in T
  <2>1. Pick(u) \in u
    BY <1>5 DEF Pick
  <2>2. Sums(f, R)[u \ {Pick(u)}] = Sums(f, S)[u \ {Pick(u)}]
    BY <1>5, <2>1
  <2>3. u \in SUBSET S
    OBVIOUS
  <2>4. Sums(f, R)[u] = Sums(f, S)[u]
    BY <1>2, <1>3, <1>5, <2>2, <2>3
  <2> QED
    BY <2>4
<1> HIDE DEF T
<1>6. R \in T
  BY <1>1, <1>4, <1>5, SubsetInduction
<1> QED
  BY <1>6 DEF T

\* A larger subset has more members.
LEMMA ProperSubsets ==
  ASSUME NEW T, IsFiniteSet(T), NEW S, S \subseteq T, NEW x \in T, x \notin S
  PROVE  Cardinality(S) < Cardinality(T) /\ Cardinality(S) \in Nat /\ Cardinality(T) \in Nat
<1>1. IsFiniteSet(S) /\ Cardinality(S) <= Cardinality(T)
        /\ (Cardinality(S) = Cardinality(T) => S = T)
  BY FS_Subset
<1>2. Cardinality(S) \in Nat /\ Cardinality(T) \in Nat
  BY <1>1, FS_CardinalityType
<1> QED
  BY <1>1, <1>2

\* 1..n has n members.
LEMMA CountOfInterval ==
  ASSUME NEW n \in Nat
  PROVE  IsFiniteSet(1..n) /\ Cardinality(1..n) = n
<1>1. IsFiniteSet(1..n) /\ Cardinality(1..n) = IF 1 > n THEN 0 ELSE n - 1 + 1
  BY FS_Interval
<1> QED
  BY <1>1

=============================================================================
