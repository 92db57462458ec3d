------------------------------ MODULE Counting ------------------------------
(***************************************************************************)
(* How many elements of a sequence are in a set, and induction on the      *)
(* natural numbers: the facts that the proofs about queues of frames and   *)
(* of prices, and those about what is read byte by byte, need.  Nothing    *)
(* here is of the program.                                                 *)
(***************************************************************************)
EXTENDS Integers, Sequences, FiniteSets, FiniteSetTheorems,
        WellFoundedInduction, TLAPS

\* Every set of natural numbers that is not empty has a least one: the sets
\* 0 .. m are finite, and strict inclusion of finite sets is well founded.
LEMMA LeastNumber ==
    ASSUME NEW X, X \subseteq Nat, X # {}
    PROVE  \E m \in X : \A k \in X : m <= k
<1> DEFINE T == {0 .. m : m \in X}
<1>1. T \subseteq FiniteSubsetsOf(Nat)
  <2> SUFFICES ASSUME NEW m \in X PROVE 0 .. m \in FiniteSubsetsOf(Nat)
    OBVIOUS
  <2>1. m \in Int /\ 0 \in Int
    OBVIOUS
  <2>2. IsFiniteSet(0 .. m)
    BY <2>1, FS_Interval
  <2> QED
    BY <2>2 DEF FiniteSubsetsOf
<1>2. T # {}
  OBVIOUS
<1>3. PICK t \in T : \A u \in T : ~(<<u, t>> \in StrictSubsetOrdering(Nat))
  BY <1>1, <1>2, FS_StrictSubsetOrderingWellFounded, WFMin
<1>4. PICK m \in X : t = 0 .. m
  OBVIOUS
<1>5. ASSUME NEW k \in X, k < m PROVE FALSE
  <2>1. 0 .. k \in T
    OBVIOUS
  <2>2. /\ 0 .. k \subseteq 0 .. m /\ 0 .. k # 0 .. m
        /\ 0 .. k \subseteq Nat /\ 0 .. m \subseteq Nat
    BY <1>5
  <2>3. <<0 .. k, 0 .. m>> \in StrictSubsetOrdering(Nat)
    BY <2>2 DEF StrictSubsetOrdering
  <2> QED
    BY <1>3, <1>4, <2>1, <2>3
<1> QED
  BY <1>5

\* Induction: a set of numbers that holds 0 and with each number the next one
\* holds them all.
LEMMA Induction ==
    ASSUME NEW X, 0 \in X, \A n \in Nat : n \in X => n + 1 \in X
    PROVE  Nat \subseteq X
<1>1. SUFFICES ASSUME Nat \ X # {} PROVE FALSE
  OBVIOUS
<1>2. PICK m \in Nat \ X : \A k \in Nat \ X : m <= k
  BY <1>1, LeastNumber
<1>3. m # 0 /\ m - 1 \in Nat
  BY <1>2
<1> QED
  BY <1>2, <1>3

Positions(s, S) == {i \in DOMAIN s : s[i] \in S}

CountIn(s, S) == Cardinality(Positions(s, S))

\* The positions are finitely many.
LEMMA PositionsFinite ==
    ASSUME NEW T, NEW s \in Seq(T), NEW S
    PROVE  /\ IsFiniteSet(Positions(s, S))
           /\ CountIn(s, S) \in Nat
<1>1. DOMAIN s = 1 .. Len(s) /\ Len(s) \in Nat
  OBVIOUS
<1>2. IsFiniteSet(1 .. Len(s))
  BY <1>1, FS_Interval
<1>3. Positions(s, S) \in SUBSET (1 .. Len(s))
  BY <1>1 DEF Positions
<1>4. IsFiniteSet(Positions(s, S))
  BY <1>2, <1>3, FS_Subset
<1> QED
  BY <1>4, FS_CardinalityType DEF CountIn

\* None of them is in the set, or one is.
LEMMA CountZero ==
    ASSUME NEW T, NEW s \in Seq(T), NEW S
    PROVE  /\ CountIn(s, S) = 0 <=> \A i \in DOMAIN s : s[i] \notin S
           /\ CountIn(s, S) > 0 <=> \E i \in DOMAIN s : s[i] \in S
<1>1. CountIn(s, S) = 0 <=> Positions(s, S) = {}
  BY PositionsFinite, FS_EmptySet DEF CountIn
<1>2. CountIn(s, S) \in Nat
  BY PositionsFinite
<1>3. Positions(s, S) = {} <=> \A i \in DOMAIN s : s[i] \notin S
  BY DEF Positions
<1> QED
  BY <1>1, <1>2, <1>3

\* The empty sequence.
LEMMA CountEmpty == \A S : CountIn(<<>>, S) = 0
<1>1. \A S : Positions(<<>>, S) = {}
  BY DEF Positions
<1> QED
  BY <1>1, FS_EmptySet DEF CountIn

\* One element more at the end.
LEMMA CountAppend ==
    ASSUME NEW T, NEW s \in Seq(T), NEW S, NEW x \in T
    PROVE  CountIn(Append(s, x), S) = CountIn(s, S) + (IF x \in S THEN 1 ELSE 0)
<1> DEFINE n == Len(s) + 1
           a == Append(s, x)
<1>1. /\ a \in Seq(T) /\ Len(a) = n /\ a[n] = x
      /\ \A i \in 1 .. Len(s) : a[i] = s[i]
      /\ DOMAIN s = 1 .. Len(s) /\ DOMAIN a = 1 .. n /\ Len(s) \in Nat
  OBVIOUS
<1> HIDE DEF a
<1>2. n \notin Positions(s, S)
  BY <1>1 DEF Positions
<1>3. IsFiniteSet(Positions(s, S)) /\ CountIn(s, S) \in Nat
  BY PositionsFinite
<1>4. CASE x \in S
  <2>1. Positions(a, S) = Positions(s, S) \cup {n}
    BY <1>1, <1>4 DEF Positions
  <2> QED
    BY <1>2, <1>3, <1>4, <2>1, FS_AddElement DEF CountIn, a
<1>5. CASE x \notin S
  <2>1. Positions(a, S) = Positions(s, S)
    BY <1>1, <1>5 DEF Positions
  <2> QED
    BY <1>3, <1>5, <2>1 DEF CountIn, a
<1> QED
  BY <1>4, <1>5

\* The sequence behind another one: its positions are shifted.
LEMMA CountConcat ==
    ASSUME NEW T, NEW s \in Seq(T), NEW t \in Seq(T), NEW S
    PROVE  CountIn(s \o t, S) = CountIn(s, S) + CountIn(t, S)
<1> DEFINE n == Len(s)
           c == s \o t
           Shifted == {i \in (n + 1) .. (n + Len(t)) : t[i - n] \in S}
<1>1. /\ c \in Seq(T) /\ Len(c) = n + Len(t)
      /\ DOMAIN s = 1 .. n /\ DOMAIN t = 1 .. Len(t) /\ DOMAIN c = 1 .. (n + Len(t))
      /\ \A i \in 1 .. n : c[i] = s[i]
      /\ \A i \in (n + 1) .. (n + Len(t)) : c[i] = t[i - n]
      /\ n \in Nat /\ Len(t) \in Nat
  OBVIOUS
<1> HIDE DEF c, n
<1>2. Positions(c, S) = Positions(s, S) \cup Shifted
  BY <1>1 DEF Positions
<1>3. Positions(s, S) \cap Shifted = {}
  BY <1>1 DEF Positions
<1>4. IsFiniteSet(Positions(s, S)) /\ IsFiniteSet(Positions(t, S))
      /\ CountIn(s, S) \in Nat /\ CountIn(t, S) \in Nat
  BY PositionsFinite
<1>5. IsFiniteSet(Shifted) /\ Cardinality(Shifted) = CountIn(t, S)
  <2> DEFINE f == [i \in Positions(t, S) |-> i + n]
  <2>1. f \in [Positions(t, S) -> Shifted]
    BY <1>1 DEF Positions
  <2>2. \A i, j \in Positions(t, S) : f[i] = f[j] => i = j
    BY <1>1 DEF Positions
  <2>3. ASSUME NEW k \in Shifted PROVE \E i \in Positions(t, S) : f[i] = k
    <3>1. k - n \in Positions(t, S) /\ (k - n) + n = k
      BY <1>1, <2>3 DEF Positions
    <3> QED
      BY <3>1
  <2>4. f \in Bijection(Positions(t, S), Shifted)
    BY <2>1, <2>2, <2>3 DEF Bijection, Injection, Surjection, IsInjective
  <2>5. ExistsBijection(Positions(t, S), Shifted)
    BY <2>4 DEF ExistsBijection
  <2> QED
    BY <1>4, <2>5, FS_Bijection DEF CountIn
<1>6. Cardinality(Positions(s, S) \cup Shifted)
        = CountIn(s, S) + CountIn(t, S)
  <2> HIDE DEF Shifted
  <2>1. Cardinality(Positions(s, S) \cap Shifted) = 0
    BY <1>3, FS_EmptySet
  <2>2. Cardinality(Positions(s, S) \cup Shifted)
          = Cardinality(Positions(s, S)) + Cardinality(Shifted)
              - Cardinality(Positions(s, S) \cap Shifted)
    BY <1>4, <1>5, FS_Union
  <2>3. Cardinality(Positions(s, S)) = CountIn(s, S)
    BY DEF CountIn
  <2> QED
    BY <1>4, <1>5, <2>1, <2>2, <2>3
<1> QED
  BY <1>2, <1>6 DEF CountIn, c

\* One element less at the front.
LEMMA CountTail ==
    ASSUME NEW T, NEW s \in Seq(T), NEW S, s # <<>>
    PROVE  CountIn(s, S)
             = CountIn(Tail(s), S) + (IF Head(s) \in S THEN 1 ELSE 0)
<1> DEFINE h == <<Head(s)>>
<1>1. /\ Head(s) \in T /\ Tail(s) \in Seq(T) /\ h \in Seq(T)
      /\ s = h \o Tail(s)
  OBVIOUS
<1>2. CountIn(h, S) = IF Head(s) \in S THEN 1 ELSE 0
  <2>1. DOMAIN h = {1} /\ h[1] = Head(s)
    OBVIOUS
  <2> HIDE DEF h
  <2>2. CASE Head(s) \in S
    <3>1. Positions(h, S) = {1}
      BY <2>1, <2>2 DEF Positions
    <3> QED
      BY <2>2, <3>1, FS_Singleton DEF CountIn
  <2>3. CASE Head(s) \notin S
    <3>1. Positions(h, S) = {}
      BY <2>1, <2>3 DEF Positions
    <3> QED
      BY <2>3, <3>1, FS_EmptySet DEF CountIn
  <2> QED
    BY <2>2, <2>3
<1> HIDE DEF h
<1>3. CountIn(h \o Tail(s), S) = CountIn(h, S) + CountIn(Tail(s), S)
  BY <1>1, CountConcat
<1>4. CountIn(Tail(s), S) \in Nat
  BY <1>1, PositionsFinite
<1>5. CountIn(s, S) = CountIn(h, S) + CountIn(Tail(s), S)
  BY <1>1, <1>3
<1>6. CASE Head(s) \in S
  BY <1>2, <1>4, <1>5, <1>6
<1>7. CASE Head(s) \notin S
  BY <1>2, <1>4, <1>5, <1>7
<1> QED
  BY <1>6, <1>7

\* No more elements are in a smaller set.
LEMMA CountSubset ==
    ASSUME NEW T, NEW s \in Seq(T), NEW S, NEW R, R \subseteq S
    PROVE  CountIn(s, R) <= CountIn(s, S)
<1>1. Positions(s, R) \in SUBSET Positions(s, S)
  BY DEF Positions
<1>2. IsFiniteSet(Positions(s, S))
  BY PositionsFinite
<1> QED
  BY <1>1, <1>2, FS_Subset DEF CountIn

\* At most one position, if at most one element is in the set.
LEMMA CountUnique ==
    ASSUME NEW T, NEW s \in Seq(T), NEW S, CountIn(s, S) <= 1,
           NEW i \in DOMAIN s, NEW j \in DOMAIN s, s[i] \in S, s[j] \in S
    PROVE  i = j
<1>1. {i, j} \in SUBSET Positions(s, S)
  BY DEF Positions
<1>2. IsFiniteSet(Positions(s, S)) /\ CountIn(s, S) \in Nat
  BY PositionsFinite
<1>3. SUFFICES ASSUME i # j PROVE FALSE
  OBVIOUS
<1>4. Cardinality({i, j}) = 2
  <2>1. {i, j} = {i} \cup {j}
    OBVIOUS
  <2>2. IsFiniteSet({i}) /\ Cardinality({i}) = 1 /\ j \notin {i}
    BY <1>3, FS_Singleton
  <2>3. Cardinality({i} \cup {j}) = Cardinality({i}) + 1
    BY <2>2, FS_AddElement
  <2> QED
    BY <2>1, <2>2, <2>3
<1>5. Cardinality({i, j}) <= CountIn(s, S)
  BY <1>1, <1>2, FS_Subset DEF CountIn
<1> QED
  BY <1>2, <1>4, <1>5

=============================================================================
