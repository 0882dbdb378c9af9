-------------------------- MODULE SelectionProofs --------------------------
(***************************************************************************)
(* What Selection returns, for every sequence and every set of places.     *)
(*                                                                         *)
(* The definition is recursive, and the proofs are inductions over the     *)
(* length of a prefix, each by its smallest counterexample.                *)
(***************************************************************************)
EXTENDS Selection, Integers, FiniteSets, FiniteSetTheorems, FunctionTheorems,
        SequenceTheorems, WellFoundedInduction, TLAPS

\* A set of natural numbers that is not empty has a smallest element.
LEMMA SmallestOf ==
  ASSUME NEW T \in SUBSET Nat, T # {}
  PROVE  \E m \in T : \A k \in T : m <= k
<1>1. PICK m \in T : \A k \in T : ~(<<k, m>> \in OpToRel(<, Nat))
  BY WFMin, NatLessThanWellFounded, Zenon
<1>2. \A k \in T : <<k, m>> \in OpToRel(<, Nat) <=> k < m
  <2> SUFFICES ASSUME NEW k \in T
               PROVE  <<k, m>> \in OpToRel(<, Nat) <=> k < m
    OBVIOUS
  <2>1. <<k, m>> \in Nat \X Nat
    OBVIOUS
  <2> QED
    BY <2>1, Zenon DEF OpToRel
<1>3. \A k \in T : ~(k < m)
  BY <1>1, <1>2, Zenon
<1> QED
  BY <1>3

\* What holds of 0, and of n + 1 if it holds of n, holds up to any bound; the
\* property is given as a set.
LEMMA Upwards ==
  ASSUME NEW bound \in Nat, NEW T, 0 \in T,
         \A n \in 0..bound : n \in T /\ n < bound => n + 1 \in T
  PROVE  0..bound \subseteq T
<1> DEFINE B == {n \in 0..bound : n \notin T}
<1> SUFFICES ASSUME B # {} PROVE FALSE
  OBVIOUS
<1>0. B \in SUBSET Nat
  OBVIOUS
<1>1. PICK m \in B : \A k \in B : m <= k
  <2> HIDE DEF B
  <2> QED
    BY <1>0, SmallestOf
<1>2. m # 0 /\ m - 1 \in 0..bound /\ m - 1 < bound
  OBVIOUS
<1>3. m - 1 \in T
  BY <1>1, <1>2
<1>4. (m - 1) + 1 \in T
  BY <1>2, <1>3
<1> QED
  BY <1>4

----------------------------------------------------------------------------
(* The recursive function exists.                                          *)

\* One more step of the recursion.
Longer(f, s, places, n) ==
  IF n = 0 THEN <<>>
  ELSE IF n \in places THEN Append(f[n - 1], s[n])
  ELSE f[n - 1]

IsPrefixes(f, s, places, length) == f = [n \in 0..length |-> Longer(f, s, places, n)]

LEMMA PrefixesExist ==
  ASSUME NEW s, NEW places, NEW length \in Nat
  PROVE  \E f : IsPrefixes(f, s, places, length)
<1> DEFINE T == {n \in 0..length : \E f : IsPrefixes(f, s, places, n)}
<1>1. 0 \in T
  <2> DEFINE g == [n \in 0..0 |-> <<>>]
  <2>1. g = [n \in 0..0 |-> Longer(g, s, places, n)]
    BY DEF Longer
  <2>2. IsPrefixes(g, s, places, 0)
    BY <2>1, Zenon DEF IsPrefixes
  <2>3. \E f : IsPrefixes(f, s, places, 0)
    BY <2>2, Zenon
  <2> QED
    BY <2>3
<1>2. ASSUME NEW m \in 0..length, m \in T, m < length
      PROVE  m + 1 \in T
  <2>1. PICK f : IsPrefixes(f, s, places, m)
    BY <1>2
  <2> DEFINE g == [n \in 0..m + 1 |-> IF n = m + 1 THEN Longer(f, s, places, m + 1) ELSE f[n]]
  <2>2. ASSUME NEW n \in 0..m + 1
        PROVE  g[n] = Longer(g, s, places, n)
    <3>1. n # 0 => g[n - 1] = f[n - 1]
      OBVIOUS
    <3>2. Longer(g, s, places, n) = Longer(f, s, places, n)
      BY <3>1 DEF Longer
    <3>3. n # m + 1 => f[n] = Longer(f, s, places, n)
      BY <2>1 DEF IsPrefixes
    <3> QED
      BY <3>2, <3>3
  <2>3. g = [n \in 0..m + 1 |-> Longer(g, s, places, n)]
    BY <2>2
  <2>4. IsPrefixes(g, s, places, m + 1)
    BY <2>3 DEF IsPrefixes
  <2> QED
    BY <1>2, <2>4
<1>3. 0..length \subseteq T
  <2> HIDE DEF T
  <2> QED
    BY <1>1, <1>2, Upwards
<1> QED
  BY <1>3

\* Selection is the last of the prefixes.
LEMMA SelectionIs ==
  ASSUME NEW S, NEW s \in Seq(S), NEW places
  PROVE  \E f : IsPrefixes(f, s, places, Len(s)) /\ Selection(s, places) = f[Len(s)]
<1> DEFINE f == CHOOSE f : f = [n \in 0..Len(s) |->
                   IF n = 0 THEN <<>>
                   ELSE IF n \in places THEN Append(f[n - 1], s[n])
                   ELSE f[n - 1]]
<1>1. Selection(s, places) = f[Len(s)]
  BY DEF Selection
<1>2. \E g : g = [n \in 0..Len(s) |->
                   IF n = 0 THEN <<>>
                   ELSE IF n \in places THEN Append(g[n - 1], s[n])
                   ELSE g[n - 1]]
  <2>1. Len(s) \in Nat
    OBVIOUS
  <2>2. \E g : IsPrefixes(g, s, places, Len(s))
    BY <2>1, PrefixesExist, Zenon
  <2> QED
    BY <2>2, Zenon DEF IsPrefixes, Longer
<1>3. f = [n \in 0..Len(s) |->
                   IF n = 0 THEN <<>>
                   ELSE IF n \in places THEN Append(f[n - 1], s[n])
                   ELSE f[n - 1]]
  BY <1>2, Zenon
<1> HIDE DEF f
<1>4. IsPrefixes(f, s, places, Len(s))
  BY <1>3 DEF IsPrefixes, Longer
<1> QED
  BY <1>1, <1>4
----------------------------------------------------------------------------
(* Where the elements come from.                                           *)

\* at[i] is the place of the i-th element of t in s.
Places(s, places, t, at) ==
  /\ at \in [1..Len(t) -> places]
  /\ \A i, j \in 1..Len(t) : i < j => at[i] < at[j]
  /\ \A i \in 1..Len(t) : t[i] = s[at[i]]
  /\ \A p \in places : \E i \in 1..Len(t) : at[i] = p

\* A place more, at the end.
LEMMA PlacesAppend ==
  ASSUME NEW S, NEW s \in Seq(S), NEW n \in Nat, n < Len(s),
         NEW places \in SUBSET (1..n), NEW t \in Seq(S), NEW at, Places(s, places, t, at)
  PROVE  \E to : Places(s, places \cup {n + 1}, Append(t, s[n + 1]), to)
<1> DEFINE u == Append(t, s[n + 1])
           to == [i \in 1..Len(u) |-> IF i = Len(u) THEN n + 1 ELSE at[i]]
<1>1. Len(t) \in Nat /\ Len(u) = Len(t) + 1 /\ u[Len(u)] = s[n + 1]
      /\ \A i \in 1..Len(t) : u[i] = t[i]
  OBVIOUS
<1>2. \A i \in 1..Len(t) : at[i] \in places /\ at[i] \in 1..n /\ to[i] = at[i]
  <2>1. \A i \in 1..Len(t) : at[i] \in places
    BY DEF Places
  <2>2. places \subseteq 1..n
    OBVIOUS
  <2>3. \A i \in 1..Len(t) : i \in 1..Len(u) /\ i # Len(u)
    BY <1>1
  <2>4. \A i \in 1..Len(t) : to[i] = at[i]
    BY <2>3
  <2> QED
    BY <2>1, <2>2, <2>4
<1>3. to[Len(u)] = n + 1
  BY <1>1
<1>4. \A i \in 1..Len(u) : i = Len(u) \/ i \in 1..Len(t)
  BY <1>1
<1> HIDE DEF u
<1>5. to \in [1..Len(u) -> places \cup {n + 1}]
  BY <1>2, <1>4
<1> HIDE DEF to
<1>6. \A i, j \in 1..Len(u) : i < j => to[i] < to[j]
  <2> SUFFICES ASSUME NEW i \in 1..Len(u), NEW j \in 1..Len(u), i < j
               PROVE  to[i] < to[j]
    OBVIOUS
  <2>1. i \in 1..Len(t)
    BY <1>1
  <2>2. CASE j = Len(u)
    BY <1>2, <1>3, <2>1, <2>2
  <2>3. CASE j \in 1..Len(t)
    BY <1>2, <2>1, <2>3 DEF Places
  <2> QED
    BY <1>4, <2>2, <2>3
<1>7. \A i \in 1..Len(u) : u[i] = s[to[i]]
  BY <1>1, <1>2, <1>3, <1>4 DEF Places
<1>8. ASSUME NEW p \in places \cup {n + 1}
      PROVE  \E i \in 1..Len(u) : to[i] = p
  <2>1. CASE p = n + 1
    BY <1>1, <1>3, <2>1
  <2>2. CASE p \in places
    <3>1. PICK i \in 1..Len(t) : at[i] = p
      BY <2>2 DEF Places
    <3>2. i \in 1..Len(u) /\ to[i] = p
      BY <1>1, <1>2, <3>1
    <3> QED
      BY <3>2
  <2> QED
    BY <2>1, <2>2
<1>9. Places(s, places \cup {n + 1}, u, to)
  BY <1>5, <1>6, <1>7, <1>8 DEF Places
<1> QED
  BY <1>9 DEF u

\* Selection is a sequence, and its elements are those of the places, in their
\* order and no other.
THEOREM SelectionPlaces ==
  ASSUME NEW S, NEW s \in Seq(S), NEW places \in SUBSET (1..Len(s))
  PROVE  /\ Selection(s, places) \in Seq(S)
         /\ \E at : Places(s, places, Selection(s, places), at)
<1>1. PICK f : IsPrefixes(f, s, places, Len(s)) /\ Selection(s, places) = f[Len(s)]
  BY SelectionIs
<1>2. \A n \in 0..Len(s) : f[n] = Longer(f, s, places, n)
  BY <1>1 DEF IsPrefixes
<1> DEFINE Good(n) == f[n] \in Seq(S) /\ \E at : Places(s, places \cap 1..n, f[n], at)
           T == {n \in 0..Len(s) : Good(n)}
<1>3. Len(s) \in Nat
  OBVIOUS
<1>4. 0 \in T
  <2>1. f[0] = <<>>
    BY <1>2, <1>3 DEF Longer
  <2>2. Places(s, places \cap 1..0, <<>>, <<>>)
    BY DEF Places
  <2>3. \E at : Places(s, places \cap 1..0, f[0], at)
    BY <2>1, <2>2
  <2>4. f[0] \in Seq(S)
    BY <2>1
  <2>5. Good(0)
    BY <2>3, <2>4
  <2>6. 0 \in 0..Len(s)
    BY <1>3
  <2> HIDE DEF Good
  <2> QED
    BY <2>5, <2>6
<1>5. ASSUME NEW n \in 0..Len(s), n \in T, n < Len(s)
      PROVE  n + 1 \in T
  <2>1. PICK at : Places(s, places \cap 1..n, f[n], at)
    BY <1>5
  <2>2. f[n] \in Seq(S) /\ n + 1 \in 0..Len(s) /\ n \in Nat /\ n + 1 # 0 /\ (n + 1) - 1 = n
    BY <1>3, <1>5
  <2>3. CASE n + 1 \in places
    <3>1. f[n + 1] = Append(f[n], s[n + 1])
      BY <1>2, <2>2, <2>3 DEF Longer
    <3>2. places \cap 1..(n + 1) = (places \cap 1..n) \cup {n + 1}
      BY <1>3, <2>2, <2>3
    <3>3. \E to : Places(s, (places \cap 1..n) \cup {n + 1}, Append(f[n], s[n + 1]), to)
      <4>1. places \cap 1..n \in SUBSET (1..n)
        OBVIOUS
      <4> HIDE DEF T, Good
      <4> QED
        BY <1>5, <2>1, <2>2, <4>1, PlacesAppend
    <3>4. f[n + 1] \in Seq(S)
      <4>1. s[n + 1] \in S
        BY <1>3, <1>5, <2>2
      <4> QED
        BY <2>2, <3>1, <4>1
    <3> QED
      BY <2>2, <3>1, <3>2, <3>3, <3>4
  <2>4. CASE n + 1 \notin places
    <3>1. f[n + 1] = f[n]
      BY <1>2, <2>2, <2>4 DEF Longer
    <3>2. places \cap 1..(n + 1) = places \cap 1..n
      BY <1>3, <2>2, <2>4
    <3> QED
      BY <2>1, <2>2, <3>1, <3>2
  <2> QED
    BY <2>3, <2>4
<1>6. Len(s) \in T
  <2> HIDE DEF T
  <2>1. 0..Len(s) \subseteq T
    BY <1>3, <1>4, <1>5, Upwards
  <2> QED
    BY <1>3, <2>1
<1>7. places \cap 1..Len(s) = places
  OBVIOUS
<1> QED
  BY <1>1, <1>6, <1>7

LEMMA CountUpTo ==
  ASSUME NEW n \in Nat
  PROVE  IsFiniteSet(1..n) /\ Cardinality(1..n) = n
<1>1. 1 \in Int /\ n \in Int
  OBVIOUS
<1>2. IsFiniteSet(1..n) /\ Cardinality(1..n) = IF 1 > n THEN 0 ELSE n - 1 + 1
  BY <1>1, FS_Interval
<1> QED
  BY <1>2

\* It is as long as there are places.
THEOREM SelectionLength ==
  ASSUME NEW S, NEW s \in Seq(S), NEW places \in SUBSET (1..Len(s))
  PROVE  IsFiniteSet(places) /\ Len(Selection(s, places)) = Cardinality(places)
<1> DEFINE t == Selection(s, places)
<1>1. PICK at : Places(s, places, t, at)
  BY SelectionPlaces
<1>2. t \in Seq(S) /\ Len(t) \in Nat
  BY SelectionPlaces
<1> HIDE DEF t
<1>3. at \in Bijection(1..Len(t), places)
  <2>1. at \in [1..Len(t) -> places]
    BY <1>1 DEF Places
  <2>2. \A i, j \in 1..Len(t) : at[i] = at[j] => i = j
    <3> SUFFICES ASSUME NEW i \in 1..Len(t), NEW j \in 1..Len(t), i # j
                 PROVE  at[i] # at[j]
      OBVIOUS
    <3>1. i < j \/ j < i
      BY <1>2
    <3>2. at[i] \in Nat /\ at[j] \in Nat
      <4>1. at[i] \in places /\ at[j] \in places
        BY <2>1
      <4>2. places \subseteq Nat
        OBVIOUS
      <4> QED
        BY <4>1, <4>2
    <3>3. at[i] < at[j] \/ at[j] < at[i]
      BY <1>1, <3>1 DEF Places
    <3> QED
      BY <3>2, <3>3
  <2>3. \A p \in places : \E i \in 1..Len(t) : at[i] = p
    BY <1>1 DEF Places
  <2> QED
    BY <2>1, <2>2, <2>3 DEF Bijection, Injection, Surjection, IsInjective
<1>4. IsFiniteSet(1..Len(t)) /\ Cardinality(1..Len(t)) = Len(t)
  BY <1>2, CountUpTo
<1>5. IsFiniteSet(places) /\ Cardinality(places) = Cardinality(1..Len(t))
  BY <1>3, <1>4, FS_Bijection DEF ExistsBijection
<1> QED
  BY <1>4, <1>5 DEF t

\* What a condition splits, it splits without loss.
LEMMA SelectionSplit ==
  ASSUME NEW S, NEW s \in Seq(S), NEW P \in SUBSET (1..Len(s)), NEW Q \in SUBSET (1..Len(s)),
         P \cup Q = 1..Len(s), P \cap Q = {}
  PROVE  Len(Selection(s, P)) + Len(Selection(s, Q)) = Len(s)
<1>1. /\ IsFiniteSet(P) /\ Len(Selection(s, P)) = Cardinality(P)
      /\ IsFiniteSet(Q) /\ Len(Selection(s, Q)) = Cardinality(Q)
  BY SelectionLength
<1>2. Cardinality(P \cup Q) = Cardinality(P) + Cardinality(Q) - Cardinality(P \cap Q)
  BY <1>1, FS_Union
<1>3. Cardinality(P \cap Q) = 0
  BY FS_EmptySet
<1>4. Cardinality(P) \in Nat /\ Cardinality(Q) \in Nat
  BY <1>1, FS_CardinalityType
<1>5. Len(s) \in Nat
  OBVIOUS
<1>6. Cardinality(1..Len(s)) = Len(s)
  BY <1>5, CountUpTo
<1>7. Cardinality(P \cup Q) = Len(s) /\ Cardinality(P \cap Q) = 0
  BY <1>3, <1>6
<1>8. Len(s) = Cardinality(P) + Cardinality(Q)
  BY <1>2, <1>4, <1>7
<1> QED
  BY <1>1, <1>8
=============================================================================
