------------------------------ MODULE ScopesProofs ------------------------------
(***************************************************************************)
(* Proofs about Scopes, for any set of names and any depth.  The searches  *)
(* and folds of the model are recursive functions, of which nothing is     *)
(* known until it is shown that there is a function as their definitions   *)
(* say: Recursion shows it for all of them at once.  With it the maps are  *)
(* proved to be what their users take them for, and the scopes to hold the *)
(* names that are in scope in C.                                           *)
(***************************************************************************)
EXTENDS Scopes, FiniteSetTheorems, SequenceTheorems, WellFoundedInduction, TLAPS

(* Every set of natural numbers that is not empty has a least element. *)
LEMMA LeastNatural ==
    ASSUME NEW S \in SUBSET Nat, S # {}
    PROVE  \E m \in S : \A k \in S : m <= k
<1>1. IsWellFoundedOn(OpToRel(<, Nat), Nat)
  BY NatLessThanWellFounded
<1>2. PICK m \in S : \A k \in S : ~(<<k, m>> \in OpToRel(<, Nat))
  BY <1>1, WFMin, Zenon
<1>3. \A k \in S : ~(k < m)
  BY <1>2 DEF OpToRel
<1>4. m \in Nat /\ \A k \in S : k \in Nat
  OBVIOUS
<1> HIDE <1>2
<1> QED
  BY <1>3, <1>4

(* Induction over a measure, for a set that is to hold all of D. *)
LEMMA Induction ==
    ASSUME NEW D, NEW size \in [D -> Nat], NEW Good,
           \A x \in D : (\A y \in D : size[y] < size[x] => y \in Good) => x \in Good
    PROVE  \A x \in D : x \in Good
<1> DEFINE S == {size[x] : x \in D \ Good}
<1>1. S \in SUBSET Nat
  OBVIOUS
<1> SUFFICES ASSUME S # {} PROVE FALSE
  OBVIOUS
<1>2. PICK m \in S : \A k \in S : m <= k
  BY <1>1, LeastNatural
<1>3. PICK x \in D \ Good : size[x] = m
  OBVIOUS
<1>4. ASSUME NEW y \in D, size[y] < size[x], y \notin Good
      PROVE  FALSE
  <2>1. size[y] \in S /\ size[y] \in Nat /\ m \in Nat
    BY <1>1, <1>4
  <2> HIDE DEF S
  <2> QED
    BY <2>1, <1>2, <1>3, <1>4
<1> QED
  BY <1>3, <1>4

(* That g is as the recursion says where less than n is to be gone. *)
Follows(g, D, size, n, stop, value, next, Step) ==
    \A x \in D : size[x] < n =>
        g[x] = IF x \in stop THEN value[x] ELSE Step[<<x, g[next[x]]>>]

(* What is not the end of a recursion goes on with something smaller. *)
Descends(D, V, size, stop, value, next, Step) ==
    /\ size \in [D -> Nat] /\ stop \in SUBSET D /\ value \in [D -> V] /\ next \in [D -> D]
    /\ Step \in [D \X V -> V]
    /\ \A x \in D \ stop : size[next[x]] < size[x]

LEMMA RecursionSoFar ==
    ASSUME NEW D, NEW V, NEW size, NEW stop, NEW value, NEW next, NEW Step,
           Descends(D, V, size, stop, value, next, Step)
    PROVE  \A n \in Nat : \E g \in [D -> V] : Follows(g, D, size, n, stop, value, next, Step)
<1> DEFINE Good == {n \in Nat : \E g \in [D -> V] : Follows(g, D, size, n, stop, value, next, Step)}
<1>1. value \in [D -> V] /\ Follows(value, D, size, 0, stop, value, next, Step)
  BY DEF Follows, Descends
<1>2. ASSUME NEW n \in Nat, n \in Good
      PROVE  n + 1 \in Good
  <2>1. PICK g \in [D -> V] : Follows(g, D, size, n, stop, value, next, Step)
    BY <1>2
  <2> DEFINE h == [x \in D |-> IF x \in stop THEN value[x] ELSE Step[<<x, g[next[x]]>>]]
  <2>2. h \in [D -> V]
    BY DEF Descends
  <2>3. ASSUME NEW x \in D, size[x] < n + 1
        PROVE  h[x] = IF x \in stop THEN value[x] ELSE Step[<<x, h[next[x]]>>]
    <3>1. CASE x \in stop
      BY <3>1
    <3>2. CASE x \notin stop
      <4>1. next[x] \in D /\ size[next[x]] < n
        BY <2>3, <3>2 DEF Descends
      <4>2. g[next[x]] = IF next[x] \in stop THEN value[next[x]] ELSE Step[<<next[x], g[next[next[x]]]>>]
        BY <2>1, <4>1 DEF Follows
      <4>3. h[next[x]] = g[next[x]]
        BY <4>1, <4>2
      <4> QED
        BY <3>2, <4>3
    <3> QED
      BY <3>1, <3>2
  <2>4. Follows(h, D, size, n + 1, stop, value, next, Step)
    BY <2>3 DEF Follows
  <2>5. n + 1 \in Nat
    OBVIOUS
  <2> HIDE DEF h
  <2> QED
    BY <2>2, <2>4, <2>5, Zenon
<1> DEFINE self == [n \in Nat |-> n]
<1>3. \A n \in Nat : (\A k \in Nat : self[k] < self[n] => k \in Good) => n \in Good
  <2> SUFFICES ASSUME NEW n \in Nat, \A k \in Nat : self[k] < self[n] => k \in Good
               PROVE  n \in Good
    OBVIOUS
  <2>1. CASE n = 0
    BY <1>1, <2>1
  <2>2. CASE n # 0
    <3> HIDE DEF Good
    <3>1. n - 1 \in Nat /\ n - 1 \in Good
      BY <2>2
    <3> QED
      BY <3>1, <1>2
  <2> QED
    BY <2>1, <2>2
<1>4. self \in [Nat -> Nat]
  OBVIOUS
<1> HIDE DEF self, Good
<1>5. \A n \in Nat : n \in Good
  BY <1>3, <1>4, Induction
<1> QED
  BY <1>5 DEF Good

LEMMA FollowsOnce ==
    ASSUME NEW D, NEW V, NEW size, NEW stop, NEW value, NEW next, NEW Step,
           Descends(D, V, size, stop, value, next, Step),
           NEW m \in Nat, NEW n \in Nat, NEW g, NEW h,
           Follows(g, D, size, m, stop, value, next, Step),
           Follows(h, D, size, n, stop, value, next, Step)
    PROVE  \A x \in D : size[x] < m /\ size[x] < n => g[x] = h[x]
<1> DEFINE Good == {x \in D : size[x] < m /\ size[x] < n => g[x] = h[x]}
<1>1. ASSUME NEW x \in D, \A y \in D : size[y] < size[x] => y \in Good
      PROVE  x \in Good
  <2> SUFFICES ASSUME size[x] < m, size[x] < n
               PROVE  g[x] = h[x]
    OBVIOUS
  <2>1. CASE x \in stop
    BY <2>1 DEF Follows
  <2>2. CASE x \notin stop
    <3>1. next[x] \in D /\ size[next[x]] < size[x] /\ size[next[x]] \in Nat /\ size[x] \in Nat
      BY <2>2 DEF Descends
    <3>2. g[next[x]] = h[next[x]]
      BY <3>1, <1>1
    <3> QED
      BY <3>2, <2>2 DEF Follows
  <2> QED
    BY <2>1, <2>2
<1>2. size \in [D -> Nat]
  BY DEF Descends
<1> HIDE DEF Good
<1>3. \A x \in D : x \in Good
  BY <1>1, <1>2, Induction
<1> QED
  BY <1>3 DEF Good

(* A function that is defined by recursion towards something smaller is    *)
(* there, and has the values its definition says.                          *)
LEMMA Recursion ==
    ASSUME NEW D, NEW V, NEW size, NEW stop, NEW value, NEW next, NEW Step,
           Descends(D, V, size, stop, value, next, Step)
    PROVE  \E g \in [D -> V] :
              \A x \in D : g[x] = IF x \in stop THEN value[x] ELSE Step[<<x, g[next[x]]>>]
<1> DEFINE P(n, g) == g \in [D -> V] /\ Follows(g, D, size, n, stop, value, next, Step)
           G(n) == CHOOSE g : P(n, g)
           h == [x \in D |-> G(size[x] + 1)[x]]
<1>1. \A n \in Nat : P(n, G(n))
  <2>1. \A n \in Nat : \E g : P(n, g)
    BY RecursionSoFar, Zenon
  <2> QED
    BY <2>1, Zenon
<1>2. \A x \in D : size[x] \in Nat /\ size[x] + 1 \in Nat /\ size[x] < size[x] + 1
  BY DEF Descends
<1>3. h \in [D -> V]
  <2>1. \A x \in D : G(size[x] + 1) \in [D -> V]
    BY <1>1, <1>2, Zenon
  <2> HIDE DEF G
  <2> QED
    BY <2>1
<1>4. ASSUME NEW x \in D
      PROVE  h[x] = IF x \in stop THEN value[x] ELSE Step[<<x, h[next[x]]>>]
  <2>1. Follows(G(size[x] + 1), D, size, size[x] + 1, stop, value, next, Step)
    BY <1>1, <1>2, Zenon
  <2>2. h[x] = G(size[x] + 1)[x]
    BY Zenon
  <2> HIDE DEF G, h
  <2>3. h[x] = IF x \in stop THEN value[x] ELSE Step[<<x, G(size[x] + 1)[next[x]]>>]
    BY <2>1, <2>2, <1>2 DEF Follows
  <2>4. ASSUME x \notin stop
        PROVE  h[next[x]] = G(size[x] + 1)[next[x]]
    <3>1. next[x] \in D /\ size[next[x]] < size[x] /\ size[next[x]] < size[x] + 1
      BY <2>4, <1>2 DEF Descends
    <3>2. Follows(G(size[next[x]] + 1), D, size, size[next[x]] + 1, stop, value, next, Step)
      BY <1>1, <1>2, <3>1 DEF G
    <3>3. h[next[x]] = G(size[next[x]] + 1)[next[x]]
      BY <3>1, Zenon DEF h
    <3> QED
      BY <3>1, <3>2, <3>3, <2>1, <1>2, FollowsOnce
  <2> QED
    BY <2>3, <2>4
<1> HIDE DEF h
<1> QED
  BY <1>3, <1>4, Zenon
--------------------------------------------------------------------------------
(* The entries up to n are in order. *)
Ordered(entries, n) == \A i, j \in 1..n : i < j => entries[i].key < entries[j].key

(* What is looked at in a range, and where the search goes on. *)
Middle(r) == (r[1] + r[2]) \div 2
Half(entries, key, r) ==
    IF key < entries[Middle(r) + 1].key THEN <<r[1], Middle(r)>> ELSE <<Middle(r) + 1, r[2]>>

LEMMA MiddleInRange ==
    ASSUME NEW r \in Nat \X Nat
    PROVE  /\ r[1] \in Nat /\ r[2] \in Nat /\ r = <<r[1], r[2]>>
           /\ Middle(r) \in Nat
           /\ r[1] < r[2] => r[1] <= Middle(r) /\ Middle(r) < r[2]
BY DEF Middle

(* Searches(g, ...): g is as the recursion of bsearch says. *)
Searches(g, entries, key) ==
    \A r \in Nat \X Nat :
        g[r] = IF r[1] >= r[2] THEN 0
               ELSE IF entries[Middle(r) + 1].key = key THEN Middle(r) + 1
               ELSE g[Half(entries, key, r)]

LEMMA SearchExists ==
    ASSUME NEW entries, NEW key
    PROVE  \E g \in [Nat \X Nat -> Nat] : Searches(g, entries, key)
<1> DEFINE D == Nat \X Nat
           size == [r \in D |-> IF r[1] < r[2] THEN r[2] - r[1] ELSE 0]
           stop == {r \in D : r[1] >= r[2] \/ entries[Middle(r) + 1].key = key}
           value == [r \in D |-> IF r[1] >= r[2] THEN 0 ELSE Middle(r) + 1]
           next == [r \in D |-> Half(entries, key, r)]
           Step == [p \in D \X Nat |-> p[2]]
<1>1. size \in [D -> Nat] /\ stop \in SUBSET D /\ Step \in [D \X Nat -> Nat]
  <2>1. \A r \in D : (IF r[1] < r[2] THEN r[2] - r[1] ELSE 0) \in Nat
    BY MiddleInRange
  <2> QED
    BY <2>1
<1>2. value \in [D -> Nat]
  <2>1. \A r \in D : (IF r[1] >= r[2] THEN 0 ELSE Middle(r) + 1) \in Nat
    BY MiddleInRange
  <2> QED
    BY <2>1
<1>3. \A r \in D : Half(entries, key, r) \in D
  BY MiddleInRange DEF Half
<1>4. next \in [D -> D]
  BY <1>3
<1>5. ASSUME NEW r \in D \ stop
      PROVE  size[next[r]] < size[r]
  <2>1. r \in D /\ r[1] < r[2] /\ r[1] \in Nat /\ r[2] \in Nat /\ Middle(r) \in Nat
        /\ r[1] <= Middle(r) /\ Middle(r) < r[2]
    BY MiddleInRange
  <2>2. size[r] = r[2] - r[1] /\ next[r] = Half(entries, key, r)
    BY <2>1
  <2>3. CASE Half(entries, key, r) = <<r[1], Middle(r)>>
    <3> DEFINE q == <<r[1], Middle(r)>>
    <3>1. q \in D /\ q[1] = r[1] /\ q[2] = Middle(r)
      BY <2>1
    <3> HIDE DEF q
    <3>2. size[q] = IF q[1] < q[2] THEN q[2] - q[1] ELSE 0
      BY <3>1
    <3>3. next[r] = q
      BY <2>2, <2>3 DEF q
    <3> QED
      BY <2>1, <2>2, <3>1, <3>2, <3>3
  <2>4. CASE Half(entries, key, r) = <<Middle(r) + 1, r[2]>>
    <3> DEFINE q == <<Middle(r) + 1, r[2]>>
    <3>1. q \in D /\ q[1] = Middle(r) + 1 /\ q[2] = r[2]
      BY <2>1
    <3> HIDE DEF q
    <3>2. size[q] = IF q[1] < q[2] THEN q[2] - q[1] ELSE 0
      BY <3>1
    <3>3. next[r] = q
      BY <2>2, <2>4 DEF q
    <3> QED
      BY <2>1, <2>2, <3>1, <3>2, <3>3
  <2> QED
    BY <2>3, <2>4 DEF Half
<1> DEFINE V == Nat
<1>6. Descends(D, V, size, stop, value, next, Step)
  <2> HIDE DEF size, stop, value, next, Step
  <2> QED
    BY <1>1, <1>2, <1>4, <1>5 DEF Descends
<1>7. PICK g \in [D -> V] : \A r \in D : g[r] = IF r \in stop THEN value[r] ELSE Step[<<r, g[next[r]]>>]
  <2> HIDE DEF D, V, size, stop, value, next, Step
  <2> QED
    BY <1>6, Recursion
<1>8. ASSUME NEW r \in D
      PROVE  g[r] = IF r[1] >= r[2] THEN 0
                    ELSE IF entries[Middle(r) + 1].key = key THEN Middle(r) + 1
                    ELSE g[Half(entries, key, r)]
  <2>1. Step[<<r, g[next[r]]>>] = g[next[r]]
    <3>1. next[r] \in D /\ g[next[r]] \in Nat
      BY <1>4
    <3> QED
      BY <3>1
  <2>2. next[r] = Half(entries, key, r) /\ value[r] = IF r[1] >= r[2] THEN 0 ELSE Middle(r) + 1
    OBVIOUS
  <2>3. r \in stop <=> r[1] >= r[2] \/ entries[Middle(r) + 1].key = key
    OBVIOUS
  <2> HIDE DEF D, V, size, stop, value, next, Step
  <2> QED
    BY <1>7, <2>1, <2>2, <2>3
<1> QED
  BY <1>8, Zenon DEF Searches

LEMMA SearchIs ==
    ASSUME NEW entries, NEW length, NEW key
    PROVE  \E g : Searches(g, entries, key) /\ bsearch(entries, length, key) = g[<<0, length>>]
<1> DEFINE Def(g) ==
              g = [range \in Nat \X Nat |->
                      LET low    == range[1]
                          high   == range[2]
                          middle == (low + high) \div 2
                          there  == entries[middle + 1].key
                      IN  IF low >= high THEN 0
                          ELSE IF there = key THEN middle + 1
                          ELSE g[IF key < there THEN <<low, middle>> ELSE <<middle + 1, high>>]]
<1>1. \E g : Def(g)
  <2>1. PICK g \in [Nat \X Nat -> Nat] : Searches(g, entries, key)
    BY SearchExists
  <2>2. g = [range \in Nat \X Nat |-> g[range]]
    OBVIOUS
  <2>3. Def(g)
    BY <2>1, <2>2, Zenon DEF Searches, Half, Middle
  <2> QED
    BY <2>3, Zenon
<1>2. \E g : Def(g) /\ bsearch(entries, length, key) = g[<<0, length>>]
  <2>1. Def(CHOOSE g : Def(g))
    BY <1>1, Zenon
  <2>2. bsearch(entries, length, key) = (CHOOSE g : Def(g))[<<0, length>>]
    BY Zenon DEF bsearch
  <2> QED
    BY <2>1, <2>2, Zenon
<1>3. \A g : Def(g) => Searches(g, entries, key)
  BY Zenon DEF Searches, Half, Middle
<1> HIDE DEF Def
<1> QED
  BY <1>2, <1>3, Zenon

(* In entries that are in order the search finds the one with the key.     *)
LEMMA SearchInOrder ==
    ASSUME NEW entries, NEW n \in Nat, NEW key \in Int,
           \A i \in 1..n : entries[i].key \in Int, Ordered(entries, n),
           NEW g, Searches(g, entries, key)
    PROVE  \A r \in Nat \X Nat :
              r[2] <= n =>
                 /\ g[r] \in 0..n
                 /\ g[r] # 0 => entries[g[r]].key = key
                 /\ \A i \in r[1] + 1 .. r[2] : entries[i].key = key => g[r] = i
<1> DEFINE D == Nat \X Nat
           size == [r \in D |-> IF r[1] < r[2] THEN r[2] - r[1] ELSE 0]
           Q(r) == /\ g[r] \in 0..n
                   /\ g[r] # 0 => entries[g[r]].key = key
                   /\ \A i \in r[1] + 1 .. r[2] : entries[i].key = key => g[r] = i
           Good == {r \in D : r[2] <= n => Q(r)}
<1>1. size \in [D -> Nat]
  <2>1. \A r \in D : (IF r[1] < r[2] THEN r[2] - r[1] ELSE 0) \in Nat
    BY MiddleInRange
  <2> QED
    BY <2>1
<1>2. ASSUME NEW r \in D, \A q \in D : size[q] < size[r] => q \in Good, r[2] <= n
      PROVE  Q(r)
  <2> DEFINE m == Middle(r)
  <2>1. r[1] \in Nat /\ r[2] \in Nat /\ m \in Nat
        /\ (r[1] < r[2] => r[1] <= m /\ m < r[2])
    BY MiddleInRange
  <2>2. g[r] = IF r[1] >= r[2] THEN 0
               ELSE IF entries[m + 1].key = key THEN m + 1
               ELSE g[Half(entries, key, r)]
    BY DEF Searches
  <2>3. CASE r[1] >= r[2]
    BY <2>1, <2>2, <2>3
  <2>4. CASE r[1] < r[2] /\ entries[m + 1].key = key
    <3>1. g[r] = m + 1 /\ m + 1 \in 1..n
      BY <1>2, <2>1, <2>2, <2>4
    <3>2. ASSUME NEW i \in r[1] + 1 .. r[2], entries[i].key = key
          PROVE  i = m + 1
      <4>1. i \in 1..n
        BY <1>2, <2>1
      <4>2. ~(i < m + 1) /\ ~(m + 1 < i)
        BY <4>1, <3>1, <2>4, <3>2 DEF Ordered
      <4> QED
        BY <4>1, <4>2, <3>1
    <3> QED
      BY <3>1, <3>2, <2>4
  <2>5. CASE r[1] < r[2] /\ entries[m + 1].key # key
    <3> DEFINE q == Half(entries, key, r)
    <3>1. m + 1 \in 1..n /\ entries[m + 1].key \in Int
      BY <1>2, <2>1, <2>5
    <3>2. q \in D /\ q[2] <= n /\ size[q] < size[r]
      <4>1. CASE key < entries[m + 1].key
        <5>1. q = <<r[1], m>>
          BY <4>1 DEF Half
        <5>2. q \in D /\ q[1] = r[1] /\ q[2] = m
          BY <5>1, <2>1
        <5> HIDE DEF q
        <5> QED
          BY <5>2, <2>1, <2>5, <1>2
      <4>2. CASE ~(key < entries[m + 1].key)
        <5>1. q = <<m + 1, r[2]>>
          BY <4>2 DEF Half
        <5>2. q \in D /\ q[1] = m + 1 /\ q[2] = r[2]
          BY <5>1, <2>1
        <5> HIDE DEF q
        <5> QED
          BY <5>2, <2>1, <2>5, <1>2
      <4> QED
        BY <4>1, <4>2
    <3>3. g[r] = g[q]
      BY <2>1, <2>2, <2>5
    <3>4. Q(q)
      BY <3>2, <1>2
    <3>5. ASSUME NEW i \in r[1] + 1 .. r[2], entries[i].key = key
          PROVE  i \in q[1] + 1 .. q[2]
      <4>1. i \in 1..n /\ i \in Nat
        BY <1>2, <2>1
      <4>2. CASE key < entries[m + 1].key
        <5>1. q[1] = r[1] /\ q[2] = m
          BY <4>2 DEF Half
        <5>2. i # m + 1 /\ ~(m + 1 < i)
          BY <4>1, <4>2, <3>1, <3>5 DEF Ordered
        <5> HIDE DEF q, m
        <5> QED
          BY <5>1, <5>2, <4>1, <2>1
      <4>3. CASE ~(key < entries[m + 1].key)
        <5>1. q[1] = m + 1 /\ q[2] = r[2]
          BY <4>3 DEF Half
        <5>2. i # m + 1 /\ ~(i < m + 1)
          BY <4>1, <4>3, <3>1, <3>5, <2>5 DEF Ordered
        <5> HIDE DEF q, m
        <5> QED
          BY <5>1, <5>2, <4>1, <2>1
      <4> QED
        BY <4>2, <4>3
    <3> HIDE DEF q
    <3> QED
      BY <3>3, <3>4, <3>5
  <2> QED
    BY <2>1, <2>3, <2>4, <2>5
<1>3. \A r \in D : (\A q \in D : size[q] < size[r] => q \in Good) => r \in Good
  <2> HIDE DEF size, Q
  <2> QED
    BY <1>2
<1> HIDE DEF D, size, Q, Good
<1>4. \A r \in D : r \in Good
  BY <1>1, <1>3, Induction
<1> QED
  BY <1>4 DEF Good, Q, D

(* What bsearch promises of entries that are in order. *)
LEMMA Bsearch ==
    ASSUME NEW entries, NEW n \in Nat, NEW key \in Int,
           \A i \in 1..n : entries[i].key \in Int, Ordered(entries, n)
    PROVE  /\ bsearch(entries, n, key) \in 0..n
           /\ bsearch(entries, n, key) # 0 => entries[bsearch(entries, n, key)].key = key
           /\ \A i \in 1..n : entries[i].key = key => bsearch(entries, n, key) = i
<1>1. PICK g : Searches(g, entries, key) /\ bsearch(entries, n, key) = g[<<0, n>>]
  BY SearchIs
<1> DEFINE r == <<0, n>>
<1>2. r \in Nat \X Nat /\ r[1] = 0 /\ r[2] = n
  OBVIOUS
<1> HIDE DEF r
<1>3. /\ g[r] \in 0..n
      /\ g[r] # 0 => entries[g[r]].key = key
      /\ \A i \in r[1] + 1 .. r[2] : entries[i].key = key => g[r] = i
  BY <1>1, <1>2, SearchInOrder
<1> QED
  BY <1>1, <1>2, <1>3 DEF r
--------------------------------------------------------------------------------
LEMMA UpTo ==
    ASSUME NEW k \in Nat
    PROVE  IsFiniteSet(1..k) /\ Cardinality(1..k) = k
BY FS_Interval

(* A last entry with a key of its own goes behind the q that are less. *)
LEMMA Qsort ==
    ASSUME NEW entries, NEW n \in Nat, DOMAIN entries = 1 .. n + 1,
           \A i \in 1 .. n + 1 : entries[i].key \in Int, Ordered(entries, n),
           NEW q \in 0..n, \A i \in 1..n : IF i <= q THEN entries[i].key < entries[n + 1].key
                                           ELSE entries[n + 1].key < entries[i].key
    PROVE  qsort(entries) = [p \in 1 .. n + 1 |-> IF p <= q THEN entries[p]
                                                  ELSE IF p = q + 1 THEN entries[n + 1]
                                                  ELSE entries[p - 1]]
<1>1. ASSUME NEW i \in 1..q
      PROVE  Cardinality(Before(entries, i)) = i - 1
  <2>1. \A j \in 1..n + 1 : j \in Before(entries, i) <=> j \in 1 .. i - 1
    <3> SUFFICES ASSUME NEW j \in 1 .. n + 1
                 PROVE  j \in Before(entries, i) <=> j \in 1 .. i - 1
      OBVIOUS
    <3>1. i \in 1..n /\ i <= q /\ entries[i].key \in Int /\ entries[j].key \in Int
      OBVIOUS
    <3>2. CASE j = n + 1
      BY <3>1, <3>2 DEF Before
    <3>3. CASE j \in 1..n
      BY <3>1, <3>3 DEF Before, Ordered
    <3> QED
      BY <3>2, <3>3
  <2>2. Before(entries, i) = 1 .. i - 1
    BY <2>1 DEF Before
  <2> QED
    BY <2>2, FS_Interval
<1>2. Cardinality(Before(entries, n + 1)) = q
  <2>1. \A j \in 1..n + 1 : j \in Before(entries, n + 1) <=> j \in 1..q
    <3> SUFFICES ASSUME NEW j \in 1 .. n + 1
                 PROVE  j \in Before(entries, n + 1) <=> j \in 1..q
      OBVIOUS
    <3>1. entries[n + 1].key \in Int /\ entries[j].key \in Int
      OBVIOUS
    <3>2. CASE j = n + 1
      BY <3>1, <3>2 DEF Before
    <3>3. CASE j \in 1..n
      BY <3>1, <3>3 DEF Before
    <3> QED
      BY <3>2, <3>3
  <2>2. Before(entries, n + 1) = 1..q
    BY <2>1 DEF Before
  <2> QED
    BY <2>2, FS_Interval
<1>3. ASSUME NEW i \in q + 1 .. n
      PROVE  Cardinality(Before(entries, i)) = i
  <2>1. \A j \in 1..n + 1 : j \in Before(entries, i) <=> j \in 1 .. i - 1 \/ j = n + 1
    <3> SUFFICES ASSUME NEW j \in 1 .. n + 1
                 PROVE  j \in Before(entries, i) <=> j \in 1 .. i - 1 \/ j = n + 1
      OBVIOUS
    <3>1. i \in 1..n /\ ~(i <= q) /\ entries[i].key \in Int /\ entries[j].key \in Int
      OBVIOUS
    <3>2. CASE j = n + 1
      BY <3>1, <3>2 DEF Before
    <3>3. CASE j \in 1..n
      BY <3>1, <3>3 DEF Before, Ordered
    <3> QED
      BY <3>2, <3>3
  <2>2. Before(entries, i) = (1 .. i - 1) \union {n + 1}
    BY <2>1 DEF Before
  <2> DEFINE S == 1 .. i - 1
  <2>3. i - 1 \in Nat /\ n + 1 \notin S
    OBVIOUS
  <2>4. IsFiniteSet(S) /\ Cardinality(S) = i - 1
    BY <2>3, UpTo
  <2> HIDE DEF S
  <2>5. Cardinality(S \union {n + 1}) = Cardinality(S) + 1
    BY <2>3, <2>4, FS_AddElement
  <2> QED
    BY <2>2, <2>4, <2>5 DEF S
<1> DEFINE place(p) == IF p <= q THEN p ELSE IF p = q + 1 THEN n + 1 ELSE p - 1
           At(p, i) == Cardinality(Before(entries, i)) = p - 1
<1>4. ASSUME NEW p \in DOMAIN entries
      PROVE  place(p) \in DOMAIN entries /\ At(p, place(p))
             /\ \A i \in DOMAIN entries : At(p, i) => i = place(p)
  <2>1. place(p) \in 1 .. n + 1
    OBVIOUS
  <2>2. \A i \in 1 .. n + 1 : Cardinality(Before(entries, i)) = IF i <= q THEN i - 1 ELSE IF i = n + 1 THEN q ELSE i
    BY <1>1, <1>2, <1>3
  <2> QED
    BY <2>1, <2>2
<1>5. ASSUME NEW p \in DOMAIN entries
      PROVE  (CHOOSE i \in DOMAIN entries : At(p, i)) = place(p)
  <2> HIDE DEF place, At
  <2> QED
    BY <1>4, Zenon
<1>6. qsort(entries) = [p \in DOMAIN entries |-> entries[place(p)]]
  <2>1. qsort(entries) = [p \in DOMAIN entries |-> entries[CHOOSE i \in DOMAIN entries : At(p, i)]]
    BY Zenon DEF qsort
  <2> HIDE DEF place, At
  <2> QED
    BY <2>1, <1>5, Zenon
<1> QED
  BY <1>6
--------------------------------------------------------------------------------
(* Maps with values from V, as they are when none is being added to. *)
Entry(V) == [key : Int, value : V]
Maps(V) == {m \in [entries : Seq(Entry(V)), cursor : Nat] : WellFormed(m)}

Value(m, k) == map_get_value(map_find(m, k))

LEMMA MapType ==
    ASSUME NEW V, NEW m \in Maps(V)
    PROVE  /\ m.entries \in Seq(Entry(V)) /\ m.cursor \in Nat /\ WellFormed(m)
           /\ map_size(m) = Len(m.entries) /\ map_size(m) \in Nat
           /\ DOMAIN m.entries = 1..map_size(m)
           /\ \A i \in 1..map_size(m) : /\ m.entries[i] \in Entry(V)
                                        /\ m.entries[i].key \in Int
                                        /\ m.entries[i].value \in V
           /\ Ordered(m.entries, map_size(m))
<1>1. /\ m.entries \in Seq(Entry(V)) /\ m.cursor \in Nat /\ WellFormed(m)
      /\ map_size(m) = Len(m.entries) /\ map_size(m) \in Nat
      /\ DOMAIN m.entries = 1..map_size(m)
  BY DEF Maps, map_size
<1>2. ASSUME NEW i \in 1..map_size(m)
      PROVE  m.entries[i] \in Entry(V) /\ m.entries[i].key \in Int /\ m.entries[i].value \in V
  <2>1. m.entries[i] \in Entry(V)
    BY <1>1, ElementOfSeq
  <2> QED
    BY <2>1 DEF Entry
<1>3. Ordered(m.entries, map_size(m))
  BY <1>1 DEF WellFormed, Ordered
<1> QED
  BY <1>1, <1>2, <1>3

LEMMA NewMap ==
    ASSUME NEW V
    PROVE  map_new \in Maps(V) /\ \A k \in Int : ~Has(map_new, k)
<1>1. map_new \in Maps(V)
  BY DEF map_new, Maps, WellFormed, map_size, Entry
<1>2. ASSUME NEW k \in Int
      PROVE  ~Has(map_new, k)
  <2>1. bsearch(map_new.entries, map_size(map_new), k) \in 0..map_size(map_new)
    BY <1>1, MapType, Bsearch
  <2>2. map_size(map_new) = 0
    BY DEF map_new, map_size
  <2> QED
    BY <2>1, <2>2 DEF Has, map_find, map_new
<1> QED
  BY <1>1, <1>2

(* A search that finds nothing leaves the map as good as one that does. *)
LEMMA Found ==
    ASSUME NEW V, NEW m \in Maps(V), NEW k \in Int
    PROVE  /\ map_find(m, k) \in Maps(V) /\ map_find(m, k).entries = m.entries
           /\ map_find(m, k).cursor \in 0..map_size(m)
           /\ Has(m, k) => /\ map_find(m, k).cursor \in 1..map_size(m)
                           /\ m.entries[map_find(m, k).cursor].key = k
                           /\ Value(m, k) \in V
           /\ \A i \in 1..map_size(m) : m.entries[i].key = k =>
                 Has(m, k) /\ map_find(m, k).cursor = i /\ Value(m, k) = m.entries[i].value
<1> DEFINE b == bsearch(m.entries, map_size(m), k)
           f == map_find(m, k)
<1>1. /\ b \in 0..map_size(m)
      /\ b # 0 => m.entries[b].key = k
      /\ \A i \in 1..map_size(m) : m.entries[i].key = k => b = i
  <2>1. map_size(m) \in Nat /\ Ordered(m.entries, map_size(m))
    BY MapType
  <2>2. \A i \in 1..map_size(m) : m.entries[i].key \in Int
    BY MapType
  <2> QED
    BY <2>1, <2>2, Bsearch, Zenon
<1>2. m \in [entries : Seq(Entry(V)), cursor : Nat]
  BY DEF Maps
<1>3. f = [m EXCEPT !.cursor = b]
  BY DEF map_find
<1>4. f.entries = m.entries /\ f.cursor = b /\ f \in [entries : Seq(Entry(V)), cursor : Nat]
  <2>1. b \in Nat
    BY <1>1, MapType
  <2> HIDE DEF b, f
  <2> QED
    BY <1>2, <1>3, <2>1
<1>5. map_size(f) = map_size(m) /\ Value(m, k) = m.entries[b].value /\ (Has(m, k) <=> b # 0)
  BY <1>4 DEF map_size, Value, map_get_value, Has
<1>6. f \in Maps(V)
  <2>1. WellFormed(m)
    BY MapType
  <2> HIDE DEF b, f
  <2> QED
    BY <2>1, <1>1, <1>4, <1>5 DEF Maps, WellFormed
<1>7. \A i \in 1..map_size(m) : m.entries[i].value \in V
  BY MapType
<1>8. map_size(m) \in Nat
  BY MapType
<1> HIDE DEF b, f
<1> QED
  BY <1>1, <1>4, <1>5, <1>6, <1>7, <1>8 DEF f

LEMMA FoundThere ==
    ASSUME NEW V, NEW m \in Maps(V), NEW k \in Int, NEW i \in 1..map_size(m), m.entries[i].key = k
    PROVE  Has(m, k) /\ Value(m, k) = m.entries[i].value
<1>1. \A j \in 1..map_size(m) : m.entries[j].key = k => Has(m, k) /\ Value(m, k) = m.entries[j].value
  BY Found
<1> QED
  BY <1>1

LEMMA FoundSomewhere ==
    ASSUME NEW V, NEW m \in Maps(V), NEW k \in Int, Has(m, k)
    PROVE  \E i \in 1..map_size(m) : m.entries[i].key = k
<1> DEFINE c == map_find(m, k).cursor
<1>1. c \in 1..map_size(m)
  BY Found
<1>2. m.entries[c].key = k
  BY Found
<1> HIDE DEF c
<1> QED
  BY <1>1, <1>2

(* A value that is assigned is that of the key the cursor is on. *)
LEMMA Assigned ==
    ASSUME NEW V, NEW m \in Maps(V), NEW k \in Int, NEW v \in V, m.cursor # 0,
           m.entries[m.cursor].key = k
    PROVE  /\ SetValue(m, v) \in Maps(V)
           /\ \A q \in Int : Has(SetValue(m, v), q) <=> Has(m, q)
           /\ Has(m, k) /\ Value(SetValue(m, v), k) = v
           /\ \A q \in Int : Has(m, q) /\ q # k => Value(SetValue(m, v), q) = Value(m, q)
<1> DEFINE n == map_size(m)
           c == m.cursor
           s == SetValue(m, v)
<1>1. m \in [entries : Seq(Entry(V)), cursor : Nat] /\ c \in 1..n /\ n \in Nat /\ n = Len(m.entries)
      /\ WellFormed(m) /\ DOMAIN m.entries = 1..n
  BY MapType DEF Maps, WellFormed
<1>2. \A i \in 1..n : m.entries[i] \in Entry(V)
  BY MapType
<1> DEFINE e == [m.entries[c] EXCEPT !.value = v]
           es == [m.entries EXCEPT ![c] = e]
<1>3. e \in Entry(V) /\ e.key = k /\ e.value = v
  <2>1. m.entries[c] \in Entry(V)
    BY <1>1, <1>2
  <2> QED
    BY <2>1 DEF Entry
<1>4. es \in Seq(Entry(V)) /\ Len(es) = n /\ \A i \in 1..n : es[i] = IF i = c THEN e ELSE m.entries[i]
  <2> HIDE DEF e, c
  <2> QED
    BY <1>1, <1>3, ExceptSeq
<1>5. s = [m EXCEPT !.entries = es]
  BY <1>1 DEF SetValue
<1>6. s.entries = es /\ s.cursor = c /\ s \in [entries : Seq(Entry(V)), cursor : Nat]
  <2> HIDE DEF es, s
  <2> QED
    BY <1>1, <1>4, <1>5
<1>7. \A i \in 1..n : es[i].key = m.entries[i].key
  <2> HIDE DEF e, es
  <2> QED
    BY <1>3, <1>4
<1>8. map_size(s) = n
  BY <1>4, <1>6 DEF map_size
<1> HIDE DEF n, c, s, e, es
<1>9. s \in Maps(V)
  <2>1. WellFormed(s)
    BY <1>1, <1>6, <1>7, <1>8 DEF WellFormed, n, c
  <2> QED
    BY <2>1, <1>6 DEF Maps
<1>10. ASSUME NEW q \in Int
       PROVE  Has(s, q) <=> Has(m, q)
  <2>1. Has(s, q) => \E i \in 1..n : s.entries[i].key = q
    BY <1>8, <1>9, FoundSomewhere, Zenon
  <2>2. Has(m, q) => \E i \in 1..n : m.entries[i].key = q
    BY FoundSomewhere, Zenon DEF n
  <2>3. \A i \in 1..n : s.entries[i].key = q => Has(s, q)
    BY <1>8, <1>9, FoundThere, Zenon
  <2>4. \A i \in 1..n : m.entries[i].key = q => Has(m, q)
    BY FoundThere, Zenon DEF n
  <2> QED
    BY <2>1, <2>2, <2>3, <2>4, <1>6, <1>7
<1>11. Has(m, k) /\ Value(s, k) = v
  <2>1. c \in 1..map_size(s) /\ s.entries[c].key = k /\ s.entries[c].value = v
    BY <1>1, <1>3, <1>4, <1>6, <1>8
  <2>2. Has(s, k) /\ Value(s, k) = v
    BY <2>1, <1>9, FoundThere, Zenon
  <2> QED
    BY <2>2, <1>10
<1>12. ASSUME NEW q \in Int, Has(m, q), q # k
       PROVE  Value(s, q) = Value(m, q)
  <2>1. PICK i \in 1..n : m.entries[i].key = q
    BY <1>12, FoundSomewhere, Zenon DEF n
  <2>2. Value(m, q) = m.entries[i].value
    BY <2>1, FoundThere, Zenon DEF n
  <2>3. i # c
    BY <2>1, <1>12 DEF c
  <2>4. s.entries[i].key = q /\ s.entries[i].value = m.entries[i].value /\ i \in 1..map_size(s)
    BY <2>1, <2>3, <1>4, <1>6, <1>8
  <2>5. Value(s, q) = s.entries[i].value
    BY <2>4, <1>9, FoundThere, Zenon
  <2> QED
    BY <2>2, <2>4, <2>5
<1> QED
  BY <1>9, <1>10, <1>11, <1>12 DEF s

(* Where a key that is not there goes: behind the q that are less. *)
LEMMA Position ==
    ASSUME NEW entries, NEW n \in Nat, NEW k \in Int,
           \A i \in 1..n : entries[i].key \in Int /\ entries[i].key # k, Ordered(entries, n)
    PROVE  \E q \in 0..n : \A i \in 1..n : IF i <= q THEN entries[i].key < k ELSE k < entries[i].key
<1> DEFINE S == {q \in 0..n : \A i \in q + 1 .. n : k < entries[i].key}
<1>1. S \in SUBSET Nat /\ n \in S
  OBVIOUS
<1>2. PICK q \in S : \A j \in S : q <= j
  BY <1>1, LeastNatural
<1>3. q \in 0..n /\ \A i \in q + 1 .. n : k < entries[i].key
  OBVIOUS
<1>4. ASSUME q # 0
      PROVE  entries[q].key < k
  <2>1. q - 1 \in 0..n /\ ~(q - 1 \in S)
    <3>1. q - 1 \in 0..n /\ ~(q <= q - 1)
      BY <1>3, <1>4
    <3> HIDE DEF S
    <3> QED
      BY <3>1, <1>2
  <2>2. PICK i \in q .. n : ~(k < entries[i].key)
    BY <2>1
  <2>3. i = q
    BY <2>2, <1>3
  <2> QED
    BY <2>2, <2>3, <1>3, <1>4
<1>5. ASSUME NEW i \in 1..n, i <= q
      PROVE  entries[i].key < k
  <2>1. q \in 1..n
    BY <1>3, <1>5
  <2>2. i = q \/ entries[i].key < entries[q].key
    BY <2>1, <1>5 DEF Ordered
  <2> QED
    BY <2>1, <2>2, <1>4
<1>6. \A i \in 1..n : IF i <= q THEN entries[i].key < k ELSE k < entries[i].key
  BY <1>3, <1>5
<1> HIDE DEF S
<1> QED
  BY <1>3, <1>6

(* Put where the key is there: only its value changes. *)
LEMMA PutOver ==
    ASSUME NEW V, NEW m \in Maps(V), NEW k \in Int, NEW v \in V, Has(m, k)
    PROVE  /\ map_find(m, k) \in Maps(V) /\ map_find(m, k).cursor # 0
           /\ map_find(m, k).entries[map_find(m, k).cursor].key = k
           /\ Put(m, k, v) = SetValue(map_find(m, k), v)
<1> DEFINE n == map_size(m)
           a == map_add(m, k, v)
           b == bsearch(m.entries, n, k)
           f == map_find(m, k)
<1>1. m.entries \in Seq(Entry(V)) /\ n = Len(m.entries) /\ n \in Nat
      /\ (\A i \in 1..n : m.entries[i].key \in Int) /\ Ordered(m.entries, n)
  BY MapType
<1>2. f = [m EXCEPT !.cursor = b] /\ f \in Maps(V) /\ f.entries = m.entries
  BY Found DEF map_find
<1>3. m = [entries |-> m.entries, cursor |-> m.cursor]
  BY DEF Maps
<1>4. f.cursor = b /\ f = [entries |-> m.entries, cursor |-> b]
  <2> HIDE DEF b, f
  <2> QED
    BY <1>2, <1>3
<1>5. b # 0 /\ b \in 1..n /\ m.entries[b].key = k
  <2>1. f.cursor \in 1..n
    BY Found
  <2>2. m.entries[f.cursor].key = k
    BY Found
  <2> HIDE DEF b, f, n
  <2> QED
    BY <2>1, <2>2, <1>1, <1>4
<1> DEFINE e == [key |-> k, value |-> v]
           es == Append(m.entries, e)
<1>6. e \in Entry(V) /\ e.key = k
  BY DEF Entry
<1>7. es \in Seq(Entry(V)) /\ Len(es) = n + 1 /\ Last(es) = e /\ Front(es) = m.entries
      /\ \A i \in 1..n : es[i] = m.entries[i]
  <2> HIDE DEF e
  <2>1. es \in Seq(Entry(V)) /\ Len(es) = n + 1 /\ es[n + 1] = e /\ \A i \in 1..n : es[i] = m.entries[i]
    BY <1>1, <1>6
  <2>2. SubSeq(es, 1, n) = m.entries
    BY <1>1, <1>6
  <2> HIDE DEF es
  <2> QED
    BY <1>1, <2>1, <2>2 DEF Last, Front
<1>8. bsearch(es, n, k) = b
  <2>1. \A i \in 1..n : es[i].key \in Int
    BY <1>1, <1>7
  <2>2. Ordered(es, n)
    BY <1>1, <1>7 DEF Ordered
  <2>3. \A i \in 1..n : es[i].key = k => bsearch(es, n, k) = i
    <3> HIDE DEF es, n
    <3> QED
      BY <2>1, <2>2, <1>1, Bsearch
  <2>4. es[b].key = k
    BY <1>5, <1>7
  <2> HIDE DEF b, es, n
  <2> QED
    BY <2>3, <2>4, <1>5
<1>9. a.entries = es /\ map_size(a) = n + 1
  BY <1>7 DEF map_add, map_size
<1>10. map_commit(a) = [entries |-> m.entries, cursor |-> b]
  <2>1. Last(a.entries).key = k /\ map_size(a) - 1 = n /\ Front(a.entries) = m.entries
    <3> HIDE DEF a, n, e, es
    <3> QED
      BY <1>1, <1>6, <1>7, <1>9
  <2>2. bsearch(a.entries, map_size(a) - 1, Last(a.entries).key) = b
    BY <1>8, <1>9, <2>1
  <2> HIDE DEF a, b, n, e, es
  <2> QED
    BY <2>1, <2>2, <1>5 DEF map_commit
<1>11. Put(m, k, v) = SetValue(f, v)
  <2> HIDE DEF b, f
  <2> QED
    BY <1>4, <1>10 DEF Put
<1> HIDE DEF b, f, n
<1> QED
  BY <1>2, <1>4, <1>5, <1>11 DEF f

(* Put where the key is not there: an entry more, in its place. *)
LEMMA PutNew ==
    ASSUME NEW V, NEW m \in Maps(V), NEW k \in Int, NEW v \in V, ~Has(m, k)
    PROVE  \E q \in 0..map_size(m), t \in Maps(V) :
              /\ map_size(t) = map_size(m) + 1 /\ t.cursor = q + 1
              /\ t.entries = [p \in 1 .. map_size(m) + 1 |->
                                IF p <= q THEN m.entries[p]
                                ELSE IF p = q + 1 THEN [key |-> k, value |-> v]
                                ELSE m.entries[p - 1]]
              /\ Put(m, k, v) = SetValue(t, v)
<1> DEFINE n == map_size(m)
           a == map_add(m, k, v)
           e == [key |-> k, value |-> v]
           es == Append(m.entries, e)
<1>1. m.entries \in Seq(Entry(V)) /\ n = Len(m.entries) /\ n \in Nat
      /\ (\A i \in 1..n : m.entries[i] \in Entry(V) /\ m.entries[i].key \in Int) /\ Ordered(m.entries, n)
  BY MapType
<1>2. \A i \in 1..n : m.entries[i].key # k
  BY FoundThere
<1>3. PICK q \in 0..n : \A i \in 1..n : IF i <= q THEN m.entries[i].key < k ELSE k < m.entries[i].key
  <2> HIDE DEF n
  <2> QED
    BY <1>1, <1>2, Position
<1>4. e \in Entry(V) /\ e.key = k /\ e.value = v
  BY DEF Entry
<1>5. es \in Seq(Entry(V)) /\ Len(es) = n + 1 /\ es[n + 1] = e /\ Last(es) = e
      /\ (\A i \in 1..n : es[i] = m.entries[i]) /\ DOMAIN es = 1 .. n + 1
  <2> HIDE DEF e
  <2>1. es \in Seq(Entry(V)) /\ Len(es) = n + 1 /\ es[n + 1] = e /\ \A i \in 1..n : es[i] = m.entries[i]
    BY <1>1, <1>4
  <2> HIDE DEF es
  <2> QED
    BY <1>1, <2>1 DEF Last
<1> DEFINE place(p) == IF p <= q THEN m.entries[p] ELSE IF p = q + 1 THEN e ELSE m.entries[p - 1]
           sorted == [p \in 1 .. n + 1 |-> place(p)]
           t == [entries |-> sorted, cursor |-> q + 1]
<1>6. \A i \in 1..n : es[i].key = m.entries[i].key /\ es[i].key \in Int
  BY <1>1, <1>5
<1>7. es[n + 1].key = k
  BY <1>4, <1>5
<1>8. qsort(es) = sorted
  <2>1. \A i \in 1 .. n + 1 : es[i].key \in Int
    BY <1>1, <1>6, <1>7
  <2>2. Ordered(es, n)
    BY <1>1, <1>6 DEF Ordered
  <2>3. \A i \in 1..n : IF i <= q THEN es[i].key < es[n + 1].key ELSE es[n + 1].key < es[i].key
    BY <1>3, <1>6, <1>7
  <2>4. qsort(es) = [p \in 1 .. n + 1 |-> IF p <= q THEN es[p] ELSE IF p = q + 1 THEN es[n + 1] ELSE es[p - 1]]
    <3> HIDE DEF n, es
    <3> QED
      BY <2>1, <2>2, <2>3, <1>1, <1>3, <1>5, Qsort
  <2>5. \A p \in 1 .. n + 1 : (IF p <= q THEN es[p] ELSE IF p = q + 1 THEN es[n + 1] ELSE es[p - 1]) = place(p)
    <3> SUFFICES ASSUME NEW p \in 1 .. n + 1
                 PROVE  (IF p <= q THEN es[p] ELSE IF p = q + 1 THEN es[n + 1] ELSE es[p - 1]) = place(p)
      OBVIOUS
    <3> HIDE DEF n, es, e
    <3>1. CASE p <= q
      <4>1. p \in 1..n
        BY <3>1, <1>1
      <4> QED
        BY <3>1, <4>1, <1>5
    <3>2. CASE p = q + 1
      BY <3>2, <1>1, <1>5
    <3>3. CASE p > q + 1
      <4>1. p - 1 \in 1..n
        BY <3>3, <1>1
      <4>2. es[p - 1] = m.entries[p - 1]
        BY <4>1, <1>5
      <4>3. ~(p <= q) /\ p # q + 1
        BY <3>3, <1>1
      <4> QED
        BY <4>2, <4>3, Zenon
    <3>4. p <= q \/ p = q + 1 \/ p > q + 1
      BY <1>1
    <3> QED
      BY <3>1, <3>2, <3>3, <3>4
  <2> HIDE DEF es, place
  <2> QED
    BY <2>4, <2>5
<1>9. \A p \in 1 .. n + 1 : place(p) \in Entry(V)
  <2> HIDE DEF n, e
  <2> QED
    BY <1>1, <1>3, <1>4
<1>10. sorted \in Seq(Entry(V)) /\ Len(sorted) = n + 1 /\ \A p \in 1 .. n + 1 : sorted[p] = place(p)
  <2> HIDE DEF place, n
  <2> QED
    BY <1>1, <1>9
<1>11. Ordered(sorted, n + 1) /\ \A p \in 1 .. n + 1 : sorted[p].key \in Int
  <2>1. \A p \in 1 .. n + 1 : place(p).key = IF p <= q THEN m.entries[p].key ELSE IF p = q + 1 THEN k ELSE m.entries[p - 1].key
    BY <1>4
  <2>2. ASSUME NEW i \in 1 .. n + 1, NEW j \in 1 .. n + 1, i < j
        PROVE  place(i).key < place(j).key
    <3> HIDE DEF n, place
    <3>1. CASE j <= q
      BY <3>1, <2>1, <2>2, <1>1, <1>3 DEF Ordered
    <3>2. CASE j = q + 1
      BY <3>2, <2>1, <2>2, <1>1, <1>3
    <3>3. CASE j > q + 1 /\ i <= q
      BY <3>3, <2>1, <2>2, <1>1, <1>3 DEF Ordered
    <3>4. CASE j > q + 1 /\ i = q + 1
      BY <3>4, <2>1, <2>2, <1>1, <1>3
    <3>5. CASE j > q + 1 /\ i > q + 1
      BY <3>5, <2>1, <2>2, <1>1, <1>3 DEF Ordered
    <3> QED
      BY <3>1, <3>2, <3>3, <3>4, <3>5, <1>1, <1>3
  <2>3. \A p \in 1 .. n + 1 : place(p).key \in Int
    BY <1>9 DEF Entry
  <2> HIDE DEF place, sorted
  <2> QED
    BY <2>2, <2>3, <1>10 DEF Ordered
<1>12. bsearch(sorted, n + 1, k) = q + 1
  <2>1. q + 1 \in 1 .. n + 1 /\ sorted[q + 1].key = k
    <3>1. place(q + 1) = e
      BY <1>3
    <3> HIDE DEF place, sorted, n, e
    <3> QED
      BY <3>1, <1>1, <1>3, <1>4, <1>10
  <2>2. n + 1 \in Nat
    BY <1>1
  <2>3. \A i \in 1 .. n + 1 : sorted[i].key = k => bsearch(sorted, n + 1, k) = i
    <3> DEFINE l == n + 1
    <3>1. l \in Nat /\ (\A i \in 1..l : sorted[i].key \in Int) /\ Ordered(sorted, l)
      BY <2>2, <1>11
    <3> HIDE DEF l, sorted
    <3>2. \A i \in 1..l : sorted[i].key = k => bsearch(sorted, l, k) = i
      BY <3>1, Bsearch
    <3> QED
      BY <3>2 DEF l
  <2> HIDE DEF sorted, n
  <2> QED
    BY <2>1, <2>3
<1>13. t \in Maps(V) /\ map_size(t) = n + 1 /\ t.cursor = q + 1 /\ t.entries = sorted
  <2> HIDE DEF sorted
  <2>1. map_size(t) = n + 1 /\ t.cursor = q + 1 /\ t.entries = sorted
    BY <1>10 DEF map_size
  <2>2. t \in [entries : Seq(Entry(V)), cursor : Nat]
    BY <1>3, <1>10
  <2>3. q + 1 \in 0 .. n + 1
    BY <1>1, <1>3
  <2> HIDE DEF t, n
  <2>4. WellFormed(t)
    BY <2>1, <2>3, <1>11 DEF WellFormed, Ordered
  <2> QED
    BY <2>1, <2>2, <2>4 DEF Maps
<1>14. Put(m, k, v) = SetValue(t, v)
  <2>1. a.entries = es /\ map_size(a) = n + 1
    BY <1>5 DEF map_add, map_size
  <2>2. Last(a.entries).key = k /\ map_size(a) - 1 = n
    <3> HIDE DEF a, n, es, e
    <3> QED
      BY <2>1, <1>1, <1>4, <1>5
  <2>3. bsearch(es, n, k) = 0
    <3>1. \A i \in 1..n : es[i].key \in Int
      BY <1>6
    <3>2. Ordered(es, n)
      BY <1>1, <1>6 DEF Ordered
    <3> HIDE DEF es, n
    <3>3. bsearch(es, n, k) \in 0..n
      BY <3>1, <3>2, <1>1, Bsearch
    <3>4. bsearch(es, n, k) # 0 => es[bsearch(es, n, k)].key = k
      BY <3>1, <3>2, <1>1, Bsearch
    <3> QED
      BY <3>3, <3>4, <1>1, <1>2, <1>6
  <2>4. map_commit(a) = [entries |-> sorted, cursor |-> bsearch(sorted, Len(sorted), k)]
    <3> HIDE DEF a, n, es, sorted
    <3> QED
      BY <2>1, <2>2, <2>3, <1>8 DEF map_commit
  <2>5. map_commit(a) = t
    <3> HIDE DEF a, sorted, n
    <3> QED
      BY <2>4, <1>10, <1>12
  <2> HIDE DEF t
  <2> QED
    BY <2>5 DEF Put
<1> HIDE DEF t, n
<1> QED
  BY <1>3, <1>13, <1>14 DEF n

(* What m has, t has, with the same values, if its entries are m's and more. *)
LEMMA Has_find ==
    ASSUME NEW V, NEW m \in Maps(V), NEW k \in Int
    PROVE  /\ \A q \in Int : Has(map_find(m, k), q) <=> Has(m, q)
           /\ \A q \in Int : Value(map_find(m, k), q) = Value(m, q)
<1>1. map_find(m, k).entries = m.entries
  BY Found
<1>2. map_size(map_find(m, k)) = map_size(m)
  BY <1>1 DEF map_size
<1>3. m \in [entries : Seq(Entry(V)), cursor : Nat] /\ map_find(m, k) \in [entries : Seq(Entry(V)), cursor : Nat]
  BY Found DEF Maps
<1>4. \A q : [map_find(m, k) EXCEPT !.cursor = bsearch(m.entries, map_size(m), q)]
             = [m EXCEPT !.cursor = bsearch(m.entries, map_size(m), q)]
  <2> SUFFICES ASSUME NEW q
               PROVE  [map_find(m, k) EXCEPT !.cursor = bsearch(m.entries, map_size(m), q)]
                      = [m EXCEPT !.cursor = bsearch(m.entries, map_size(m), q)]
    OBVIOUS
  <2> DEFINE b == bsearch(m.entries, map_size(m), q)
             f == map_find(m, k)
  <2> HIDE DEF b, f
  <2>1. [f EXCEPT !.cursor = b] = [entries |-> f.entries, cursor |-> b]
        /\ [m EXCEPT !.cursor = b] = [entries |-> m.entries, cursor |-> b]
    BY <1>3 DEF f
  <2> QED
    BY <2>1, <1>1 DEF f, b
<1>5. \A q : map_find(map_find(m, k), q) = map_find(m, q)
  BY <1>1, <1>2, <1>4, Zenon DEF map_find
<1> QED
  BY <1>5, Zenon DEF Has, Value

LEMMA PutIs ==
    ASSUME NEW V, NEW m \in Maps(V), NEW k \in Int, NEW v \in V
    PROVE  /\ Put(m, k, v) \in Maps(V)
           /\ \A q \in Int : Has(Put(m, k, v), q) <=> q = k \/ Has(m, q)
           /\ Value(Put(m, k, v), k) = v
           /\ \A q \in Int : q # k /\ Has(m, q) => Value(Put(m, k, v), q) = Value(m, q)
<1> DEFINE s == Put(m, k, v)
<1>1. CASE Has(m, k)
  <2> DEFINE f == map_find(m, k)
  <2>1. /\ f \in Maps(V) /\ f.cursor # 0 /\ f.entries[f.cursor].key = k /\ s = SetValue(f, v)
    BY <1>1, PutOver
  <2> HIDE DEF f, s
  <2>2. s \in Maps(V) /\ Value(s, k) = v
    BY <2>1, Assigned
  <2>3. \A q \in Int : Has(s, q) <=> Has(f, q)
    BY <2>1, Assigned
  <2>4. \A q \in Int : Has(f, q) /\ q # k => Value(s, q) = Value(f, q)
    BY <2>1, Assigned
  <2>5. \A q \in Int : (Has(f, q) <=> Has(m, q)) /\ Value(f, q) = Value(m, q)
    BY Has_find DEF f
  <2> QED
    BY <1>1, <2>2, <2>3, <2>4, <2>5, Zenon DEF s
<1>2. CASE ~Has(m, k)
  <2> DEFINE n == map_size(m)
             e == [key |-> k, value |-> v]
             Place(q, p) == IF p <= q THEN m.entries[p] ELSE IF p = q + 1 THEN e ELSE m.entries[p - 1]
  <2>1. PICK q \in 0..n, t \in Maps(V) :
              /\ map_size(t) = n + 1 /\ t.cursor = q + 1
              /\ t.entries = [p \in 1 .. n + 1 |-> Place(q, p)]
              /\ s = SetValue(t, v)
    BY <1>2, PutNew
  <2>2. n \in Nat /\ e.key = k /\ e.value = v
    BY MapType
  <2>3. \A p \in 1 .. n + 1 : t.entries[p] = Place(q, p)
    BY <2>1, Zenon
  <2> HIDE DEF n, e, s
  <2>13. map_size(t) = n + 1
    BY <2>1
  <2>4. t.entries[t.cursor].key = k /\ t.cursor # 0
    BY <2>1, <2>2, <2>3
  <2>5. \A i \in 1..n : \E p \in 1 .. n + 1 : t.entries[p] = m.entries[i]
    <3> SUFFICES ASSUME NEW i \in 1..n
                 PROVE  \E p \in 1 .. n + 1 : t.entries[p] = m.entries[i]
      OBVIOUS
    <3>1. CASE i <= q
      BY <3>1, <2>2, <2>3
    <3>2. CASE i > q
      <4>1. i + 1 \in 1 .. n + 1 /\ ~(i + 1 <= q) /\ i + 1 # q + 1 /\ (i + 1) - 1 = i
        BY <3>2, <2>2
      <4>2. t.entries[i + 1] = m.entries[i]
        BY <4>1, <2>3
      <4> QED
        BY <4>1, <4>2
    <3> QED
      BY <3>1, <3>2, <2>2
  <2>6. \A p \in 1 .. n + 1 : t.entries[p] = e \/ \E i \in 1..n : t.entries[p] = m.entries[i]
    <3> SUFFICES ASSUME NEW p \in 1 .. n + 1, t.entries[p] # e
                 PROVE  \E i \in 1..n : t.entries[p] = m.entries[i]
      OBVIOUS
    <3>1. CASE p <= q
      BY <3>1, <2>2, <2>3
    <3>2. CASE p > q
      <4>1. p # q + 1 /\ ~(p <= q) /\ p - 1 \in 1..n
        BY <3>2, <2>2, <2>3
      <4>2. t.entries[p] = m.entries[p - 1]
        BY <4>1, <2>3
      <4> QED
        BY <4>1, <4>2
    <3> QED
      BY <3>1, <3>2, <2>2
  <2>7. ASSUME NEW j \in Int
        PROVE  Has(t, j) <=> j = k \/ Has(m, j)
    <3>1. ASSUME Has(t, j)
          PROVE  j = k \/ Has(m, j)
      <4>1. PICK p \in 1 .. n + 1 : t.entries[p].key = j
        BY <2>13, <3>1, FoundSomewhere, Zenon
      <4>2. CASE t.entries[p] = e
        BY <4>1, <4>2, <2>2
      <4>3. ASSUME NEW i \in 1..n, t.entries[p] = m.entries[i]
            PROVE  Has(m, j)
        <5>1. m.entries[i].key = j
          BY <4>1, <4>3
        <5> QED
          BY <5>1, FoundThere, Zenon DEF n
      <4> QED
        BY <4>2, <4>3, <2>6
    <3>2. ASSUME Has(m, j)
          PROVE  Has(t, j)
      <4>1. PICK i \in 1..n : m.entries[i].key = j
        BY <3>2, FoundSomewhere, Zenon DEF n
      <4>2. PICK p \in 1 .. n + 1 : t.entries[p] = m.entries[i]
        BY <2>5
      <4>3. t.entries[p].key = j
        BY <4>1, <4>2
      <4> QED
        BY <4>3, <2>13, FoundThere, Zenon
    <3>3. Has(t, k)
      <4>1. t.cursor \in 1..map_size(t)
        BY <2>1, <2>2
      <4> QED
        BY <4>1, <2>4, FoundThere
    <3> QED
      BY <3>1, <3>2, <3>3
  <2>8. ASSUME NEW j \in Int, Has(m, j)
        PROVE  Value(t, j) = Value(m, j)
    <3>1. PICK i \in 1..n : m.entries[i].key = j
      BY <2>8, FoundSomewhere, Zenon DEF n
    <3>2. PICK p \in 1 .. n + 1 : t.entries[p] = m.entries[i]
      BY <2>5
    <3>3. Value(m, j) = m.entries[i].value
      BY <3>1, FoundThere, Zenon DEF n
    <3>4. t.entries[p].key = j
      BY <3>1, <3>2
    <3>5. Value(t, j) = t.entries[p].value
      BY <3>4, <2>13, FoundThere, Zenon
    <3> QED
      BY <3>2, <3>3, <3>5
  <2> DEFINE u == SetValue(t, v)
  <2>9. u \in Maps(V) /\ Value(u, k) = v
    BY <2>4, Assigned
  <2>10. \A j \in Int : Has(u, j) <=> Has(t, j)
    BY <2>4, Assigned
  <2>11. \A j \in Int : Has(t, j) /\ j # k => Value(u, j) = Value(t, j)
    BY <2>4, Assigned
  <2>12. s = u
    BY <2>1
  <2> HIDE DEF u
  <2> QED
    BY <2>7, <2>8, <2>9, <2>10, <2>11, <2>12, Zenon DEF s
<1> QED
  BY <1>1, <1>2
--------------------------------------------------------------------------------
LEMMA Maximum ==
    ASSUME NEW S, NEW m \in S, S \subseteq Int, \A x \in S : x <= m
    PROVE  Max(S) = m
<1>1. m \in S /\ \A y \in S : m >= y
  OBVIOUS
<1>2. \A x \in S : (\A y \in S : x >= y) => x = m
  OBVIOUS
<1> QED
  BY <1>1, <1>2 DEF Max

(* A finite set of numbers that is not empty has a greatest. *)
LEMMA MaximumExists ==
    ASSUME NEW S \in SUBSET Nat, S # {}, IsFiniteSet(S)
    PROVE  Max(S) \in S /\ \A x \in S : x <= Max(S)
<1> DEFINE B == {b \in Nat : \A x \in S : x <= b}
<1>1. B # {}
  <2> DEFINE D == SUBSET S
             size == [T \in D |-> Cardinality(T)]
             Good == {T \in D : \E b \in Nat : \A x \in T : x <= b}
  <2>1. \A T \in D : IsFiniteSet(T) /\ Cardinality(T) \in Nat
    BY FS_Subset, FS_CardinalityType
  <2>2. size \in [D -> Nat]
    BY <2>1
  <2>3. ASSUME NEW T \in D, \A U \in D : size[U] < size[T] => U \in Good
        PROVE  T \in Good
    <3>1. CASE T = {}
      BY <3>1
    <3>2. CASE T # {}
      <4>1. PICK y \in T : TRUE
        BY <3>2
      <4> DEFINE U == T \ {y}
      <4>2. U \in D /\ size[U] < size[T]
        <5>1. Cardinality(U) = Cardinality(T) - 1
          BY <2>1, <4>1, FS_RemoveElement
        <5>2. Cardinality(T) \in Nat /\ U \in D
          BY <2>1
        <5> QED
          BY <5>1, <5>2
      <4>3. PICK b \in Nat : \A x \in U : x <= b
        BY <2>3, <4>2
      <4>4. y \in Nat /\ T \in SUBSET Nat
        BY <4>1
      <4>5. CASE y <= b
        BY <4>3, <4>5
      <4>6. CASE b < y
        <5>1. \A x \in T : x <= y
          BY <4>3, <4>4, <4>6
        <5> QED
          BY <4>4, <5>1
      <4> QED
        BY <4>4, <4>5, <4>6
    <3> QED
      BY <3>1, <3>2
  <2> HIDE DEF D, size, Good
  <2>4. \A T \in D : T \in Good
    BY <2>2, <2>3, Induction
  <2> QED
    BY <2>4 DEF Good, D
<1>2. PICK b \in B : \A c \in B : b <= c
  <2>1. B \in SUBSET Nat
    OBVIOUS
  <2> HIDE DEF B
  <2> QED
    BY <1>1, <2>1, LeastNatural
<1>3. b \in Nat /\ \A x \in S : x <= b
  OBVIOUS
<1>4. b \in S
  <2> SUFFICES ASSUME b \notin S PROVE FALSE
    OBVIOUS
  <2>1. \A x \in S : x < b
    BY <1>3
  <2>2. b # 0
    <3>1. PICK x \in S : TRUE
      OBVIOUS
    <3> QED
      BY <3>1, <2>1
  <2>3. b - 1 \in B
    BY <1>3, <2>1, <2>2
  <2> HIDE DEF B
  <2> QED
    BY <1>2, <1>3, <2>3
<1> HIDE DEF B
<1>5. Max(S) = b
  <2>1. S \subseteq Int
    OBVIOUS
  <2> QED
    BY <2>1, <1>3, <1>4, Maximum
<1> QED
  BY <1>3, <1>4, <1>5

LEMMA MaximumUpTo ==
    ASSUME NEW n \in Nat, NEW S \in SUBSET (1..n), S # {}
    PROVE  Max(S) \in S /\ Max(S) \in 1..n
<1>1. IsFiniteSet(1..n)
  BY UpTo
<1>2. IsFiniteSet(S)
  BY <1>1, FS_Subset
<1>3. S \in SUBSET Nat
  OBVIOUS
<1>4. Max(S) \in S
  BY <1>2, <1>3, MaximumExists
<1> QED
  BY <1>4

(* A fold that puts n keys into a map, one after the other. *)
Puts(g, n, base, ks, vs) ==
    \A S \in SUBSET (1..n) :
        g[S] = IF S = {} THEN base ELSE Put(g[S \ {Max(S)}], ks[Max(S)], vs[Max(S)])

LEMMA PutsExist ==
    ASSUME NEW V, NEW n \in Nat, NEW base \in Maps(V), NEW ks \in [1..n -> Int], NEW vs \in [1..n -> V]
    PROVE  \E g \in [SUBSET (1..n) -> Maps(V)] : Puts(g, n, base, ks, vs)
<1> DEFINE D == SUBSET (1..n)
           W == Maps(V)
           size == [S \in D |-> Cardinality(S)]
           stop == {{}}
           value == [S \in D |-> base]
           next == [S \in D |-> S \ {Max(S)}]
           With(p) == IF p[1] = {} THEN base ELSE Put(p[2], ks[Max(p[1])], vs[Max(p[1])])
           Step == [p \in D \X W |-> With(p)]
<1>1. \A S \in D : IsFiniteSet(S) /\ Cardinality(S) \in Nat
  BY UpTo, FS_Subset, FS_CardinalityType
<1>2. \A S \in D : S # {} => Max(S) \in S
  <2> SUFFICES ASSUME NEW S \in D, S # {}
               PROVE  Max(S) \in S
    OBVIOUS
  <2>1. S \in SUBSET Nat
    OBVIOUS
  <2> QED
    BY <1>1, <2>1, MaximumExists
<1>3. size \in [D -> Nat] /\ stop \in SUBSET D /\ value \in [D -> W] /\ next \in [D -> D]
  BY <1>1
<1>4. Step \in [D \X W -> W]
  <2>1. ASSUME NEW S \in D, NEW m \in W, S # {}
        PROVE  Put(m, ks[Max(S)], vs[Max(S)]) \in W
    <3>1. Max(S) \in 1..n
      BY <1>2, <2>1
    <3>2. ks[Max(S)] \in Int /\ vs[Max(S)] \in V
      BY <3>1
    <3> QED
      BY <3>2, PutIs
  <2>2. \A p \in D \X W : With(p) \in W
    BY <2>1
  <2> HIDE DEF With, W, D
  <2> QED
    BY <2>2
<1>5. ASSUME NEW S \in D \ stop
      PROVE  size[next[S]] < size[S]
  <2>1. Max(S) \in S /\ S \in D /\ next[S] = S \ {Max(S)} /\ next[S] \in D
    BY <1>2, <1>3
  <2>2. Cardinality(S \ {Max(S)}) = Cardinality(S) - 1
    BY <1>1, <2>1, FS_RemoveElement
  <2> QED
    BY <1>1, <2>1, <2>2
<1>6. Descends(D, W, size, stop, value, next, Step)
  <2> HIDE DEF D, W, size, stop, value, next, Step
  <2> QED
    BY <1>3, <1>4, <1>5 DEF Descends
<1>7. PICK g \in [D -> W] : \A S \in D : g[S] = IF S \in stop THEN value[S] ELSE Step[<<S, g[next[S]]>>]
  <2> HIDE DEF D, W, size, stop, value, next, Step
  <2> QED
    BY <1>6, Recursion
<1>8. ASSUME NEW S \in D
      PROVE  g[S] = IF S = {} THEN base ELSE Put(g[S \ {Max(S)}], ks[Max(S)], vs[Max(S)])
  <2>1. CASE S = {}
    BY <1>7, <2>1
  <2>2. CASE S # {}
    <3>1. next[S] = S \ {Max(S)} /\ g[next[S]] \in W /\ S \notin stop
      BY <1>3, <2>2
    <3> DEFINE p == <<S, g[next[S]]>>
    <3>2. p \in D \X W /\ p[1] = S /\ p[2] = g[S \ {Max(S)}]
      BY <3>1
    <3>3. g[S] = Step[p]
      <4> HIDE DEF D, W, stop, value, next, Step
      <4> QED
        BY <1>7, <3>1
    <3>4. Step[p] = With(p)
      <4> HIDE DEF D, W, p, With
      <4> QED
        BY <3>2
    <3> HIDE DEF p, Step
    <3> QED
      BY <2>2, <3>2, <3>3, <3>4
  <2> QED
    BY <2>1, <2>2
<1> QED
  BY <1>8, Zenon DEF Puts

(* Of a key that is put more than once the last value counts.              *)
PutUpTo(m, k, base, ks, vs) ==
    /\ \A q \in Int : Has(m, q) <=> Has(base, q) \/ \E i \in 1..k : ks[i] = q
    /\ \A q \in Int : Has(base, q) /\ (\A i \in 1..k : ks[i] # q) => Value(m, q) = Value(base, q)
    /\ \A i \in 1..k : (\A j \in i + 1 .. k : ks[j] # ks[i]) => Value(m, ks[i]) = vs[i]

LEMMA PutAll ==
    ASSUME NEW V, NEW n \in Nat, NEW base \in Maps(V), NEW ks \in [1..n -> Int], NEW vs \in [1..n -> V],
           NEW g, Puts(g, n, base, ks, vs)
    PROVE  g[1..n] \in Maps(V) /\ PutUpTo(g[1..n], n, base, ks, vs)
<1> DEFINE D == 0..n
           size == [k \in D |-> k]
           Good == {k \in D : g[1..k] \in Maps(V) /\ PutUpTo(g[1..k], k, base, ks, vs)}
<1>1. 0 \in Good
  <2>1. 1..0 = {} /\ {} \in SUBSET (1..n)
    OBVIOUS
  <2>2. g[{}] = base
    BY <2>1, Zenon DEF Puts
  <2>3. PutUpTo(base, 0, base, ks, vs)
    BY <2>1 DEF PutUpTo
  <2> QED
    BY <2>1, <2>2, <2>3
<1>2. ASSUME NEW k \in D, k # 0, k - 1 \in Good
      PROVE  k \in Good
  <2> DEFINE l == k - 1
             old == g[1..l]
             new == g[1..k]
  <2>1. l \in Nat /\ k = l + 1 /\ k \in 1..n /\ k \in Nat
    BY <1>2
  <2>2. old \in Maps(V) /\ PutUpTo(old, l, base, ks, vs)
    BY <1>2
  <2>3. ks[k] \in Int /\ vs[k] \in V
    BY <2>1
  <2>4. new = Put(old, ks[k], vs[k])
    <3>1. 1..k \in SUBSET (1..n) /\ 1..k # {} /\ k \in 1..k /\ 1..k \subseteq Int
      <4>1. k \in 1..k /\ \A x \in 1..k : x \in 1..n /\ x \in Int
        <5> HIDE DEF D, Good, l, old, new
        <5> QED
          BY <2>1
      <4> QED
        BY <4>1
    <3>2. \A x \in 1..k : x <= k
      BY <2>1
    <3> DEFINE S == 1..k
    <3>3. Max(S) = k
      <4> HIDE DEF S, D
      <4>1. k \in S /\ S \subseteq Int /\ \A x \in S : x <= k
        BY <3>1, <3>2 DEF S
      <4> QED
        BY <4>1, Maximum
    <3>4. S \ {k} = 1..l
      BY <2>1
    <3>5. g[S] = IF S = {} THEN base ELSE Put(g[S \ {Max(S)}], ks[Max(S)], vs[Max(S)])
      BY <3>1, Zenon DEF Puts
    <3> HIDE DEF S
    <3>6. S = 1..k /\ S # {}
      BY <3>1 DEF S
    <3> QED
      BY <3>3, <3>4, <3>5, <3>6, Zenon
  <2> HIDE DEF Good, D, old, new, l
  <2>5. new \in Maps(V)
    BY <2>2, <2>3, <2>4, PutIs, Zenon
  <2>6. \A q \in Int : Has(new, q) <=> q = ks[k] \/ Has(old, q)
    BY <2>2, <2>3, <2>4, PutIs, Zenon
  <2>7. Value(new, ks[k]) = vs[k]
    BY <2>2, <2>3, <2>4, PutIs
  <2>8. \A q \in Int : q # ks[k] /\ Has(old, q) => Value(new, q) = Value(old, q)
    BY <2>2, <2>3, <2>4, PutIs
  <2>9. /\ \A q \in Int : Has(old, q) <=> Has(base, q) \/ \E i \in 1..l : ks[i] = q
        /\ \A q \in Int : Has(base, q) /\ (\A i \in 1..l : ks[i] # q) => Value(old, q) = Value(base, q)
        /\ \A i \in 1..l : (\A j \in i + 1 .. l : ks[j] # ks[i]) => Value(old, ks[i]) = vs[i]
    BY <2>2, Zenon DEF PutUpTo
  <2>10. \A i \in 1..k : i = k \/ i \in 1..l
    BY <2>1
  <2>11. k \in 1..k /\ \A i \in 1..l : i \in 1..k /\ i # k /\ k \in i + 1 .. k
    BY <2>1
  <2>12. \A i \in 1..l : \A j \in i + 1 .. l : j \in i + 1 .. k
    BY <2>1
  <2>13. \A i \in 1..l : ks[i] \in Int
    BY <2>1
  <2>14. \A q \in Int : Has(new, q) <=> Has(base, q) \/ \E i \in 1..k : ks[i] = q
    BY <2>6, <2>9, <2>10, <2>11, Zenon
  <2>15. \A q \in Int : Has(base, q) /\ (\A i \in 1..k : ks[i] # q) => Value(new, q) = Value(base, q)
    BY <2>8, <2>9, <2>11, Zenon
  <2>16. ASSUME NEW i \in 1..k, \A j \in i + 1 .. k : ks[j] # ks[i]
         PROVE  Value(new, ks[i]) = vs[i]
    <3>1. CASE i = k
      BY <3>1, <2>7
    <3>2. CASE i \in 1..l
      <4>1. ks[i] # ks[k]
        BY <3>2, <2>11, <2>16
      <4>2. Value(old, ks[i]) = vs[i]
        BY <3>2, <2>9, <2>12, <2>16, Zenon
      <4>3. Has(old, ks[i]) /\ ks[i] \in Int
        BY <3>2, <2>9, <2>13, Zenon
      <4> QED
        BY <4>1, <4>2, <4>3, <2>8, Zenon
    <3> QED
      BY <3>1, <3>2, <2>10
  <2>17. PutUpTo(new, k, base, ks, vs)
    BY <2>14, <2>15, <2>16, Zenon DEF PutUpTo
  <2> QED
    BY <2>5, <2>17 DEF Good, new
<1>3. ASSUME NEW k \in D, \A j \in D : size[j] < size[k] => j \in Good
      PROVE  k \in Good
  <2>1. CASE k = 0
    BY <1>1, <2>1
  <2>2. CASE k # 0
    <3>1. k - 1 \in D /\ size[k - 1] < size[k]
      BY <2>2
    <3> HIDE DEF D, Good, size
    <3> QED
      BY <3>1, <1>2, <1>3, <2>2
  <2> QED
    BY <2>1, <2>2
<1>4. size \in [D -> Nat] /\ n \in D
  OBVIOUS
<1> HIDE DEF D, Good, size
<1>5. \A k \in D : k \in Good
  BY <1>3, <1>4, Induction
<1>6. n \in Good
  BY <1>4, <1>5
<1> QED
  BY <1>6 DEF Good
--------------------------------------------------------------------------------
(* What is in a scope of a context. *)
VarType == {"none", "typedef", "template"}
Variable == [type : VarType, where : Nat, scope_id : Nat]
LeafType == [name : Nat, where : 1..MaxDepth]

Globals(globals) == FoldLeft(LAMBDA m, e : Put(m, e.key, e.value.where), map_new, globals.entries)

(* What is in the file's scope is in the map of names, as it is there. *)
LEMMA GlobalsFolded ==
    ASSUME NEW globals \in Maps(Variable)
    PROVE  /\ Globals(globals) \in Maps(Nat)
           /\ \A q \in Int : Has(globals, q) =>
                 Has(Globals(globals), q) /\ Value(Globals(globals), q) = Value(globals, q).where
<1> DEFINE es == globals.entries
           n == map_size(globals)
           ks == [i \in 1..n |-> es[i].key]
           vs == [i \in 1..n |-> es[i].value.where]
           Def(g) == g = [S \in SUBSET DOMAIN es |->
                             IF S = {} THEN map_new
                             ELSE LET x == Max(S)
                                  IN  Put(g[S \ {x}], es[x].key, es[x].value.where)]
<1>1. n \in Nat /\ DOMAIN es = 1..n
  BY MapType
<1>2. ks \in [1..n -> Int]
  <2>1. \A i \in 1..n : es[i].key \in Int
    BY MapType
  <2> QED
    BY <2>1
<1>3. vs \in [1..n -> Nat]
  <2>1. \A i \in 1..n : es[i].value \in Variable
    BY MapType
  <2>2. \A i \in 1..n : es[i].value.where \in Nat
    BY <2>1 DEF Variable
  <2> QED
    BY <2>2
<1>4. map_new \in Maps(Nat) /\ \A k \in Int : ~Has(map_new, k)
  BY NewMap
<1>5. \A i \in 1..n : ks[i] = es[i].key /\ vs[i] = es[i].value.where
  OBVIOUS
<1>6. \E g : Def(g)
  <2>1. PICK g \in [SUBSET (1..n) -> Maps(Nat)] : Puts(g, n, map_new, ks, vs)
    <3> HIDE DEF n, ks, vs
    <3> QED
      BY <1>1, <1>2, <1>3, <1>4, PutsExist
  <2>2. ASSUME NEW S \in SUBSET (1..n)
        PROVE  g[S] = IF S = {} THEN map_new
                      ELSE Put(g[S \ {Max(S)}], es[Max(S)].key, es[Max(S)].value.where)
    <3>1. CASE S = {}
      BY <2>1, <3>1, Zenon DEF Puts
    <3>2. CASE S # {}
      <4>2. Max(S) \in 1..n
        <5> HIDE DEF n
        <5> QED
          BY <1>1, <3>2, MaximumUpTo
      <4>3. ks[Max(S)] = es[Max(S)].key /\ vs[Max(S)] = es[Max(S)].value.where
        BY <1>5, <4>2, Zenon
      <4>4. g[S] = Put(g[S \ {Max(S)}], ks[Max(S)], vs[Max(S)])
        BY <2>1, <3>2, Zenon DEF Puts
      <4> QED
        BY <3>2, <4>3, <4>4, Zenon
    <3> QED
      BY <3>1, <3>2
  <2>3. g = [S \in SUBSET (1..n) |-> g[S]]
    OBVIOUS
  <2>4. g = [S \in SUBSET (1..n) |->
                IF S = {} THEN map_new
                ELSE Put(g[S \ {Max(S)}], es[Max(S)].key, es[Max(S)].value.where)]
    BY <2>2, <2>3, Zenon
  <2>5. Def(g)
    BY <2>4, <1>1, Zenon
  <2> QED
    BY <2>5, Zenon
<1>7. Globals(globals) = (CHOOSE g : Def(g))[DOMAIN es]
  BY Zenon DEF Globals, FoldLeft, MapThenFoldSet
<1> DEFINE h == CHOOSE g : Def(g)
<1>8. Def(h)
  BY <1>6, Zenon
<1>9. Puts(h, n, map_new, ks, vs)
  <2>1. ASSUME NEW S \in SUBSET (1..n)
        PROVE  h[S] = IF S = {} THEN map_new ELSE Put(h[S \ {Max(S)}], ks[Max(S)], vs[Max(S)])
    <3>1. h[S] = IF S = {} THEN map_new
                 ELSE Put(h[S \ {Max(S)}], es[Max(S)].key, es[Max(S)].value.where)
      <4>1. S \in SUBSET DOMAIN es
        BY <1>1
      <4> HIDE DEF h, es, n
      <4> QED
        BY <1>8, <4>1, Zenon
    <3>2. CASE S = {}
      BY <3>1, <3>2, Zenon
    <3>3. CASE S # {}
      <4>2. Max(S) \in 1..n
        <5> HIDE DEF n, h
        <5> QED
          BY <1>1, <3>3, MaximumUpTo
      <4>3. ks[Max(S)] = es[Max(S)].key /\ vs[Max(S)] = es[Max(S)].value.where
        BY <1>5, <4>2, Zenon
      <4> HIDE DEF h, ks, vs, n, es
      <4> QED
        BY <3>1, <3>3, <4>3, Zenon
    <3> QED
      BY <3>2, <3>3
  <2> QED
    BY <2>1, Zenon DEF Puts
<1>10. Globals(globals) = h[1..n]
  BY <1>1, <1>7, Zenon
<1> HIDE DEF h, ks, vs, n, es
<1>11. h[1..n] \in Maps(Nat) /\ PutUpTo(h[1..n], n, map_new, ks, vs)
  BY <1>1, <1>2, <1>3, <1>4, <1>9, PutAll, Zenon
<1>12. ASSUME NEW q \in Int, Has(globals, q)
       PROVE  Has(h[1..n], q) /\ Value(h[1..n], q) = Value(globals, q).where
  <2>1. PICK i \in 1..n : es[i].key = q
    BY <1>12, FoundSomewhere, Zenon DEF n, es
  <2>2. Value(globals, q) = es[i].value
    BY <2>1, FoundThere, Zenon DEF n, es
  <2>3. ks[i] = q /\ vs[i] = es[i].value.where
    BY <2>1, <1>5, Zenon
  <2>4. \A j \in i + 1 .. n : ks[j] # ks[i]
    <3>1. Ordered(es, n) /\ \A j \in 1..n : es[j].key \in Int
      BY MapType DEF es, n
    <3> SUFFICES ASSUME NEW j \in i + 1 .. n
                 PROVE  ks[j] # ks[i]
      OBVIOUS
    <3>2. j \in 1..n /\ i < j
      BY <1>1
    <3>3. es[i].key < es[j].key
      BY <3>1, <3>2, Zenon DEF Ordered
    <3>4. ks[i] \in Int /\ ks[j] \in Int /\ ks[i] < ks[j]
      BY <3>1, <3>2, <3>3, <1>5
    <3> QED
      BY <3>4
  <2>5. Value(h[1..n], ks[i]) = vs[i]
    BY <1>11, <2>4, Zenon DEF PutUpTo
  <2>6. Has(h[1..n], q)
    BY <1>11, <2>3, Zenon DEF PutUpTo
  <2> QED
    BY <2>2, <2>3, <2>5, <2>6
<1> QED
  BY <1>10, <1>11, <1>12, Zenon

(* The map of names is the file's scope with the leaves put over it. *)
LEMMA MapOfNames ==
    ASSUME NEW globals \in Maps(Variable), NEW list \in Seq(LeafType)
    PROVE  /\ variable_map(globals, list) \in Maps(Nat)
           /\ \A i \in DOMAIN list :
                 (\A j \in DOMAIN list : list[j].name = list[i].name => i = j) =>
                     Value(variable_map(globals, list), list[i].name) = list[i].where
           /\ \A q \in Int : Has(globals, q) /\ (\A i \in DOMAIN list : list[i].name # q) =>
                 Value(variable_map(globals, list), q) = Value(globals, q).where
<1> DEFINE n == Len(list)
           base == Globals(globals)
           ks == [i \in 1..n |-> list[i].name]
           vs == [i \in 1..n |-> list[i].where]
           Def(g) == g = [S \in SUBSET DOMAIN list |->
                             IF S = {} THEN base
                             ELSE LET x == Max(S)
                                  IN  Put(g[S \ {x}], list[x].name, list[x].where)]
<1>1. n \in Nat /\ DOMAIN list = 1..n
  OBVIOUS
<1>2. \A i \in 1..n : list[i].name \in Nat /\ list[i].where \in Nat
  <2>1. \A i \in 1..n : list[i] \in LeafType
    BY <1>1, ElementOfSeq
  <2> QED
    BY <2>1, BoundsAssumption DEF LeafType
<1>3. ks \in [1..n -> Int] /\ vs \in [1..n -> Nat]
  <2> HIDE DEF n
  <2> QED
    BY <1>2
<1>4. base \in Maps(Nat)
  BY GlobalsFolded
<1>5. \A i \in 1..n : ks[i] = list[i].name /\ vs[i] = list[i].where
  OBVIOUS
<1>6. \E g : Def(g)
  <2>1. PICK g \in [SUBSET (1..n) -> Maps(Nat)] : Puts(g, n, base, ks, vs)
    <3> HIDE DEF n, ks, vs, base
    <3> QED
      BY <1>1, <1>3, <1>4, PutsExist
  <2>2. ASSUME NEW S \in SUBSET (1..n)
        PROVE  g[S] = IF S = {} THEN base ELSE Put(g[S \ {Max(S)}], list[Max(S)].name, list[Max(S)].where)
    <3>1. CASE S = {}
      BY <2>1, <3>1, Zenon DEF Puts
    <3>2. CASE S # {}
      <4>1. Max(S) \in 1..n
        <5> HIDE DEF n, base
        <5> QED
          BY <1>1, <3>2, MaximumUpTo
      <4>2. ks[Max(S)] = list[Max(S)].name /\ vs[Max(S)] = list[Max(S)].where
        BY <1>5, <4>1, Zenon
      <4>3. g[S] = Put(g[S \ {Max(S)}], ks[Max(S)], vs[Max(S)])
        BY <2>1, <3>2, Zenon DEF Puts
      <4> QED
        BY <3>2, <4>2, <4>3, Zenon
    <3> QED
      BY <3>1, <3>2
  <2>3. g = [S \in SUBSET (1..n) |-> g[S]]
    OBVIOUS
  <2>4. g = [S \in SUBSET (1..n) |->
                IF S = {} THEN base ELSE Put(g[S \ {Max(S)}], list[Max(S)].name, list[Max(S)].where)]
    BY <2>2, <2>3, Zenon
  <2>5. Def(g)
    BY <2>4, <1>1, Zenon
  <2> QED
    BY <2>5, Zenon
<1> DEFINE h == CHOOSE g : Def(g)
<1>7. variable_map(globals, list) = h[DOMAIN list]
  BY Zenon DEF variable_map, Globals, FoldLeft, MapThenFoldSet
<1>8. Def(h)
  BY <1>6, Zenon
<1>9. ASSUME NEW S \in SUBSET (1..n)
      PROVE  h[S] = IF S = {} THEN base ELSE Put(h[S \ {Max(S)}], ks[Max(S)], vs[Max(S)])
  <2>1. h[S] = IF S = {} THEN base ELSE Put(h[S \ {Max(S)}], list[Max(S)].name, list[Max(S)].where)
    <3>1. S \in SUBSET DOMAIN list
      BY <1>1
    <3> HIDE DEF h, n, base
    <3> QED
      BY <1>8, <3>1, Zenon
  <2> HIDE DEF h, ks, vs, n, base
  <2>2. CASE S = {}
    BY <2>1, <2>2, Zenon
  <2>3. CASE S # {}
    <3>1. Max(S) \in 1..n
      BY <1>1, <2>3, MaximumUpTo
    <3>2. ks[Max(S)] = list[Max(S)].name /\ vs[Max(S)] = list[Max(S)].where
      BY <1>5, <3>1, Zenon
    <3> QED
      BY <2>1, <2>3, <3>2, Zenon
  <2> QED
    BY <2>2, <2>3
<1>10. Puts(h, n, base, ks, vs)
  BY <1>9, Zenon DEF Puts
<1>11. variable_map(globals, list) = h[1..n]
  BY <1>1, <1>7, Zenon
<1> HIDE DEF h, ks, vs, n, base
<1> DEFINE m == variable_map(globals, list)
<1>12. m \in Maps(Nat) /\ PutUpTo(m, n, base, ks, vs)
  <2>1. n \in Nat
    BY <1>1
  <2>2. ks \in [1..n -> Int]
    BY <1>3
  <2>3. vs \in [1..n -> Nat]
    BY <1>3
  <2>4. h[1..n] \in Maps(Nat) /\ PutUpTo(h[1..n], n, base, ks, vs)
    BY <2>1, <2>2, <2>3, <1>4, <1>10, PutAll, Zenon
  <2> QED
    BY <2>4, <1>11, Zenon
<1> HIDE DEF m
<1>13. ASSUME NEW i \in DOMAIN list, \A j \in DOMAIN list : list[j].name = list[i].name => i = j
       PROVE  Value(m, list[i].name) = list[i].where
  <2>1. i \in 1..n /\ ks[i] = list[i].name /\ vs[i] = list[i].where
    BY <1>1, <1>5, Zenon
  <2>2. \A j \in i + 1 .. n : ks[j] # ks[i]
    <3> SUFFICES ASSUME NEW j \in i + 1 .. n, ks[j] = ks[i]
                 PROVE  FALSE
      OBVIOUS
    <3>1. j \in 1..n /\ i # j
      BY <1>1, <2>1
    <3> QED
      BY <1>1, <1>5, <1>13, <2>1, <3>1, Zenon
  <2>3. Value(m, ks[i]) = vs[i]
    BY <1>12, <2>1, <2>2, Zenon DEF PutUpTo
  <2> QED
    BY <2>1, <2>3
<1>14. ASSUME NEW q \in Int, Has(globals, q), \A i \in DOMAIN list : list[i].name # q
       PROVE  Value(m, q) = Value(globals, q).where
  <2>1. Has(base, q) /\ Value(base, q) = Value(globals, q).where
    BY <1>14, GlobalsFolded, Zenon DEF base
  <2>2. \A i \in 1..n : ks[i] # q
    BY <1>1, <1>5, <1>14, Zenon
  <2> QED
    BY <1>12, <2>1, <2>2, Zenon DEF PutUpTo
<1> QED
  BY <1>12, <1>13, <1>14, Zenon DEF m
--------------------------------------------------------------------------------
ScopeType == [variables : Maps(Variable), tagged : Maps(Nat), func : BOOLEAN, scope_id : Nat]
CScope == [kind : Kinds, tag : Names \union {NoTag}, names : SUBSET Names, tags : SUBSET Names]

(* A scope in which names N are declared, as v, where they were not yet. *)
Grown(old, new, N, v) ==
    /\ new \in ScopeType
    /\ new.tagged = old.tagged /\ new.func = old.func /\ new.scope_id = old.scope_id
    /\ \A q \in Int : Has(new.variables, q) <=> q \in N \/ Has(old.variables, q)
    /\ \A q \in Int : Has(old.variables, q) => Value(new.variables, q) = Value(old.variables, q)
    /\ \A q \in N : ~Has(old.variables, q) => Value(new.variables, q) = v

LEMMA LastOfAppend ==
    ASSUME NEW S, NEW t \in Seq(S), NEW x \in S
    PROVE  /\ Append(t, x) \in Seq(S) /\ Len(Append(t, x)) = Len(t) + 1 /\ Len(t) \in Nat
           /\ Last(Append(t, x)) = x
           /\ \A i \in 1..Len(t) : Append(t, x)[i] = t[i]
           /\ Append(t, x)[Len(t) + 1] = x
BY DEF Last

LEMMA ReplaceLast ==
    ASSUME NEW S, NEW t \in Seq(S), NEW x \in S, NEW y \in S
    PROVE  [Append(t, x) EXCEPT ![Len(Append(t, x))] = y] = Append(t, y)
<1> DEFINE a == Append(t, x)
           b == Append(t, y)
           n == Len(t) + 1
           c == [a EXCEPT ![n] = y]
<1>1. a \in Seq(S) /\ b \in Seq(S) /\ Len(a) = n /\ Len(b) = n /\ n \in Nat /\ n \in 1..n
  BY LastOfAppend
<1>2. c \in Seq(S) /\ Len(c) = n /\ \A j \in 1..n : c[j] = IF j = n THEN y ELSE a[j]
  <2> HIDE DEF a, n, c
  <2> QED
    BY <1>1, ExceptSeq DEF c
<1>3. \A j \in 1..n : j # n => a[j] = b[j]
  BY LastOfAppend
<1>4. b[n] = y
  BY LastOfAppend
<1> HIDE DEF a, b, n, c
<1>5. \A j \in 1..n : c[j] = b[j]
  BY <1>2, <1>3, <1>4
<1>6. c = b
  BY <1>1, <1>2, <1>5, SeqEqual
<1> QED
  BY <1>1, <1>6 DEF a, b, c

(* A declaration in the scope that is last. *)
LEMMA DeclaredInLast ==
    ASSUME NEW t \in Seq(ScopeType), NEW sc \in ScopeType, NEW q \in Int, NEW type \in VarType,
           NEW argument \in BOOLEAN, NEW where \in Nat
    PROVE  \E new \in ScopeType :
              /\ jitc_declare_variable(Append(t, sc), q, type, argument, where) = Append(t, new)
              /\ Grown(sc, new, {q}, [type |-> type, where |-> where,
                                      scope_id |-> IF argument THEN 0 ELSE sc.scope_id])
<1> DEFINE v == [type |-> type, where |-> where, scope_id |-> IF argument THEN 0 ELSE sc.scope_id]
           a == Append(t, sc)
<1>1. /\ sc.variables \in Maps(Variable) /\ sc.tagged \in Maps(Nat) /\ sc.func \in BOOLEAN
      /\ sc.scope_id \in Nat
  BY DEF ScopeType
<1>2. v \in Variable
  BY <1>1 DEF Variable
<1>3. Last(a) = sc /\ a \in Seq(ScopeType) /\ Len(a) \in 1..Len(a)
  BY LastOfAppend
<1>4. CASE Has(sc.variables, q)
  <2>1. jitc_declare_variable(a, q, type, argument, where) = a
    BY <1>3, <1>4 DEF jitc_declare_variable
  <2>2. Grown(sc, sc, {q}, v)
    BY <1>4 DEF Grown
  <2> QED
    BY <2>1, <2>2
<1>5. CASE ~Has(sc.variables, q)
  <2> DEFINE p == Put(sc.variables, q, v)
             new == [sc EXCEPT !.variables = p]
  <2>1. p \in Maps(Variable)
    BY <1>1, <1>2, PutIs
  <2>2. \A j \in Int : Has(p, j) <=> j = q \/ Has(sc.variables, j)
    BY <1>1, <1>2, PutIs
  <2>3. Value(p, q) = v
    BY <1>1, <1>2, PutIs
  <2>4. \A j \in Int : j # q /\ Has(sc.variables, j) => Value(p, j) = Value(sc.variables, j)
    BY <1>1, <1>2, PutIs
  <2>5. jitc_declare_variable(a, q, type, argument, where)
        = [a EXCEPT ![Len(a)].variables = Put(@, q, v)]
    BY <1>3, <1>5 DEF jitc_declare_variable
  <2>6. [a EXCEPT ![Len(a)].variables = Put(@, q, v)] = [a EXCEPT ![Len(a)] = new]
    <3>1. a[Len(a)] = sc
      BY <1>3 DEF Last
    <3> HIDE DEF a, v
    <3> QED
      BY <3>1
  <2> HIDE DEF p
  <2>7. /\ new \in ScopeType /\ new.variables = p /\ new.tagged = sc.tagged /\ new.func = sc.func
        /\ new.scope_id = sc.scope_id
    BY <2>1 DEF ScopeType
  <2> HIDE DEF new, v
  <2>8. [a EXCEPT ![Len(a)] = new] = Append(t, new)
    BY <2>7, ReplaceLast
  <2>9. Grown(sc, new, {q}, v)
    BY <1>5, <2>2, <2>3, <2>4, <2>7 DEF Grown
  <2> HIDE DEF a
  <2>10. jitc_declare_variable(a, q, type, argument, where) = Append(t, new)
    BY <2>5, <2>6, <2>8
  <2> QED
    BY <2>7, <2>9, <2>10 DEF v, a
<1> QED
  BY <1>4, <1>5

LEMMA GrownTwice ==
    ASSUME NEW old \in ScopeType, NEW mid, NEW new, NEW A \in SUBSET Int, NEW B \in SUBSET Int, NEW v,
           Grown(old, mid, A, v), Grown(mid, new, B, v)
    PROVE  Grown(old, new, A \union B, v)
<1>1. \A q \in Int : Has(new.variables, q) <=> q \in A \union B \/ Has(old.variables, q)
  BY DEF Grown
<1>2. \A q \in Int : Has(old.variables, q) => Value(new.variables, q) = Value(old.variables, q)
  BY DEF Grown
<1>3. \A q \in A \union B : ~Has(old.variables, q) => Value(new.variables, q) = v
  BY DEF Grown
<1>4. /\ new \in ScopeType /\ new.tagged = old.tagged /\ new.func = old.func
      /\ new.scope_id = old.scope_id
  BY DEF Grown
<1> QED
  BY <1>1, <1>2, <1>3, <1>4 DEF Grown

(* Declarations of all of a set of names, in whatever order. *)
LEMMA AllDeclared ==
    ASSUME NEW t \in Seq(ScopeType), NEW sc \in ScopeType, NEW names \in SUBSET Names,
           NEW type \in VarType, NEW argument \in BOOLEAN, NEW where \in Nat
    PROVE  \E new \in ScopeType :
              /\ DeclareAll(Append(t, sc), names, type, argument, where) = Append(t, new)
              /\ Grown(sc, new, names, [type |-> type, where |-> where,
                                        scope_id |-> IF argument THEN 0 ELSE sc.scope_id])
<1> DEFINE v == [type |-> type, where |-> where, scope_id |-> IF argument THEN 0 ELSE sc.scope_id]
           D == SUBSET names
           V == {Append(t, c) : c \in ScopeType}
           size == [S \in D |-> Cardinality(S)]
           stop == {{}}
           value == [S \in D |-> Append(t, sc)]
           any(S) == CHOOSE x \in S : TRUE
           next == [S \in D |-> S \ {any(S)}]
           With(p) == IF p[1] = {} THEN Append(t, sc)
                      ELSE jitc_declare_variable(p[2], any(p[1]), type, argument, where)
           Step == [p \in D \X V |-> With(p)]
           Def(g) == g = [S \in SUBSET names |->
                             IF S = {} THEN Append(t, sc)
                             ELSE LET x == CHOOSE x \in S : TRUE
                                  IN  jitc_declare_variable(g[S \ {x}], x, type, argument, where)]
<1>1. \A S \in D : IsFiniteSet(S) /\ Cardinality(S) \in Nat
  BY NamesAssumption, FS_Subset, FS_CardinalityType
<1>2. \A S \in D : S # {} => any(S) \in S /\ any(S) \in Int
  <2>1. \A S \in D : S # {} => any(S) \in S
    OBVIOUS
  <2>2. \A S \in D : \A x \in S : x \in Int
    BY NamesAssumption
  <2> QED
    BY <2>1, <2>2, Zenon
<1>3. size \in [D -> Nat] /\ stop \in SUBSET D /\ value \in [D -> V] /\ next \in [D -> D]
  BY <1>1
<1>4. Step \in [D \X V -> V]
  <2>1. ASSUME NEW S \in D, NEW m \in V, S # {}
        PROVE  jitc_declare_variable(m, any(S), type, argument, where) \in V
    <3>1. PICK c \in ScopeType : m = Append(t, c)
      OBVIOUS
    <3> DEFINE x == any(S)
    <3>2. x \in Int
      BY <1>2, <2>1
    <3> HIDE DEF x
    <3>3. PICK new \in ScopeType :
             /\ jitc_declare_variable(Append(t, c), x, type, argument, where) = Append(t, new)
             /\ Grown(c, new, {x}, [type |-> type, where |-> where,
                                   scope_id |-> IF argument THEN 0 ELSE c.scope_id])
      BY <3>2, DeclaredInLast
    <3>4. jitc_declare_variable(m, x, type, argument, where) = Append(t, new)
      BY <3>1, <3>3, Zenon
    <3> QED
      BY <3>4, Zenon DEF x
  <2>2. \A p \in D \X V : With(p) \in V
    <3>1. Append(t, sc) \in V
      OBVIOUS
    <3> HIDE DEF any, V, D
    <3> QED
      BY <2>1, <3>1
  <2> HIDE DEF With, V, D
  <2> QED
    BY <2>2
<1>5. ASSUME NEW S \in D \ stop
      PROVE  size[next[S]] < size[S]
  <2>1. any(S) \in S /\ S \in D /\ next[S] = S \ {any(S)} /\ next[S] \in D
    BY <1>2, <1>3
  <2>2. Cardinality(S \ {any(S)}) = Cardinality(S) - 1
    BY <1>1, <2>1, FS_RemoveElement
  <2> QED
    BY <1>1, <2>1, <2>2
<1>6. Descends(D, V, size, stop, value, next, Step)
  <2> HIDE DEF D, V, size, stop, value, next, Step
  <2> QED
    BY <1>3, <1>4, <1>5 DEF Descends
<1>7. PICK g \in [D -> V] : \A S \in D : g[S] = IF S \in stop THEN value[S] ELSE Step[<<S, g[next[S]]>>]
  <2> HIDE DEF D, V, size, stop, value, next, Step
  <2> QED
    BY <1>6, Recursion
<1>8. ASSUME NEW S \in D
      PROVE  g[S] = IF S = {} THEN Append(t, sc)
                    ELSE jitc_declare_variable(g[S \ {any(S)}], any(S), type, argument, where)
  <2>1. CASE S = {}
    BY <1>7, <2>1
  <2>2. CASE S # {}
    <3>1. next[S] = S \ {any(S)} /\ g[next[S]] \in V /\ S \notin stop
      BY <1>3, <2>2
    <3> DEFINE p == <<S, g[next[S]]>>
    <3>2. p \in D \X V /\ p[1] = S /\ p[2] = g[S \ {any(S)}]
      <4> HIDE DEF D, V, any, next
      <4> QED
        BY <3>1
    <3>3. g[S] = Step[p]
      <4> HIDE DEF D, V, stop, value, next, Step
      <4> QED
        BY <1>7, <3>1
    <3>4. Step[p] = With(p)
      <4> HIDE DEF D, V, p, With
      <4> QED
        BY <3>2
    <3> HIDE DEF p, Step
    <3> QED
      BY <2>2, <3>2, <3>3, <3>4
  <2> QED
    BY <2>1, <2>2
<1>9. \E h : Def(h)
  <2>1. g = [S \in D |-> g[S]]
    OBVIOUS
  <2>2. Def(g)
    BY <1>8, <2>1, Zenon
  <2> QED
    BY <2>2, Zenon
<1>10. DeclareAll(Append(t, sc), names, type, argument, where) = (CHOOSE h : Def(h))[names]
  BY Zenon DEF DeclareAll, FoldSet, MapThenFoldSet
<1> DEFINE h == CHOOSE h : Def(h)
<1>11. Def(h)
  BY <1>9, Zenon
<1>12. \A S \in D : h[S] = IF S = {} THEN Append(t, sc)
                           ELSE jitc_declare_variable(h[S \ {any(S)}], any(S), type, argument, where)
  <2> HIDE DEF h
  <2> QED
    BY <1>11, Zenon
<1> DEFINE Good == {S \in D : \E new \in ScopeType : h[S] = Append(t, new) /\ Grown(sc, new, S, v)}
<1>13. ASSUME NEW S \in D, \A R \in D : size[R] < size[S] => R \in Good
       PROVE  S \in Good
  <2>1. CASE S = {}
    <3>1. h[S] = Append(t, sc)
      BY <1>12, <2>1, Zenon
    <3>2. Grown(sc, sc, S, v)
      BY <2>1 DEF Grown
    <3> HIDE DEF h, v
    <3> QED
      BY <3>1, <3>2
  <2>2. CASE S # {}
    <3> DEFINE x == any(S)
               R == S \ {x}
    <3>1. x \in S /\ x \in Int /\ R \in D
      BY <1>2, <2>2
    <3>2. R \in Good
      BY <1>3, <1>5, <1>13, <2>2, <3>1
    <3>3. h[S] = jitc_declare_variable(h[R], x, type, argument, where)
      <4> HIDE DEF h, D
      <4> QED
        BY <1>12, <2>2, Zenon
    <3>4. PICK mid \in ScopeType : h[R] = Append(t, mid) /\ Grown(sc, mid, R, v)
      <4> HIDE DEF h, v, R
      <4> QED
        BY <3>2
    <3> HIDE DEF h, x, any, R
    <3>5. PICK new \in ScopeType :
             /\ jitc_declare_variable(Append(t, mid), x, type, argument, where) = Append(t, new)
             /\ Grown(mid, new, {x}, [type |-> type, where |-> where,
                                      scope_id |-> IF argument THEN 0 ELSE mid.scope_id])
      BY <3>1, DeclaredInLast
    <3>6. mid.scope_id = sc.scope_id
      BY <3>4 DEF Grown
    <3>7. Grown(mid, new, {x}, v)
      BY <3>5, <3>6
    <3>8. R \union {x} = S /\ R \in SUBSET Int /\ {x} \in SUBSET Int
      BY <3>1, NamesAssumption DEF R
    <3> HIDE DEF v
    <3>9. Grown(sc, new, S, v)
      <4>1. Grown(sc, new, R \union {x}, v)
        BY <3>4, <3>7, <3>8, GrownTwice
      <4> QED
        BY <4>1, <3>8
    <3>10. h[S] = Append(t, new)
      BY <3>3, <3>4, <3>5, Zenon
    <3> QED
      BY <3>9, <3>10
  <2> QED
    BY <2>1, <2>2
<1>14. \A S \in D : S \in Good
  <2>1. size \in [D -> Nat]
    BY <1>3
  <2> HIDE DEF D, size, Good, V, stop, value, next, Step, With, any, h, v
  <2> QED
    BY <2>1, <1>13, Induction
<1>15. names \in Good
  BY <1>14
<1> HIDE DEF h, v
<1>16. PICK new \in ScopeType : h[names] = Append(t, new) /\ Grown(sc, new, names, v)
  BY <1>15
<1> QED
  BY <1>10, <1>16 DEF h, v

(* The list that is made of a finite set has each of its elements once. *)
LEMMA Listed ==
    ASSUME NEW S, IsFiniteSet(S)
    PROVE  /\ SetToSeq(S) \in Seq(S)
           /\ \A i, j \in DOMAIN SetToSeq(S) : SetToSeq(S)[i] = SetToSeq(S)[j] => i = j
           /\ \A x \in S : \E i \in DOMAIN SetToSeq(S) : SetToSeq(S)[i] = x
<1> DEFINE n == Cardinality(S)
           f == SetToSeq(S)
<1>1. n \in Nat /\ ExistsBijection(1..n, S)
  BY FS_CardinalityType
<1>2. \E g \in [1..n -> S] : IsInjective(g)
  <2> HIDE DEF n
  <2> QED
    BY <1>1 DEF ExistsBijection, Bijection, Injection
<1>3. f \in [1..n -> S] /\ IsInjective(f)
  BY <1>2, Zenon DEF SetToSeq
<1> HIDE DEF f
<1>4. f \in Injection(1..n, S)
  BY <1>3, Zenon DEF Injection
<1>5. f \in Surjection(1..n, S)
  <2>1. Cardinality(1..n) = n
    <3> HIDE DEF n
    <3> QED
      BY <1>1, UpTo
  <2> DEFINE T == 1..n
  <2>2. Cardinality(T) = Cardinality(S) <=> f \in Surjection(T, S)
    <3>1. f \in Injection(T, S)
      BY <1>4
    <3> HIDE DEF T, n
    <3> QED
      BY <3>1, FS_Injection
  <2> QED
    BY <2>1, <2>2
<1> HIDE DEF n
<1>6. DOMAIN f = 1..n /\ f \in Seq(S)
  BY <1>1, <1>3
<1>7. \A x \in S : \E i \in 1..n : f[i] = x
  BY <1>5 DEF Surjection
<1>8. \A i, j \in 1..n : f[i] = f[j] => i = j
  BY <1>3, <1>6 DEF IsInjective
<1> QED
  BY <1>6, <1>7, <1>8 DEF f

(* The name of what is local is nobody else's: no other name's, and no     *)
(* other scope's.                                                          *)
LEMMA ScopedOnce ==
    ASSUME NEW p \in Names, NEW q \in Names, NEW i \in Nat, NEW j \in Nat
    PROVE  /\ jitc_scoped_name(p, i) \in Nat /\ jitc_scoped_name(p, 0) = p
           /\ jitc_scoped_name(p, i) = jitc_scoped_name(q, j) => p = q /\ i = j
<1> DEFINE k == Max(Names)
<1>1. /\ p \in Nat /\ q \in Nat /\ 1 <= p /\ 1 <= q /\ k \in Nat /\ p <= k /\ q <= k
  <2>1. Names \in SUBSET Nat /\ \A x \in Names : x \in Nat /\ 1 <= x
    BY NamesAssumption
  <2>2. k \in Names /\ \A x \in Names : x <= k
    BY <2>1, NamesAssumption, MaximumExists
  <2> HIDE DEF k
  <2> QED
    BY <2>1, <2>2
<1> DEFINE l == k + 1
<1>2. jitc_scoped_name(p, i) = i * l + p /\ jitc_scoped_name(q, j) = j * l + q
      /\ jitc_scoped_name(p, 0) = 0 * l + p
  BY DEF jitc_scoped_name
<1>3. l \in Nat /\ p < l /\ q < l
  <2> HIDE DEF k
  <2> QED
    BY <1>1
<1> HIDE DEF k, l
<1>4. i * l \in Nat /\ j * l \in Nat /\ 0 * l = 0
  BY <1>3
<1>5. \A a, b \in Nat : a < b => a * l + l <= b * l
  <2> SUFFICES ASSUME NEW a \in Nat, NEW b \in Nat, a < b
               PROVE  a * l + l <= b * l
    OBVIOUS
  <2>1. PICK c \in Nat : b = a + 1 + c
    <3>1. b - a - 1 \in Nat /\ b = a + 1 + (b - a - 1)
      OBVIOUS
    <3> QED
      BY <3>1
  <2>2. b * l = a * l + l + c * l /\ c * l \in Nat /\ a * l \in Nat
    BY <2>1, <1>3
  <2> QED
    BY <2>2, <1>3
<1>6. ASSUME i * l + p = j * l + q
      PROVE  i = j
  <2>1. ~(i < j)
    <3>1. i < j => i * l + l <= j * l
      BY <1>5
    <3> QED
      BY <3>1, <1>1, <1>3, <1>4, <1>6
  <2>2. ~(j < i)
    <3>1. j < i => j * l + l <= i * l
      BY <1>5
    <3> QED
      BY <3>1, <1>1, <1>3, <1>4, <1>6
  <2> QED
    BY <2>1, <2>2
<1>7. ASSUME i * l + p = j * l + q
      PROVE  p = q /\ i = j
  <2>1. i = j
    BY <1>6, <1>7
  <2> QED
    BY <2>1, <1>1, <1>4, <1>7
<1> QED
  BY <1>1, <1>2, <1>4, <1>7


(* How many functions are open at a depth: the number of the last of them. *)
Owner(e, d) == Cardinality({k \in 1..d : e[k].kind \in Functions})

Typed(s, n, l, e) ==
    /\ s \in Seq(ScopeType) /\ n \in Nat /\ l \in Seq(Seq(LeafType)) /\ e \in Seq(CScope)
    /\ Len(s) = Len(e) /\ Len(e) \in 1..MaxDepth

(* No scope that is open has the id of another, nor one that is still to   *)
(* be given: the file's is 0.                                              *)
Numbered(s, n) ==
    /\ s[1].scope_id = 0
    /\ \A d \in 1..Len(s) : s[d].scope_id <= n
    /\ \A d, f \in 1..Len(s) : d < f => s[d].scope_id < s[f].scope_id

(* The tags of a scope are those C has declared at its depth, but for a    *)
(* struct that is defined in another one.                                  *)
TagsMatch(sc, c, d) ==
    "nested" \notin Forms =>
        \A q \in Names : /\ Has(sc.tagged, q) <=> q \in c.tags
                         /\ Has(sc.tagged, q) => Value(sc.tagged, q) = d

(* A scope holds what C has declared in it, under its own id or, if it is  *)
(* an argument, that of the file.                                          *)
Matches(sc, c, d) ==
    /\ sc.func <=> c.kind = "lambda"
    /\ \A q \in Names : Has(sc.variables, q) <=> q \in c.names
    /\ \A q \in Names : Has(sc.variables, q) =>
          Value(sc.variables, q).where = d /\ Value(sc.variables, q).scope_id \in {0, sc.scope_id}
    /\ TagsMatch(sc, c, d)

(* Functions that are not lambdas stand in the file. *)
Placed(c, d) == (c.kind = "file" <=> d = 1) /\ (c.kind \in {"function", "instance"} => d = 2)

(* A leaf is for an argument of the function, or for a declaration in a    *)
(* scope, which has it for as long as it is open.                          *)
IsArgument(leaf, s, e, f) ==
    \E q \in Names, d \in 1..Len(s) :
        Owner(e, d) = f /\ e[d].kind \in Functions /\ leaf.name = q /\ Has(s[d].variables, q)

IsLocal(leaf, s, n) ==
    \E q \in Names, i \in 1..n :
        /\ leaf.name = jitc_scoped_name(q, i)
        /\ \A d \in 1..Len(s) : s[d].scope_id = i => Has(s[d].variables, q)

(* The list of the f-th function that is open has every variable that is   *)
(* declared in it, and no name twice.                                      *)
Stored(list, s, e, f, n) ==
    /\ \A i, j \in DOMAIN list : list[i].name = list[j].name => i = j
    /\ \A d \in 1..Len(s) : Owner(e, d) = f =>
          \A q \in Names : Has(s[d].variables, q) /\ Value(s[d].variables, q).type = "none" =>
              \E i \in DOMAIN list : list[i] = Leaf(q, Value(s[d].variables, q).scope_id, d)
    /\ \A i \in DOMAIN list : IsArgument(list[i], s, e, f) \/ IsLocal(list[i], s, n)

Inv(s, n, l, e) ==
    /\ Typed(s, n, l, e) /\ Numbered(s, n)
    /\ \A d \in 1..Len(s) : Matches(s[d], e[d], d) /\ Placed(e[d], d)
    /\ Len(l) = Owner(e, Len(e))
    /\ \A f \in 1..Len(l) : Stored(l[f], s, e, f, n)
--------------------------------------------------------------------------------
LEMMA OwnerType ==
    ASSUME NEW e, NEW d \in Nat
    PROVE  /\ Owner(e, d) \in Nat /\ IsFiniteSet({k \in 1..d : e[k].kind \in Functions})
           /\ Owner(e, 0) = 0
<1>1. IsFiniteSet(1..d)
  BY UpTo
<1> DEFINE S == {k \in 1..d : e[k].kind \in Functions}
<1>2. IsFiniteSet(S)
  BY <1>1, FS_Subset
<1>3. Cardinality(S) \in Nat
  BY <1>2, FS_CardinalityType
<1>4. {k \in 1..0 : e[k].kind \in Functions} = {}
  OBVIOUS
<1>5. Cardinality({}) = 0
  BY FS_EmptySet
<1> QED
  BY <1>2, <1>3, <1>4, <1>5 DEF Owner

LEMMA OwnerSame ==
    ASSUME NEW e, NEW c, NEW d \in Nat, \A k \in 1..d : e[k].kind \in Functions <=> c[k].kind \in Functions
    PROVE  Owner(e, d) = Owner(c, d)
<1>1. {k \in 1..d : e[k].kind \in Functions} = {k \in 1..d : c[k].kind \in Functions}
  OBVIOUS
<1> QED
  BY <1>1 DEF Owner

LEMMA OwnerNext ==
    ASSUME NEW e, NEW d \in Nat
    PROVE  Owner(e, d + 1) = IF e[d + 1].kind \in Functions THEN Owner(e, d) + 1 ELSE Owner(e, d)
<1> DEFINE S(n) == {k \in 1..n : e[k].kind \in Functions}
<1>1. IsFiniteSet(S(d))
  BY OwnerType
<1>2. S(d + 1) = IF e[d + 1].kind \in Functions THEN S(d) \union {d + 1} ELSE S(d)
  OBVIOUS
<1>3. d + 1 \notin S(d)
  OBVIOUS
<1>4. Cardinality(S(d) \union {d + 1}) = Cardinality(S(d)) + 1
  <2> DEFINE T == S(d)
             x == d + 1
  <2> HIDE DEF T, x
  <2>1. Cardinality(T \cup {x}) = IF x \in T THEN Cardinality(T) ELSE Cardinality(T) + 1
    BY <1>1, FS_AddElement DEF T
  <2> QED
    BY <2>1, <1>3 DEF T, x
<1> QED
  BY <1>2, <1>4 DEF Owner

LEMMA OwnerBetween ==
    ASSUME NEW e, NEW a \in Nat, NEW b \in Nat, a <= b
    PROVE  /\ Owner(e, a) <= Owner(e, b)
           /\ Owner(e, a) = Owner(e, b) <=> \A k \in a + 1 .. b : e[k].kind \notin Functions
<1> DEFINE S(n) == {k \in 1..n : e[k].kind \in Functions}
<1>1. IsFiniteSet(S(b)) /\ S(a) \in SUBSET S(b)
  <2>1. IsFiniteSet(S(b))
    BY OwnerType
  <2>2. \A k \in 1..a : k \in 1..b
    OBVIOUS
  <2> QED
    BY <2>1, <2>2
<1>2. Cardinality(S(a)) <= Cardinality(S(b)) /\ (Cardinality(S(b)) = Cardinality(S(a)) => S(b) = S(a))
  <2> HIDE DEF S
  <2> QED
    BY <1>1, FS_Subset
<1>3. S(a) = S(b) <=> \A k \in a + 1 .. b : e[k].kind \notin Functions
  <2>1. ASSUME \A k \in a + 1 .. b : e[k].kind \notin Functions
        PROVE  S(a) = S(b)
    <3>1. \A k \in 1..b : k \in 1..a \/ k \in a + 1 .. b
      OBVIOUS
    <3> QED
      BY <1>1, <2>1, <3>1
  <2>2. ASSUME NEW k \in a + 1 .. b, e[k].kind \in Functions, S(a) = S(b)
        PROVE  FALSE
    <3>1. k \in 1..b /\ k \notin 1..a
      OBVIOUS
    <3> HIDE DEF Functions
    <3> QED
      BY <2>2, <3>1
  <2> QED
    BY <2>1, <2>2
<1> QED
  BY <1>2, <1>3 DEF Owner

(* A function's scope stays, and no scope loses what it has. *)
Keeps(s, e, n, new, env2, f) ==
    /\ \A d \in 1..Len(s) : Owner(e, d) = f /\ e[d].kind \in Functions =>
          /\ d \in 1..Len(new) /\ Owner(env2, d) = f /\ env2[d].kind \in Functions
          /\ \A q \in Names : Has(s[d].variables, q) => Has(new[d].variables, q)
    /\ \A d \in 1..Len(new) : new[d].scope_id \in 1..n =>
          /\ d \in 1..Len(s) /\ s[d].scope_id = new[d].scope_id
          /\ \A q \in Names : Has(s[d].variables, q) => Has(new[d].variables, q)

LEMMA LeafStays ==
    ASSUME NEW s, NEW e, NEW n \in Nat, NEW new, NEW env2, NEW n2 \in Nat, NEW f, NEW leaf,
           n <= n2, Keeps(s, e, n, new, env2, f), IsArgument(leaf, s, e, f) \/ IsLocal(leaf, s, n)
    PROVE  IsArgument(leaf, new, env2, f) \/ IsLocal(leaf, new, n2)
<1>1. ASSUME IsArgument(leaf, s, e, f)
      PROVE  IsArgument(leaf, new, env2, f)
  <2>1. PICK q \in Names, d \in 1..Len(s) :
           Owner(e, d) = f /\ e[d].kind \in Functions /\ leaf.name = q /\ Has(s[d].variables, q)
    BY <1>1, Zenon DEF IsArgument
  <2>2. d \in 1..Len(new) /\ Owner(env2, d) = f /\ env2[d].kind \in Functions /\ Has(new[d].variables, q)
    BY <2>1, Zenon DEF Keeps
  <2> QED
    BY <2>1, <2>2, Zenon DEF IsArgument
<1>2. ASSUME IsLocal(leaf, s, n)
      PROVE  IsLocal(leaf, new, n2)
  <2>1. PICK q \in Names, i \in 1..n :
           /\ leaf.name = jitc_scoped_name(q, i)
           /\ \A d \in 1..Len(s) : s[d].scope_id = i => Has(s[d].variables, q)
    BY <1>2, Zenon DEF IsLocal
  <2>2. \A d \in 1..Len(new) : new[d].scope_id = i => Has(new[d].variables, q)
    BY <2>1, Zenon DEF Keeps
  <2>3. i \in 1..n2
    OBVIOUS
  <2> QED
    BY <2>1, <2>2, <2>3, Zenon DEF IsLocal
<1> QED
  BY <1>1, <1>2

(* A list stays what it is for a function if nothing is declared anew, too. *)
Stays(s, e, n, new, env2, f) ==
    /\ \A d \in 1..Len(new) : Owner(env2, d) = f =>
          \A q \in Names : Has(new[d].variables, q) /\ Value(new[d].variables, q).type = "none" =>
              /\ d \in 1..Len(s) /\ Owner(e, d) = f /\ Has(s[d].variables, q)
              /\ Value(new[d].variables, q) = Value(s[d].variables, q)
    /\ Keeps(s, e, n, new, env2, f)

LEMMA StoredStays ==
    ASSUME NEW s, NEW e, NEW n \in Nat, NEW new, NEW env2, NEW n2 \in Nat, NEW f, NEW list,
           Stored(list, s, e, f, n), n <= n2, Stays(s, e, n, new, env2, f)
    PROVE  Stored(list, new, env2, f, n2)
<1>1. \A i, j \in DOMAIN list : list[i].name = list[j].name => i = j
  BY Zenon DEF Stored
<1>2. ASSUME NEW d \in 1..Len(new), Owner(env2, d) = f, NEW q \in Names,
             Has(new[d].variables, q), Value(new[d].variables, q).type = "none"
      PROVE  \E i \in DOMAIN list : list[i] = Leaf(q, Value(new[d].variables, q).scope_id, d)
  <2>1. /\ d \in 1..Len(s) /\ Owner(e, d) = f /\ Has(s[d].variables, q)
        /\ Value(new[d].variables, q) = Value(s[d].variables, q)
    BY <1>2, Zenon DEF Stays
  <2>2. Value(s[d].variables, q).type = "none"
    BY <1>2, <2>1
  <2>3. \E i \in DOMAIN list : list[i] = Leaf(q, Value(s[d].variables, q).scope_id, d)
    BY <2>1, <2>2, Zenon DEF Stored
  <2> QED
    BY <2>1, <2>3, Zenon
<1>3. \A i \in DOMAIN list : IsArgument(list[i], s, e, f) \/ IsLocal(list[i], s, n)
  BY Zenon DEF Stored
<1>4. \A i \in DOMAIN list : IsArgument(list[i], new, env2, f) \/ IsLocal(list[i], new, n2)
  BY <1>3, LeafStays DEF Stays
<1>5. \A d \in 1..Len(new) : Owner(env2, d) = f =>
          \A q \in Names : Has(new[d].variables, q) /\ Value(new[d].variables, q).type = "none" =>
              \E i \in DOMAIN list : list[i] = Leaf(q, Value(new[d].variables, q).scope_id, d)
  BY <1>2, Zenon
<1> QED
  BY <1>1, <1>4, <1>5, Zenon DEF Stored

LEMMA FrontOf ==
    ASSUME NEW S, NEW seq \in Seq(S), Len(seq) >= 1
    PROVE  /\ Front(seq) \in Seq(S) /\ Len(Front(seq)) = Len(seq) - 1
           /\ \A i \in 1..Len(seq) - 1 : Front(seq)[i] = seq[i]
<1> DEFINE n == Len(seq) - 1
<1>1. n \in Nat /\ \A i \in 1..n : seq[i] \in S
  OBVIOUS
<1> HIDE DEF n
<1>2. /\ SubSeq(seq, 1, n) \in Seq(S) /\ Len(SubSeq(seq, 1, n)) = (IF 1 <= n THEN n - 1 + 1 ELSE 0)
      /\ \A i \in 1 .. n - 1 + 1 : SubSeq(seq, 1, n)[i] = seq[1 + i - 1]
  BY <1>1, SubSeqProperties
<1>3. Front(seq) = SubSeq(seq, 1, n)
  BY DEF Front, n
<1>4. Len(Front(seq)) = n
  BY <1>1, <1>2, <1>3
<1>5. \A i \in 1..n : Front(seq)[i] = seq[i]
  <2> SUFFICES ASSUME NEW i \in 1..n
               PROVE  Front(seq)[i] = seq[i]
    OBVIOUS
  <2>1. i \in 1 .. n - 1 + 1 /\ 1 + i - 1 = i
    BY <1>1
  <2> QED
    BY <2>1, <1>2, <1>3
<1> QED
  BY <1>2, <1>3, <1>4, <1>5 DEF n

(* What of the invariant is about one thing. *)
LEMMA Parts ==
    ASSUME NEW s, NEW n, NEW l, NEW e, Inv(s, n, l, e)
    PROVE  /\ s \in Seq(ScopeType) /\ n \in Nat /\ l \in Seq(Seq(LeafType)) /\ e \in Seq(CScope)
           /\ Len(s) = Len(e) /\ Len(e) \in 1..MaxDepth /\ Len(e) \in Nat /\ Len(l) \in Nat
           /\ s[1].scope_id = 0
           /\ \A d \in 1..Len(s) : s[d] \in ScopeType /\ e[d] \in CScope /\ s[d].scope_id <= n
           /\ \A d, f \in 1..Len(s) : d < f => s[d].scope_id < s[f].scope_id
           /\ \A d \in 1..Len(s) : Matches(s[d], e[d], d) /\ Placed(e[d], d)
           /\ Len(l) = Owner(e, Len(e))
           /\ \A f \in 1..Len(l) : Stored(l[f], s, e, f, n)
BY DEF Inv, Typed, Numbered

(* A scope is left. *)
LEMMA Popped ==
    ASSUME NEW s, NEW n, NEW l, NEW e, Inv(s, n, l, e), Len(e) > 1, NEW n2 \in Nat, n <= n2
    PROVE  Inv(Front(s), n2, IF Last(e).kind \in Functions THEN Front(l) ELSE l, Front(e))
<1> DEFINE k == Len(e) - 1
           s2 == Front(s)
           e2 == Front(e)
           l2 == IF Last(e).kind \in Functions THEN Front(l) ELSE l
<1>1. s \in Seq(ScopeType) /\ n \in Nat /\ l \in Seq(Seq(LeafType)) /\ e \in Seq(CScope)
      /\ Len(s) = k + 1 /\ Len(e) = k + 1 /\ k \in 1..MaxDepth /\ k \in Nat
  BY Parts, BoundsAssumption
<1>2. /\ s2 \in Seq(ScopeType) /\ Len(s2) = k /\ \A d \in 1..k : s2[d] = s[d]
      /\ e2 \in Seq(CScope) /\ Len(e2) = k /\ \A d \in 1..k : e2[d] = e[d]
  BY <1>1, FrontOf
<1>3. Last(e) = e[k + 1]
  BY <1>1 DEF Last
<1>4. Owner(e, k + 1) = (IF e[k + 1].kind \in Functions THEN Owner(e, k) + 1 ELSE Owner(e, k))
      /\ Owner(e, k) \in Nat /\ Len(l) = Owner(e, k + 1)
  <2>1. Len(l) = Owner(e, Len(e))
    BY Parts
  <2> HIDE DEF k
  <2>2. Owner(e, k + 1) = (IF e[k + 1].kind \in Functions THEN Owner(e, k) + 1 ELSE Owner(e, k))
    BY <1>1, OwnerNext
  <2>3. Owner(e, k) \in Nat
    BY <1>1, OwnerType
  <2> QED
    BY <1>1, <2>1, <2>2, <2>3
<1>5. \A d \in 1..k : Owner(e2, d) = Owner(e, d)
  <2> SUFFICES ASSUME NEW d \in 1..k
               PROVE  Owner(e2, d) = Owner(e, d)
    OBVIOUS
  <2>1. d \in Nat /\ \A j \in 1..d : e2[j] = e[j]
    BY <1>1, <1>2
  <2> QED
    BY <2>1, OwnerSame
<1>6. l2 \in Seq(Seq(LeafType)) /\ Len(l2) = Owner(e, k) /\ \A f \in 1..Len(l2) : l2[f] = l[f] /\ f \in 1..Len(l)
  <2>1. CASE e[k + 1].kind \in Functions
    <3>1. Len(l) = Owner(e, k) + 1 /\ l2 = Front(l)
      BY <1>3, <1>4, <2>1
    <3>2. Front(l) \in Seq(Seq(LeafType)) /\ Len(Front(l)) = Len(l) - 1
          /\ \A f \in 1..Len(l) - 1 : Front(l)[f] = l[f]
      <4>1. l \in Seq(Seq(LeafType)) /\ Len(l) >= 1
        BY <1>1, <1>4, <3>1
      <4> DEFINE T == Seq(LeafType)
      <4> HIDE DEF T
      <4> QED
        BY <4>1, FrontOf DEF T
    <3> HIDE DEF l2
    <3> QED
      BY <1>4, <3>1, <3>2
  <2>2. CASE e[k + 1].kind \notin Functions
    BY <1>1, <1>3, <1>4, <2>2
  <2> QED
    BY <2>1, <2>2
<1> HIDE DEF k, s2, e2, l2
<1>7. Numbered(s2, n2)
  <2>1. 1 \in 1..k /\ \A d \in 1..k : d \in 1..Len(s)
    BY <1>1
  <2>2. s[1].scope_id = 0
    BY Parts
  <2>3. \A d \in 1..k : s2[d].scope_id <= n2
    <3> SUFFICES ASSUME NEW d \in 1..k
                 PROVE  s2[d].scope_id <= n2
      OBVIOUS
    <3>1. s[d] \in ScopeType /\ s[d].scope_id <= n
      BY <2>1, Parts
    <3>2. s[d].scope_id \in Nat
      BY <3>1 DEF ScopeType
    <3> QED
      BY <1>1, <1>2, <3>1, <3>2
  <2>4. \A d, f \in 1..k : d < f => s[d].scope_id < s[f].scope_id
    BY <2>1, Parts
  <2> QED
    BY <1>2, <2>1, <2>2, <2>3, <2>4 DEF Numbered
<1>8. \A d \in 1..k : Matches(s2[d], e2[d], d) /\ Placed(e2[d], d)
  <2>1. \A d \in 1..Len(s) : Matches(s[d], e[d], d) /\ Placed(e[d], d)
    BY Parts
  <2>2. \A d \in 1..k : d \in 1..Len(s)
    BY <1>1
  <2> QED
    BY <1>2, <2>1, <2>2, Zenon
<1>9. Len(l2) = Owner(e2, k)
  BY <1>1, <1>5, <1>6
<1>10. ASSUME NEW f \in 1..Len(l2)
       PROVE  Stored(l2[f], s2, e2, f, n2)
  <2>1. \A d \in 1..k : d \in 1..Len(s)
    BY <1>1
  <2>2. ASSUME NEW d \in 1..Len(s), Owner(e, d) = f, e[d].kind \in Functions
        PROVE  d \in 1..k
    <3>1. d # k + 1
      BY <1>4, <1>6, <2>2
    <3> QED
      BY <1>1, <3>1
  <2>3. Stays(s, e, n, s2, e2, f)
    BY <1>2, <1>5, <2>1, <2>2, Zenon DEF Stays, Keeps
  <2>4. Stored(l[f], s, e, f, n)
    BY <1>6, Parts
  <2>5. Stored(l[f], s2, e2, f, n2)
    BY <2>3, <2>4, <1>1, StoredStays
  <2> QED
    BY <2>5, <1>6
<1>11. Typed(s2, n2, l2, e2)
  BY <1>1, <1>2, <1>6 DEF Typed
<1> QED
  BY <1>2, <1>7, <1>8, <1>9, <1>10, <1>11 DEF Inv, s2, e2, l2

(* A unit fails. *)
LEMMA Failed ==
    ASSUME NEW s, NEW n, NEW l, NEW e, Inv(s, n, l, e), NEW n2 \in Nat, n <= n2
    PROVE  Inv(SubSeq(s, 1, 1), n2, <<>>, SubSeq(e, 1, 1))
<1> DEFINE s2 == SubSeq(s, 1, 1)
           e2 == SubSeq(e, 1, 1)
<1>1. s \in Seq(ScopeType) /\ n \in Nat /\ e \in Seq(CScope)
      /\ Len(s) = Len(e) /\ Len(e) \in 1..MaxDepth
  BY Parts
<1>2. 1 \in 1..Len(s) /\ 1 \in 1..MaxDepth /\ Len(s) \in Nat
  BY <1>1, BoundsAssumption
<1>3. s[1] \in ScopeType /\ e[1] \in CScope /\ s[1].scope_id = 0 /\ Matches(s[1], e[1], 1) /\ Placed(e[1], 1)
  BY <1>2, Parts
<1>4. /\ s2 \in Seq(ScopeType) /\ Len(s2) = 1 /\ s2[1] = s[1]
      /\ e2 \in Seq(CScope) /\ Len(e2) = 1 /\ e2[1] = e[1]
  BY <1>1, <1>2
<1> HIDE DEF s2, e2
<1>5. Owner(e2, 1) = 0
  <2>1. Owner(e2, 0 + 1) = IF e2[0 + 1].kind \in Functions THEN Owner(e2, 0) + 1 ELSE Owner(e2, 0)
    BY OwnerNext
  <2>2. Owner(e2, 0) = 0
    BY OwnerType
  <2>3. e2[1].kind \notin Functions
    BY <1>3, <1>4 DEF Placed, Functions
  <2> QED
    BY <2>1, <2>2, <2>3
<1>6. Typed(s2, n2, <<>>, e2)
  BY <1>2, <1>4 DEF Typed
<1>7. Numbered(s2, n2)
  BY <1>3, <1>4 DEF Numbered
<1>8. \A d \in 1..Len(s2) : Matches(s2[d], e2[d], d) /\ Placed(e2[d], d)
  BY <1>3, <1>4
<1>9. Len(<<>>) = Owner(e2, Len(e2)) /\ 1..Len(<<>>) = {}
  BY <1>4, <1>5
<1>10. \A f \in 1..Len(<<>>) : Stored(<<>>[f], s2, e2, f, n2)
  BY <1>9
<1> QED
  BY <1>6, <1>7, <1>8, <1>9, <1>10, Zenon DEF Inv, s2, e2

(* A scope is opened. *)
LEMMA Pushed ==
    ASSUME NEW s, NEW n, NEW l, NEW e, Inv(s, n, l, e), Len(e) < MaxDepth,
           NEW sc \in ScopeType, NEW c \in CScope, sc.scope_id = n + 1,
           Matches(sc, c, Len(e) + 1), Placed(c, Len(e) + 1), NEW l2,
           c.kind \in Functions =>
              \E list \in Seq(LeafType) :
                 l2 = Append(l, list) /\ Stored(list, Append(s, sc), Append(e, c), Len(l) + 1, n + 1),
           c.kind \notin Functions =>
              l2 = l /\ \A q \in Names : Has(sc.variables, q) => Value(sc.variables, q).type # "none"
    PROVE  Inv(Append(s, sc), n + 1, l2, Append(e, c))
<1> DEFINE k == Len(e)
           s2 == Append(s, sc)
           e2 == Append(e, c)
           m == n + 1
<1>1. s \in Seq(ScopeType) /\ n \in Nat /\ l \in Seq(Seq(LeafType)) /\ e \in Seq(CScope)
      /\ Len(s) = k /\ k \in 1..MaxDepth /\ k \in Nat /\ k < MaxDepth /\ MaxDepth \in Nat /\ m \in Nat /\ n <= m
      /\ Len(l) = Owner(e, k) /\ Len(l) \in Nat
  BY Parts, BoundsAssumption
<1>2. /\ s2 \in Seq(ScopeType) /\ Len(s2) = k + 1 /\ \A d \in 1..k : s2[d] = s[d]
      /\ s2[k + 1] = sc
      /\ e2 \in Seq(CScope) /\ Len(e2) = k + 1 /\ \A d \in 1..k : e2[d] = e[d]
      /\ e2[k + 1] = c
  BY <1>1, LastOfAppend
<1>3. \A d \in 1..k + 1 : d \in 1..k \/ d = k + 1
  BY <1>1
<1>4. \A d \in 1..k : d \in 1..Len(s) /\ d \in 1..k + 1 /\ d # k + 1
  BY <1>1
<1>5. \A d \in 1..k : Owner(e2, d) = Owner(e, d)
  <2> HIDE DEF k, s2, e2, m
  <2> SUFFICES ASSUME NEW d \in 1..k
               PROVE  Owner(e2, d) = Owner(e, d)
    OBVIOUS
  <2>1. d \in Nat /\ \A j \in 1..d : e2[j] = e[j]
    BY <1>1, <1>2
  <2> QED
    BY <2>1, OwnerSame
<1>6. Owner(e2, k + 1) = IF c.kind \in Functions THEN Len(l) + 1 ELSE Len(l)
  <2>1. Owner(e2, k + 1) = IF e2[k + 1].kind \in Functions THEN Owner(e2, k) + 1 ELSE Owner(e2, k)
    <3> HIDE DEF k, e2
    <3> QED
      BY <1>1, OwnerNext
  <2>2. Owner(e2, k) = Len(l)
    <3>1. k \in 1..k
      BY <1>1
    <3> QED
      BY <1>1, <1>5, <3>1, Zenon
  <2> QED
    BY <1>2, <2>1, <2>2, Zenon
<1> HIDE DEF k, s2, e2, m
<1>7. Numbered(s2, m)
  <2>1. \A d \in 1..k : s[d].scope_id \in Nat /\ s[d].scope_id <= n
    <3>1. \A d \in 1..Len(s) : s[d] \in ScopeType /\ s[d].scope_id <= n
      BY Parts
    <3> QED
      BY <1>4, <3>1 DEF ScopeType
  <2>2. s[1].scope_id = 0 /\ 1 \in 1..k
    BY <1>1, Parts
  <2>3. \A d, f \in 1..k : d < f => s[d].scope_id < s[f].scope_id
    BY <1>4, Parts, Zenon
  <2>4. s2[1].scope_id = 0
    BY <1>2, <2>2, Zenon
  <2>5. \A d \in 1..k + 1 : s2[d].scope_id <= m
    <3> SUFFICES ASSUME NEW d \in 1..k + 1
                 PROVE  s2[d].scope_id <= m
      OBVIOUS
    <3>1. CASE d \in 1..k
      BY <1>1, <1>2, <2>1, <3>1 DEF m
    <3>2. CASE d = k + 1
      BY <1>1, <1>2, <3>2 DEF m
    <3> QED
      BY <1>3, <3>1, <3>2
  <2>6. ASSUME NEW d \in 1..k + 1, NEW f \in 1..k + 1, d < f
        PROVE  s2[d].scope_id < s2[f].scope_id
    <3>1. d \in 1..k
      BY <1>1, <2>6
    <3>2. CASE f \in 1..k
      BY <1>2, <2>3, <2>6, <3>1, <3>2
    <3>3. CASE f = k + 1
      BY <1>1, <1>2, <2>1, <3>1, <3>3
    <3> QED
      BY <1>3, <3>2, <3>3
  <2> QED
    BY <1>2, <2>4, <2>5, <2>6 DEF Numbered
<1>8. \A d \in 1..Len(s2) : Matches(s2[d], e2[d], d) /\ Placed(e2[d], d)
  <2>1. \A d \in 1..Len(s) : Matches(s[d], e[d], d) /\ Placed(e[d], d)
    BY Parts
  <2>2. \A d \in 1..k : Matches(s2[d], e2[d], d) /\ Placed(e2[d], d)
    BY <1>2, <1>4, <2>1, Zenon
  <2>3. Matches(s2[k + 1], e2[k + 1], k + 1) /\ Placed(e2[k + 1], k + 1)
    BY <1>2, Zenon DEF k
  <2> QED
    BY <1>2, <1>3, <2>2, <2>3, Zenon
<1>9. ASSUME NEW f \in 1..Len(l)
      PROVE  Stored(l[f], s2, e2, f, m)
  <2>1. \A d \in 1..k : s2[d] = s[d] /\ Owner(e2, d) = Owner(e, d) /\ e2[d] = e[d]
    BY <1>2, <1>5
  <2>2. ASSUME NEW d \in 1..k + 1, Owner(e2, d) = f, NEW q \in Names,
               Has(s2[d].variables, q), Value(s2[d].variables, q).type = "none"
        PROVE  d \in 1..k
    <3>1. CASE d = k + 1
      <4>1. c.kind \notin Functions
        BY <1>1, <1>6, <2>2, <3>1
      <4> QED
        BY <1>2, <2>2, <3>1, <4>1, Zenon
    <3> QED
      BY <1>3, <3>1
  <2>3. ASSUME NEW d \in 1..k + 1, s2[d].scope_id \in 1..n
        PROVE  d \in 1..k
    <3>1. d # k + 1
      BY <1>1, <1>2, <2>3
    <3> QED
      BY <1>3, <3>1
  <2>4. \A d \in 1..Len(s) : d \in 1..k
    BY <1>1
  <2>5. Stays(s, e, n, s2, e2, f)
    <3>1. \A d \in 1..Len(s2) : Owner(e2, d) = f =>
             \A q \in Names : Has(s2[d].variables, q) /\ Value(s2[d].variables, q).type = "none" =>
                 /\ d \in 1..Len(s) /\ Owner(e, d) = f /\ Has(s[d].variables, q)
                 /\ Value(s2[d].variables, q) = Value(s[d].variables, q)
      BY <1>2, <1>4, <2>1, <2>2, Zenon
    <3>2. \A d \in 1..Len(s) : Owner(e, d) = f /\ e[d].kind \in Functions =>
             /\ d \in 1..Len(s2) /\ Owner(e2, d) = f /\ e2[d].kind \in Functions
             /\ \A q \in Names : Has(s[d].variables, q) => Has(s2[d].variables, q)
      BY <1>2, <1>4, <2>1, <2>4, Zenon
    <3>3. \A d \in 1..Len(s2) : s2[d].scope_id \in 1..n =>
             /\ d \in 1..Len(s) /\ s[d].scope_id = s2[d].scope_id
             /\ \A q \in Names : Has(s[d].variables, q) => Has(s2[d].variables, q)
      BY <1>2, <1>4, <2>1, <2>3, Zenon
    <3> QED
      BY <3>1, <3>2, <3>3, Zenon DEF Stays, Keeps
  <2>6. Stored(l[f], s, e, f, n)
    BY Parts
  <2> QED
    BY <2>5, <2>6, <1>1, StoredStays
<1>10. /\ l2 \in Seq(Seq(LeafType)) /\ Len(l2) = Owner(e2, k + 1)
       /\ \A f \in 1..Len(l2) : Stored(l2[f], s2, e2, f, m)
  <2>1. CASE c.kind \in Functions
    <3>1. PICK list \in Seq(LeafType) : l2 = Append(l, list) /\ Stored(list, s2, e2, Len(l) + 1, m)
      BY <2>1, Zenon DEF s2, e2, m
    <3> DEFINE T == Seq(LeafType)
    <3>2. list \in T /\ l \in Seq(T)
      BY <1>1
    <3> HIDE DEF T
    <3>3. l2 \in Seq(T) /\ Len(l2) = Len(l) + 1 /\ l2[Len(l) + 1] = list
          /\ \A f \in 1..Len(l) : l2[f] = l[f]
      BY <3>1, <3>2, LastOfAppend
    <3>4. \A f \in 1..Len(l2) : f \in 1..Len(l) \/ f = Len(l) + 1
      BY <1>1, <3>3
    <3>5. \A f \in 1..Len(l2) : Stored(l2[f], s2, e2, f, m)
      BY <1>9, <3>1, <3>3, <3>4, Zenon
    <3> QED
      BY <1>6, <2>1, <3>3, <3>5 DEF T
  <2>2. CASE c.kind \notin Functions
    BY <1>1, <1>6, <1>9, <2>2, Zenon
  <2> QED
    BY <2>1, <2>2
<1>11. Typed(s2, m, l2, e2)
  BY <1>1, <1>2, <1>10 DEF Typed
<1> QED
  BY <1>2, <1>7, <1>8, <1>10, <1>11, Zenon DEF Inv, s2, e2, m, k

(* The last scope becomes sc, in C c: it is the same scope, and has lost nothing. *)
Becomes(s, e, sc, c) ==
    /\ sc \in ScopeType /\ c \in CScope
    /\ sc.scope_id = s[Len(s)].scope_id /\ c.kind = e[Len(e)].kind
    /\ Matches(sc, c, Len(e))
    /\ \A q \in Names : Has(s[Len(s)].variables, q) => Has(sc.variables, q)

LastReplaced(s, e, sc, c, s2, e2) ==
    /\ s2 \in Seq(ScopeType) /\ Len(s2) = Len(s) /\ s2[Len(s)] = sc
    /\ e2 \in Seq(CScope) /\ Len(e2) = Len(e) /\ e2[Len(e)] = c
    /\ \A d \in 1..Len(s) : d # Len(s) => s2[d] = s[d] /\ e2[d] = e[d]
    /\ \A d \in 1..Len(s) : e2[d].kind = e[d].kind /\ s2[d].scope_id = s[d].scope_id
    /\ \A d \in 1..Len(s) : Owner(e2, d) = Owner(e, d)

LEMMA Replaced ==
    ASSUME NEW s, NEW n, NEW l, NEW e, Inv(s, n, l, e), NEW sc, NEW c, Becomes(s, e, sc, c),
           NEW s2, s2 = [s EXCEPT ![Len(s)] = sc], NEW e2, e2 = [e EXCEPT ![Len(e)] = c]
    PROVE  LastReplaced(s, e, sc, c, s2, e2)
<1>1. s \in Seq(ScopeType) /\ e \in Seq(CScope) /\ Len(s) = Len(e) /\ Len(e) \in 1..Len(e) /\ Len(e) \in Nat
      /\ sc \in ScopeType /\ c \in CScope /\ sc.scope_id = s[Len(s)].scope_id /\ c.kind = e[Len(e)].kind
  BY Parts DEF Becomes
<1>2. s2 \in Seq(ScopeType) /\ Len(s2) = Len(s) /\ \A j \in 1..Len(s) : s2[j] = IF j = Len(s) THEN sc ELSE s[j]
  BY <1>1, ExceptSeq
<1>3. e2 \in Seq(CScope) /\ Len(e2) = Len(e) /\ \A j \in 1..Len(e) : e2[j] = IF j = Len(e) THEN c ELSE e[j]
  BY <1>1, ExceptSeq
<1>4. \A d \in 1..Len(s) : e2[d].kind = e[d].kind /\ s2[d].scope_id = s[d].scope_id
  BY <1>1, <1>2, <1>3
<1>5. \A d \in 1..Len(s) : Owner(e2, d) = Owner(e, d)
  <2> SUFFICES ASSUME NEW d \in 1..Len(s)
               PROVE  Owner(e2, d) = Owner(e, d)
    OBVIOUS
  <2>1. d \in Nat /\ \A j \in 1..d : j \in 1..Len(s)
    BY <1>1
  <2>2. \A j \in 1..d : e2[j].kind = e[j].kind
    BY <1>4, <2>1
  <2> QED
    BY <2>1, <2>2, OwnerSame
<1> QED
  BY <1>1, <1>2, <1>3, <1>4, <1>5 DEF LastReplaced

LEMMA StillKept ==
    ASSUME NEW s, NEW n, NEW l, NEW e, Inv(s, n, l, e), NEW sc, NEW c, Becomes(s, e, sc, c),
           NEW s2, s2 = [s EXCEPT ![Len(s)] = sc], NEW e2, e2 = [e EXCEPT ![Len(e)] = c], NEW f
    PROVE  Keeps(s, e, n, s2, e2, f)
<1>1. /\ Len(s2) = Len(s) /\ s2[Len(s)] = sc
      /\ \A d \in 1..Len(s) : d # Len(s) => s2[d] = s[d]
      /\ \A d \in 1..Len(s) : e2[d].kind = e[d].kind /\ s2[d].scope_id = s[d].scope_id
      /\ \A d \in 1..Len(s) : Owner(e2, d) = Owner(e, d)
  <2>1. LastReplaced(s, e, sc, c, s2, e2)
    BY Replaced, Zenon
  <2> QED
    BY <2>1, Zenon DEF LastReplaced
<1>2. \A d \in 1..Len(s) : \A q \in Names : Has(s[d].variables, q) => Has(s2[d].variables, q)
  BY <1>1, Zenon DEF Becomes
<1>3. \A d \in 1..Len(s) : Owner(e, d) = f /\ e[d].kind \in Functions =>
          /\ d \in 1..Len(s2) /\ Owner(e2, d) = f /\ e2[d].kind \in Functions
          /\ \A q \in Names : Has(s[d].variables, q) => Has(s2[d].variables, q)
  BY <1>1, <1>2, Zenon
<1>4. \A d \in 1..Len(s2) : s2[d].scope_id \in 1..n =>
          /\ d \in 1..Len(s) /\ s[d].scope_id = s2[d].scope_id
          /\ \A q \in Names : Has(s[d].variables, q) => Has(s2[d].variables, q)
  BY <1>1, <1>2, Zenon
<1> QED
  BY <1>3, <1>4, Zenon DEF Keeps

LEMMA StillStored ==
    ASSUME NEW s, NEW n, NEW l, NEW e, Inv(s, n, l, e), NEW sc, NEW c, Becomes(s, e, sc, c),
           NEW s2, s2 = [s EXCEPT ![Len(s)] = sc], NEW e2, e2 = [e EXCEPT ![Len(e)] = c],
           NEW f \in 1..Len(l),
           f = Len(l) =>
              \A q \in Names : Has(sc.variables, q) /\ Value(sc.variables, q).type = "none" =>
                  /\ Has(s[Len(s)].variables, q)
                  /\ Value(sc.variables, q) = Value(s[Len(s)].variables, q)
    PROVE  Stored(l[f], s2, e2, f, n)
<1>1. /\ Len(s2) = Len(s) /\ s2[Len(s)] = sc
      /\ \A d \in 1..Len(s) : d # Len(s) => s2[d] = s[d]
      /\ \A d \in 1..Len(s) : e2[d].kind = e[d].kind /\ s2[d].scope_id = s[d].scope_id
      /\ \A d \in 1..Len(s) : Owner(e2, d) = Owner(e, d)
  <2>1. LastReplaced(s, e, sc, c, s2, e2)
    BY Replaced, Zenon
  <2> QED
    BY <2>1, Zenon DEF LastReplaced
<1>2. n \in Nat /\ n <= n /\ Len(l) = Owner(e, Len(s)) /\ Stored(l[f], s, e, f, n)
  BY Parts
<1>3. Stays(s, e, n, s2, e2, f)
  <2>1. \A d \in 1..Len(s2) : Owner(e2, d) = f =>
             \A q \in Names : Has(s2[d].variables, q) /\ Value(s2[d].variables, q).type = "none" =>
                 /\ d \in 1..Len(s) /\ Owner(e, d) = f /\ Has(s[d].variables, q)
                 /\ Value(s2[d].variables, q) = Value(s[d].variables, q)
    <3> SUFFICES ASSUME NEW d \in 1..Len(s), Owner(e2, d) = f, NEW q \in Names,
                        Has(s2[d].variables, q), Value(s2[d].variables, q).type = "none"
                 PROVE  /\ Owner(e, d) = f /\ Has(s[d].variables, q)
                        /\ Value(s2[d].variables, q) = Value(s[d].variables, q)
      BY <1>1, Zenon
    <3>1. CASE d = Len(s)
      <4>1. f = Len(l) /\ Owner(e, d) = f
        BY <1>1, <1>2, <3>1, Zenon
      <4>2. Has(sc.variables, q) /\ Value(sc.variables, q).type = "none" /\ s2[d] = sc
        BY <1>1, <3>1, Zenon
      <4>3. Has(s[Len(s)].variables, q) /\ Value(sc.variables, q) = Value(s[Len(s)].variables, q)
        BY <4>1, <4>2, Zenon
      <4> QED
        BY <3>1, <4>1, <4>2, <4>3, Zenon
    <3>2. CASE d # Len(s)
      BY <1>1, <3>2, Zenon
    <3> QED
      BY <3>1, <3>2
  <2>2. Keeps(s, e, n, s2, e2, f)
    BY StillKept, Zenon
  <2> QED
    BY <2>1, <2>2, Zenon DEF Stays
<1> QED
  BY <1>2, <1>3, StoredStays

(* What is declared in the scope that is last. *)
LEMMA Changed ==
    ASSUME NEW s, NEW n, NEW l, NEW e, Inv(s, n, l, e), NEW sc, NEW c, Becomes(s, e, sc, c),
           NEW s2, s2 = [s EXCEPT ![Len(s)] = sc], NEW e2, e2 = [e EXCEPT ![Len(e)] = c],
           NEW l2 \in Seq(Seq(LeafType)), Len(l2) = Len(l),
           \A f \in 1..Len(l) : Stored(l2[f], s2, e2, f, n)
    PROVE  Inv(s2, n, l2, e2)
<1>1. /\ s2 \in Seq(ScopeType) /\ Len(s2) = Len(s) /\ s2[Len(s)] = sc
      /\ e2 \in Seq(CScope) /\ Len(e2) = Len(e) /\ e2[Len(e)] = c
      /\ \A d \in 1..Len(s) : d # Len(s) => s2[d] = s[d] /\ e2[d] = e[d]
      /\ \A d \in 1..Len(s) : e2[d].kind = e[d].kind /\ s2[d].scope_id = s[d].scope_id
      /\ \A d \in 1..Len(s) : Owner(e2, d) = Owner(e, d)
  <2>1. LastReplaced(s, e, sc, c, s2, e2)
    BY Replaced, Zenon
  <2> QED
    BY <2>1, Zenon DEF LastReplaced
<1>2. /\ n \in Nat /\ Len(s) = Len(e) /\ Len(e) \in 1..MaxDepth /\ Len(s) \in 1..Len(s) /\ 1 \in 1..Len(s)
      /\ s[1].scope_id = 0 /\ Len(l) = Owner(e, Len(e))
  BY Parts, BoundsAssumption
<1>3. Typed(s2, n, l2, e2)
  BY <1>1, <1>2, Zenon DEF Typed
<1>4. Numbered(s2, n)
  <2>1. \A d \in 1..Len(s) : s[d].scope_id <= n
    BY Parts
  <2>2. \A d, f \in 1..Len(s) : d < f => s[d].scope_id < s[f].scope_id
    BY Parts
  <2> QED
    BY <1>1, <1>2, <2>1, <2>2, Zenon DEF Numbered
<1>5. \A d \in 1..Len(s) : Matches(s2[d], e2[d], d) /\ Placed(e2[d], d)
  <2>1. \A d \in 1..Len(s) : Matches(s[d], e[d], d) /\ Placed(e[d], d)
    BY Parts
  <2>2. \A d \in 1..Len(s) : Placed(e2[d], d)
    BY <1>1, <2>1, Zenon DEF Placed
  <2>3. Matches(s2[Len(s)], e2[Len(s)], Len(s))
    BY <1>1, <1>2, Zenon DEF Becomes
  <2> QED
    BY <1>1, <2>1, <2>2, <2>3, Zenon
<1>6. Len(l2) = Owner(e2, Len(e2))
  BY <1>1, <1>2, Zenon
<1> QED
  BY <1>1, <1>3, <1>4, <1>5, <1>6, Zenon DEF Inv

LEMMA FrontAndLast ==
    ASSUME NEW S, NEW seq \in Seq(S), Len(seq) >= 1
    PROVE  /\ Front(seq) \in Seq(S) /\ Last(seq) \in S /\ seq = Append(Front(seq), Last(seq))
           /\ Last(seq) = seq[Len(seq)]
<1>1. Front(seq) \in Seq(S) /\ Len(Front(seq)) = Len(seq) - 1 /\ \A i \in 1..Len(seq) - 1 : Front(seq)[i] = seq[i]
  BY FrontOf
<1>2. Last(seq) = seq[Len(seq)] /\ Last(seq) \in S /\ Len(seq) \in Nat
  BY DEF Last
<1> DEFINE a == Append(Front(seq), Last(seq))
<1>3. a \in Seq(S) /\ Len(a) = Len(Front(seq)) + 1
      /\ (\A i \in 1..Len(Front(seq)) : a[i] = Front(seq)[i]) /\ a[Len(Front(seq)) + 1] = Last(seq)
  <2> DEFINE f == Front(seq)
             x == Last(seq)
  <2>1. f \in Seq(S) /\ x \in S
    BY <1>1, <1>2
  <2> HIDE DEF f, x
  <2> QED
    BY <2>1, LastOfAppend DEF f, x
<1>4. Len(a) = Len(seq) /\ \A i \in 1..Len(seq) : a[i] = seq[i]
  <2> DEFINE f == Front(seq)
             x == Last(seq)
  <2> HIDE DEF f, x, a
  <2>1. Len(f) = Len(seq) - 1 /\ (\A i \in 1..Len(seq) - 1 : f[i] = seq[i]) /\ x = seq[Len(seq)]
        /\ Len(a) = Len(f) + 1 /\ (\A i \in 1..Len(f) : a[i] = f[i]) /\ a[Len(f) + 1] = x
    BY <1>1, <1>2, <1>3 DEF f, x
  <2> QED
    BY <1>2, <2>1
<1> HIDE DEF a
<1>5. a = seq
  BY <1>3, <1>4, SeqEqual
<1> QED
  BY <1>1, <1>2, <1>5 DEF a

(* A new local's leaf is behind the others of its function. *)
LEMMA LeafAdded ==
    ASSUME NEW s, NEW n, NEW l, NEW e, Inv(s, n, l, e), NEW sc, NEW c, Becomes(s, e, sc, c),
           NEW s2, s2 = [s EXCEPT ![Len(s)] = sc], NEW e2, e2 = [e EXCEPT ![Len(e)] = c],
           Len(l) >= 1, Len(e) >= 2, NEW q \in Names, ~Has(s[Len(s)].variables, q),
           Has(sc.variables, q), Value(sc.variables, q).scope_id = s[Len(s)].scope_id,
           \A p \in Names : p # q /\ Has(sc.variables, p) =>
              Has(s[Len(s)].variables, p) /\ Value(sc.variables, p) = Value(s[Len(s)].variables, p),
           NEW list, list = Append(l[Len(l)], Leaf(q, s[Len(s)].scope_id, Len(e)))
    PROVE  list \in Seq(LeafType) /\ Stored(list, s2, e2, Len(l), n)
<1> DEFINE f == Len(l)
           k == Len(s)
           old == l[f]
           m == Len(old)
           i0 == s[k].scope_id
           leaf == Leaf(q, i0, k)
<1>1. /\ s \in Seq(ScopeType) /\ n \in Nat /\ l \in Seq(Seq(LeafType)) /\ k = Len(e) /\ k \in 1..MaxDepth
      /\ f \in Nat /\ f \in 1..f /\ k \in 1..k /\ k \in Nat /\ 1 \in 1..k /\ 1 < k
  BY Parts, BoundsAssumption
<1>2. Stored(old, s, e, f, n) /\ f = Owner(e, k)
  BY <1>1, Parts
<1>3. i0 \in 1..n
  <2>1. s[1].scope_id = 0 /\ s[1].scope_id < i0 /\ i0 <= n /\ s[k] \in ScopeType
    BY <1>1, Parts
  <2>2. i0 \in Nat
    BY <2>1 DEF ScopeType
  <2> HIDE DEF i0
  <2> QED
    BY <1>1, <2>1, <2>2
<1>4. old \in Seq(LeafType) /\ m \in Nat /\ DOMAIN old = 1..m
  BY <1>1, ElementOfSeq
<1>5. leaf \in LeafType /\ leaf.name = jitc_scoped_name(q, i0)
  <2>1. jitc_scoped_name(q, i0) \in Nat
    <3> HIDE DEF i0
    <3>1. i0 \in Nat
      BY <1>3
    <3> QED
      BY <3>1, ScopedOnce
  <2> HIDE DEF i0, k
  <2> QED
    BY <1>1, <2>1 DEF Leaf, LeafType
<1>6. /\ list \in Seq(LeafType) /\ Len(list) = m + 1 /\ \A i \in 1..m : list[i] = old[i]
      /\ list[m + 1] = leaf
  <2>1. list = Append(old, leaf)
    BY <1>1
  <2> HIDE DEF old, leaf
  <2> QED
    BY <1>4, <1>5, <2>1, LastOfAppend
<1>7. DOMAIN list = 1..m + 1 /\ \A i \in 1..m + 1 : i \in 1..m \/ i = m + 1
  <2> HIDE DEF old, leaf, m
  <2> QED
    BY <1>4, <1>6
<1>8. \A i \in 1..m : i \in 1..m + 1 /\ i # m + 1
  <2> HIDE DEF m
  <2> QED
    BY <1>4
<1> HIDE DEF m, leaf, i0, f, k, old
<1>9. \A i \in 1..m : IsArgument(old[i], s, e, f) \/ IsLocal(old[i], s, n)
  BY <1>2, <1>4, Zenon DEF Stored
<1>10. \A i \in 1..m : old[i].name # leaf.name
  <2> SUFFICES ASSUME NEW i \in 1..m, old[i].name = leaf.name
               PROVE  FALSE
    OBVIOUS
  <2>1. ASSUME IsArgument(old[i], s, e, f)
        PROVE  FALSE
    <3>1. PICK p \in Names : old[i].name = p
      BY <2>1, Zenon DEF IsArgument
    <3>2. p = jitc_scoped_name(p, 0) /\ jitc_scoped_name(p, 0) = jitc_scoped_name(q, i0)
      BY <3>1, <1>5, ScopedOnce
    <3>3. 0 = i0
      BY <3>2, <1>3, ScopedOnce
    <3> QED
      BY <3>3, <1>3
  <2>2. ASSUME IsLocal(old[i], s, n)
        PROVE  FALSE
    <3>1. PICK p \in Names, j \in 1..n :
             /\ old[i].name = jitc_scoped_name(p, j)
             /\ \A d \in 1..Len(s) : s[d].scope_id = j => Has(s[d].variables, p)
      BY <2>2, Zenon DEF IsLocal
    <3>2. jitc_scoped_name(p, j) = jitc_scoped_name(q, i0)
      BY <3>1, <1>5
    <3>3. p = q /\ j = i0
      BY <3>2, <1>3, ScopedOnce
    <3>4. k \in 1..Len(s) /\ s[k].scope_id = i0
      BY <1>1 DEF k, i0
    <3>5. Has(s[k].variables, q)
      BY <3>1, <3>3, <3>4, Zenon
    <3> QED
      BY <3>5 DEF k
  <2> QED
    BY <1>9, <2>1, <2>2
<1>11. \A i, j \in 1..m : old[i].name = old[j].name => i = j
  BY <1>2, <1>4, Zenon DEF Stored
<1>12. ASSUME NEW i \in 1..m + 1, NEW j \in 1..m + 1, list[i].name = list[j].name
       PROVE  i = j
  <2>1. CASE i \in 1..m /\ j \in 1..m
    BY <1>6, <1>11, <1>12, <2>1, Zenon
  <2>2. CASE i \in 1..m /\ j = m + 1
    <3>1. list[i] = old[i] /\ list[j] = leaf
      BY <1>6, <2>2, Zenon
    <3> QED
      BY <1>10, <1>12, <2>2, <3>1, Zenon
  <2>3. CASE i = m + 1 /\ j \in 1..m
    <3>1. list[j] = old[j] /\ list[i] = leaf
      BY <1>6, <2>3, Zenon
    <3> QED
      BY <1>10, <1>12, <2>3, <3>1, Zenon
  <2>4. CASE i = m + 1 /\ j = m + 1
    BY <2>4
  <2> QED
    BY <1>7, <2>1, <2>2, <2>3, <2>4, Zenon
<1>13. /\ Len(s2) = Len(s) /\ s2[k] = sc
       /\ \A d \in 1..Len(s) : d # k => s2[d] = s[d]
       /\ \A d \in 1..Len(s) : e2[d].kind = e[d].kind /\ s2[d].scope_id = s[d].scope_id
       /\ \A d \in 1..Len(s) : Owner(e2, d) = Owner(e, d)
  <2>1. LastReplaced(s, e, sc, c, s2, e2)
    BY Replaced, Zenon
  <2> QED
    BY <2>1, Zenon DEF LastReplaced, k
<1>14. ASSUME NEW d \in 1..Len(s), Owner(e2, d) = f, NEW p \in Names,
              Has(s2[d].variables, p), Value(s2[d].variables, p).type = "none"
       PROVE  \E i \in 1..m + 1 : list[i] = Leaf(p, Value(s2[d].variables, p).scope_id, d)
  <2>1. CASE d = k /\ p = q
    <3>1. Value(s2[d].variables, p).scope_id = i0
      BY <1>13, <2>1, Zenon DEF i0, k
    <3>2. m + 1 \in 1..m + 1
      BY <1>4
    <3> QED
      BY <1>6, <2>1, <3>1, <3>2, Zenon DEF leaf
  <2>2. CASE ~(d = k /\ p = q)
    <3>1. Has(s[d].variables, p) /\ Value(s2[d].variables, p) = Value(s[d].variables, p)
      <4>1. CASE d = k
        <5>1. p # q /\ s2[d] = sc /\ Has(sc.variables, p)
          BY <1>13, <1>14, <2>2, <4>1, Zenon
        <5>2. Has(s[Len(s)].variables, p) /\ Value(sc.variables, p) = Value(s[Len(s)].variables, p)
          BY <5>1, Zenon
        <5> QED
          BY <4>1, <5>1, <5>2, Zenon DEF k
      <4>2. CASE d # k
        BY <1>13, <1>14, <4>2, Zenon
      <4> QED
        BY <4>1, <4>2
    <3>2. Owner(e, d) = f /\ Value(s[d].variables, p).type = "none"
      BY <1>13, <1>14, <3>1, Zenon
    <3>3. PICK i \in DOMAIN old : old[i] = Leaf(p, Value(s[d].variables, p).scope_id, d)
      BY <1>2, <3>1, <3>2, Zenon DEF Stored
    <3> QED
      BY <1>4, <1>6, <1>8, <3>1, <3>3, Zenon
  <2> QED
    BY <2>1, <2>2
<1>15. ASSUME NEW i \in 1..m + 1
       PROVE  IsArgument(list[i], s2, e2, f) \/ IsLocal(list[i], s2, n)
  <2>1. CASE i \in 1..m
    <3>1. Keeps(s, e, n, s2, e2, f)
      BY StillKept, Zenon
    <3>2. n <= n
      BY <1>1
    <3>3. list[i] = old[i]
      BY <1>6, <2>1, Zenon
    <3>4. IsArgument(old[i], s, e, f) \/ IsLocal(old[i], s, n)
      BY <1>9, <2>1
    <3>5. IsArgument(old[i], s2, e2, f) \/ IsLocal(old[i], s2, n)
      BY <1>1, <3>1, <3>2, <3>4, LeafStays
    <3> QED
      BY <3>3, <3>5
  <2>2. CASE i = m + 1
    <3>1. ASSUME NEW d \in 1..Len(s2), s2[d].scope_id = i0
          PROVE  Has(s2[d].variables, q)
      <4>1. d \in 1..Len(s) /\ s[d].scope_id = i0
        BY <1>13, <3>1
      <4>2. d = k
        <5>1. \A a, b \in 1..Len(s) : a < b => s[a].scope_id < s[b].scope_id
          BY Parts
        <5>2. k \in 1..Len(s) /\ s[k].scope_id = i0
          BY <1>1 DEF k, i0
        <5>3. ~(d < k)
          BY <1>3, <4>1, <5>1, <5>2
        <5> QED
          BY <1>1, <4>1, <5>3 DEF k
      <4> QED
        BY <1>13, <4>2
    <3>2. list[i].name = jitc_scoped_name(q, i0)
      BY <1>5, <1>6, <2>2
    <3>3. \A d \in 1..Len(s2) : s2[d].scope_id = i0 => Has(s2[d].variables, q)
      BY <3>1
    <3>4. IsLocal(list[i], s2, n)
      BY <1>3, <3>2, <3>3 DEF IsLocal
    <3> QED
      BY <3>4
  <2> QED
    BY <1>7, <2>1, <2>2
<1>16. Stored(list, s2, e2, f, n)
  <2>1. \A i, j \in DOMAIN list : list[i].name = list[j].name => i = j
    BY <1>7, <1>12
  <2>2. \A d \in 1..Len(s2) : Owner(e2, d) = f =>
           \A p \in Names : Has(s2[d].variables, p) /\ Value(s2[d].variables, p).type = "none" =>
               \E i \in DOMAIN list : list[i] = Leaf(p, Value(s2[d].variables, p).scope_id, d)
    BY <1>7, <1>13, <1>14, Zenon
  <2>3. \A i \in DOMAIN list : IsArgument(list[i], s2, e2, f) \/ IsLocal(list[i], s2, n)
    BY <1>7, <1>15, Zenon
  <2> QED
    BY <2>1, <2>2, <2>3, Zenon DEF Stored
<1> QED
  BY <1>6, <1>16 DEF f

(* A declaration in the scope that is last, where it is allowed. *)
LEMMA Declared ==
    ASSUME NEW s, NEW n, NEW l, NEW e, Inv(s, n, l, e), NEW q \in Names, NEW type \in VarType,
           MayDeclare(s, q, type)
    PROVE  Inv(jitc_declare_variable(s, q, type, FALSE, Len(e)), n,
               IF l = <<>> \/ type # "none" THEN l
               ELSE [l EXCEPT ![Len(l)] = Append(@, Leaf(q, Last(s).scope_id, Len(e)))],
               [e EXCEPT ![Len(e)].names = @ \union {q}])
<1> DEFINE k == Len(e)
           old == s[k]
           c == [e[k] EXCEPT !.names = @ \union {q}]
           e2 == [e EXCEPT ![k] = c]
           s2 == jitc_declare_variable(s, q, type, FALSE, k)
           v == [type |-> type, where |-> k, scope_id |-> old.scope_id]
           l2 == IF l = <<>> \/ type # "none" THEN l
                 ELSE [l EXCEPT ![Len(l)] = Append(@, Leaf(q, old.scope_id, k))]
<1>1. /\ s \in Seq(ScopeType) /\ n \in Nat /\ l \in Seq(Seq(LeafType)) /\ e \in Seq(CScope)
      /\ Len(s) = k /\ k \in 1..k /\ k \in Nat /\ k >= 1 /\ Len(l) \in Nat
  BY Parts
<1>2. old \in ScopeType /\ e[k] \in CScope /\ Matches(old, e[k], k)
  BY <1>1, Parts
<1>3. /\ Front(s) \in Seq(ScopeType) /\ Last(s) = old /\ s = Append(Front(s), old)
  BY <1>1, FrontAndLast
<1>4. q \in Int
  BY NamesAssumption
<1>5. PICK new \in ScopeType :
         /\ s2 = Append(Front(s), new)
         /\ Grown(old, new, {q}, v)
  <2>1. \E new \in ScopeType :
           /\ jitc_declare_variable(Append(Front(s), old), q, type, FALSE, k) = Append(Front(s), new)
           /\ Grown(old, new, {q}, [type |-> type, where |-> k,
                                    scope_id |-> IF FALSE THEN 0 ELSE old.scope_id])
    <3> DEFINE t == Front(s)
               o == old
    <3>1. t \in Seq(ScopeType) /\ o \in ScopeType
      BY <1>2, <1>3
    <3> HIDE DEF t, o, k
    <3>2. \E new \in ScopeType :
           /\ jitc_declare_variable(Append(t, o), q, type, FALSE, k) = Append(t, new)
           /\ Grown(o, new, {q}, [type |-> type, where |-> k,
                                  scope_id |-> IF FALSE THEN 0 ELSE o.scope_id])
      BY <1>1, <1>4, <3>1, DeclaredInLast
    <3> QED
      BY <3>2 DEF t, o
  <2>2. (IF FALSE THEN 0 ELSE old.scope_id) = old.scope_id
    OBVIOUS
  <2> HIDE DEF old, k
  <2> QED
    BY <1>3, <2>1, <2>2
<1>6. s2 = [s EXCEPT ![Len(s)] = new]
  <2> DEFINE t == Front(s)
             o == old
  <2>1. t \in Seq(ScopeType) /\ o \in ScopeType /\ s = Append(t, o)
    BY <1>2, <1>3
  <2> HIDE DEF t, o
  <2>2. [Append(t, o) EXCEPT ![Len(Append(t, o))] = new] = Append(t, new)
    BY <2>1, ReplaceLast
  <2> HIDE DEF s2
  <2> QED
    BY <1>5, <2>1, <2>2 DEF t
<1>7. [e EXCEPT ![k].names = @ \union {q}] = e2
  BY <1>1, <1>2
<1>8. c \in CScope /\ c.kind = e[k].kind /\ c.names = e[k].names \union {q} /\ c.tags = e[k].tags
  <2> DEFINE x == e[k]
  <2> HIDE DEF x
  <2>1. x \in [kind : Kinds, tag : Names \union {NoTag}, names : SUBSET Names, tags : SUBSET Names]
    BY <1>2 DEF x, CScope
  <2>2. [x EXCEPT !.names = @ \union {q}] \in CScope
    BY <2>1 DEF CScope
  <2> QED
    BY <2>1, <2>2 DEF x
<1>9. /\ new.tagged = old.tagged /\ new.func = old.func /\ new.scope_id = old.scope_id
      /\ \A p \in Names : Has(new.variables, p) <=> p = q \/ Has(old.variables, p)
      /\ \A p \in Names : Has(old.variables, p) => Value(new.variables, p) = Value(old.variables, p)
      /\ ~Has(old.variables, q) => Value(new.variables, q) = v
  <2>1. \A p \in Names : p \in Int
    BY NamesAssumption
  <2> HIDE DEF old, v
  <2> QED
    BY <1>5, <2>1 DEF Grown
<1>10. v.where = k /\ v.scope_id = old.scope_id /\ v.type = type
  OBVIOUS
<1> HIDE DEF v, c, e2, s2, old, k
<1>11. Matches(new, c, k)
  <2>1. /\ old.func <=> e[k].kind = "lambda"
        /\ \A p \in Names : Has(old.variables, p) <=> p \in e[k].names
        /\ \A p \in Names : Has(old.variables, p) =>
              Value(old.variables, p).where = k /\ Value(old.variables, p).scope_id \in {0, old.scope_id}
        /\ TagsMatch(old, e[k], k)
    BY <1>2, Zenon DEF Matches
  <2>2. \A p \in Names : Has(new.variables, p) <=> p \in c.names
    BY <1>8, <1>9, <2>1
  <2>3. ASSUME NEW p \in Names, Has(new.variables, p)
        PROVE  Value(new.variables, p).where = k /\ Value(new.variables, p).scope_id \in {0, new.scope_id}
    <3>1. CASE Has(old.variables, p)
      BY <1>9, <2>1, <3>1
    <3>2. CASE ~Has(old.variables, p)
      BY <1>9, <1>10, <2>3, <3>2
    <3> QED
      BY <3>1, <3>2
  <2>4. (new.func <=> c.kind = "lambda") /\ TagsMatch(new, c, k)
    BY <1>8, <1>9, <2>1, Zenon DEF TagsMatch
  <2> QED
    BY <2>2, <2>3, <2>4, Zenon DEF Matches
<1>12. Becomes(s, e, new, c)
  BY <1>1, <1>5, <1>8, <1>9, <1>11, Zenon DEF Becomes, old, k
<1>13. e2 = [e EXCEPT ![Len(e)] = c]
  BY DEF e2, k
<1>14. CASE l = <<>> \/ type # "none"
  <2>1. l2 = l
    BY <1>14
  <2>2. ASSUME NEW p \in Names, Has(new.variables, p), Value(new.variables, p).type = "none", l # <<>>
        PROVE  Has(old.variables, p) /\ Value(new.variables, p) = Value(old.variables, p)
    <3>1. CASE Has(old.variables, p)
      BY <1>9, <3>1
    <3>2. CASE ~Has(old.variables, p)
      BY <1>9, <1>10, <1>14, <2>2, <3>2
    <3> QED
      BY <3>1, <3>2
  <2>3. ASSUME NEW f \in 1..Len(l)
        PROVE  Stored(l[f], s2, e2, f, n)
    <3>1. l # <<>>
      BY <1>1
    <3>2. \A p \in Names : Has(new.variables, p) /\ Value(new.variables, p).type = "none" =>
              Has(s[Len(s)].variables, p) /\ Value(new.variables, p) = Value(s[Len(s)].variables, p)
      BY <1>1, <2>2, <3>1, Zenon DEF old
    <3> QED
      BY <1>6, <1>12, <1>13, <3>2, StillStored, Zenon
  <2>4. Inv(s2, n, l, e2)
    BY <1>1, <1>6, <1>12, <1>13, <2>3, Changed, Zenon
  <2> QED
    BY <1>3, <1>7, <1>14, <2>4 DEF s2, k, old
<1>15. CASE ~(l = <<>> \/ type # "none")
  <2>1. Len(l) >= 1 /\ type = "none" /\ Len(l) \in 1..Len(l)
    BY <1>1, <1>15
  <2>2. k >= 2
    <3>1. Len(l) = Owner(e, k)
      BY Parts DEF k
    <3>2. Owner(e, 0 + 1) = IF e[0 + 1].kind \in Functions THEN Owner(e, 0) + 1 ELSE Owner(e, 0)
      BY OwnerNext
    <3>3. e[1].kind = "file"
      <4>1. 1 \in 1..Len(s)
        BY <1>1
      <4> QED
        BY <4>1, Parts DEF Placed
    <3>4. Owner(e, 1) = 0
      <4>1. Owner(e, 0) = 0
        BY OwnerType
      <4>2. e[1].kind \notin Functions
        BY <3>3 DEF Functions
      <4> QED
        BY <3>2, <4>1, <4>2
    <3>5. k # 1
      BY <2>1, <3>1, <3>4
    <3> QED
      BY <1>1, <3>5
  <2>3. ~Has(old.variables, q)
    BY <1>1, <1>3, <2>2 DEF MayDeclare
  <2> DEFINE leaf == Leaf(q, old.scope_id, k)
             list == Append(l[Len(l)], leaf)
             l3 == [l EXCEPT ![Len(l)] = list]
  <2>4. Value(new.variables, q).scope_id = old.scope_id /\ Has(new.variables, q)
    BY <1>9, <1>10, <2>3
  <2>5. \A p \in Names : p # q /\ Has(new.variables, p) =>
              Has(old.variables, p) /\ Value(new.variables, p) = Value(old.variables, p)
    BY <1>9, Zenon
  <2>6. list \in Seq(LeafType) /\ Stored(list, s2, e2, Len(l), n)
    <3> HIDE DEF leaf
    <3>1. old = s[Len(s)] /\ leaf = Leaf(q, s[Len(s)].scope_id, Len(e)) /\ Len(e) >= 2
      BY <1>1, <2>2 DEF old, k, leaf
    <3>2. list = Append(l[Len(l)], Leaf(q, s[Len(s)].scope_id, Len(e)))
      BY <3>1
    <3>3. ~Has(s[Len(s)].variables, q) /\ Value(new.variables, q).scope_id = s[Len(s)].scope_id
      BY <2>3, <2>4, <3>1, Zenon
    <3>4. \A p \in Names : p # q /\ Has(new.variables, p) =>
              Has(s[Len(s)].variables, p) /\ Value(new.variables, p) = Value(s[Len(s)].variables, p)
      BY <2>5, <3>1, Zenon
    <3> HIDE DEF list
    <3> QED
      BY <1>6, <1>12, <1>13, <2>1, <2>4, <3>1, <3>2, <3>3, <3>4, LeafAdded, Zenon
  <2> HIDE DEF list, leaf
  <2>7. /\ l3 \in Seq(Seq(LeafType)) /\ Len(l3) = Len(l)
        /\ \A f \in 1..Len(l) : l3[f] = IF f = Len(l) THEN list ELSE l[f]
    <3> DEFINE T == Seq(LeafType)
    <3>1. l \in Seq(T) /\ list \in T
      BY <1>1, <2>6
    <3> HIDE DEF T
    <3>2. /\ l3 \in Seq(T) /\ Len(l3) = Len(l)
          /\ \A f \in 1..Len(l) : l3[f] = IF f = Len(l) THEN list ELSE l[f]
      BY <2>1, <3>1, ExceptSeq
    <3> QED
      BY <3>2 DEF T
  <2> HIDE DEF l3
  <2>8. ASSUME NEW f \in 1..Len(l)
        PROVE  Stored(l3[f], s2, e2, f, n)
    <3>1. CASE f = Len(l)
      BY <2>6, <2>7, <3>1, Zenon
    <3>2. CASE f # Len(l)
      <4>1. Stored(l[f], s2, e2, f, n)
        BY <1>6, <1>12, <1>13, <3>2, StillStored, Zenon
      <4> QED
        BY <2>7, <3>2, <4>1, Zenon
    <3> QED
      BY <3>1, <3>2
  <2>9. Inv(s2, n, l3, e2)
    BY <1>6, <1>12, <1>13, <2>7, <2>8, Changed, Zenon
  <2>10. l2 = l3
    BY <1>15 DEF l3, list, leaf
  <2> QED
    BY <1>3, <1>7, <1>15, <2>9, <2>10 DEF s2, k, old
<1> QED
  BY <1>14, <1>15

StandsAt(w, e) == "nested" \notin Forms => w = Len(e)

(* The tag of a struct, given in the scope it stands in: of a struct that  *)
(* is defined in another, where does not matter.                           *)
LEMMA Tagged ==
    ASSUME NEW s, NEW n, NEW l, NEW e, Inv(s, n, l, e), NEW tag \in Names, NEW w \in Nat,
           StandsAt(w, e)
    PROVE  Inv(jitc_declare_tagged_type(s, tag, w), n, l, [e EXCEPT ![Len(e)].tags = @ \union {tag}])
<1> DEFINE k == Len(e)
           old == s[k]
           m == old.tagged
           t == IF Has(m, tag) THEN SetValue(map_find(m, tag), w) ELSE Put(m, tag, w)
           new == [old EXCEPT !.tagged = t]
           c == [e[k] EXCEPT !.tags = @ \union {tag}]
           e2 == [e EXCEPT ![k] = c]
           s2 == [s EXCEPT ![k] = new]
<1>1. /\ s \in Seq(ScopeType) /\ n \in Nat /\ l \in Seq(Seq(LeafType)) /\ e \in Seq(CScope)
      /\ Len(s) = k /\ k \in 1..k /\ k \in Nat /\ Len(l) \in Nat
  BY Parts
<1>2. old \in ScopeType /\ e[k] \in CScope /\ Matches(old, e[k], k)
  BY <1>1, Parts
<1>3. m \in Maps(Nat) /\ tag \in Int /\ \A p \in Names : p \in Int
  BY <1>2, NamesAssumption DEF ScopeType
<1> HIDE DEF k, m
<1>4. /\ t \in Maps(Nat)
      /\ \A p \in Int : Has(t, p) <=> p = tag \/ Has(m, p)
      /\ Value(t, tag) = w
      /\ \A p \in Int : p # tag /\ Has(m, p) => Value(t, p) = Value(m, p)
  <2>1. CASE Has(m, tag)
    <3> DEFINE f == map_find(m, tag)
               u == SetValue(f, w)
    <3>1. f \in Maps(Nat) /\ f.entries = m.entries /\ f.cursor \in 1..map_size(m)
          /\ m.entries[f.cursor].key = tag
      BY <1>3, <2>1, Found
    <3>2. map_size(m) \in Nat
      BY <1>3, MapType
    <3>3. f.cursor # 0 /\ f.entries[f.cursor].key = tag
      BY <3>1, <3>2
    <3>4. \A p \in Int : (Has(f, p) <=> Has(m, p)) /\ Value(f, p) = Value(m, p)
      BY <1>3, Has_find
    <3> HIDE DEF f, old, c, new, e2, s2
    <3>9. f \in Maps(Nat) /\ tag \in Int /\ w \in Nat
      BY <1>3, <3>1
    <3>5. u \in Maps(Nat) /\ Has(f, tag) /\ Value(u, tag) = w
      BY <3>3, <3>9, Assigned
    <3>6. \A p \in Int : Has(u, p) <=> Has(f, p)
      BY <3>3, <3>9, Assigned
    <3>7. \A p \in Int : Has(f, p) /\ p # tag => Value(u, p) = Value(f, p)
      BY <3>3, <3>9, Assigned
    <3>8. t = u
      BY <2>1 DEF f
    <3> HIDE DEF t, u
    <3> QED
      BY <1>3, <3>4, <3>5, <3>6, <3>7, <3>8, Zenon
  <2>2. CASE ~Has(m, tag)
    <3>1. t = Put(m, tag, w)
      BY <2>2
    <3> HIDE DEF t
    <3>2. t \in Maps(Nat)
      BY <1>1, <1>3, <3>1, PutIs
    <3>3. \A p \in Int : Has(t, p) <=> p = tag \/ Has(m, p)
      BY <1>1, <1>3, <3>1, PutIs
    <3>4. Value(t, tag) = w
      BY <1>1, <1>3, <3>1, PutIs
    <3>5. \A p \in Int : p # tag /\ Has(m, p) => Value(t, p) = Value(m, p)
      BY <1>1, <1>3, <3>1, PutIs
    <3> QED
      BY <3>2, <3>3, <3>4, <3>5
  <2> QED
    BY <2>1, <2>2
<1>5. jitc_declare_tagged_type(s, tag, w) = s2
  BY <1>1 DEF jitc_declare_tagged_type, m
<1>6. [e EXCEPT ![k].tags = @ \union {tag}] = e2
  BY <1>1, <1>2
<1>7. c \in CScope /\ c.kind = e[k].kind /\ c.names = e[k].names /\ c.tags = e[k].tags \union {tag}
  <2> DEFINE x == e[k]
  <2> HIDE DEF x
  <2>1. x \in [kind : Kinds, tag : Names \union {NoTag}, names : SUBSET Names, tags : SUBSET Names]
    BY <1>2 DEF x, CScope
  <2>2. [x EXCEPT !.tags = @ \union {tag}] \in CScope
    BY <2>1 DEF CScope
  <2> QED
    BY <2>1, <2>2 DEF x
<1> HIDE DEF t
<1>8. /\ new \in ScopeType /\ new.tagged = t /\ new.variables = old.variables /\ new.func = old.func
      /\ new.scope_id = old.scope_id
  <2> HIDE DEF old
  <2> QED
    BY <1>2, <1>4 DEF ScopeType
<1> HIDE DEF c, old, new, e2, s2
<1>9. Matches(new, c, k)
  <2>1. /\ old.func <=> e[k].kind = "lambda"
        /\ \A p \in Names : Has(old.variables, p) <=> p \in e[k].names
        /\ \A p \in Names : Has(old.variables, p) =>
              Value(old.variables, p).where = k /\ Value(old.variables, p).scope_id \in {0, old.scope_id}
        /\ TagsMatch(old, e[k], k)
    BY <1>2, Zenon DEF Matches
  <2>2. ASSUME "nested" \notin Forms
        PROVE  \A p \in Names : Has(t, p) <=> p \in c.tags
    <3>1. \A p \in Names : Has(m, p) <=> p \in e[k].tags
      BY <2>1, <2>2, Zenon DEF TagsMatch, m, old
    <3> QED
      BY <1>3, <1>4, <1>7, <3>1
  <2>3. ASSUME "nested" \notin Forms, NEW p \in Names, Has(t, p)
        PROVE  Value(t, p) = k
    <3>1. p \in Int /\ w = k
      BY <1>3, <2>3 DEF k, StandsAt
    <3>2. CASE p = tag
      BY <1>4, <3>1, <3>2
    <3>3. CASE p # tag
      <4>1. Has(m, p)
        BY <1>4, <2>3, <3>1, <3>3, Zenon
      <4>2. Value(t, p) = Value(m, p)
        BY <1>4, <3>1, <3>3, <4>1, Zenon
      <4>3. Value(m, p) = k
        BY <2>1, <2>3, <4>1, Zenon DEF TagsMatch, m, old
      <4> QED
        BY <4>2, <4>3
    <3> QED
      BY <3>2, <3>3
  <2>4. /\ new.func <=> c.kind = "lambda"
        /\ \A p \in Names : Has(new.variables, p) <=> p \in c.names
        /\ \A p \in Names : Has(new.variables, p) =>
              Value(new.variables, p).where = k /\ Value(new.variables, p).scope_id \in {0, new.scope_id}
    BY <1>7, <1>8, <2>1, Zenon
  <2>5. TagsMatch(new, c, k)
    BY <1>8, <2>2, <2>3, Zenon DEF TagsMatch
  <2> QED
    BY <2>4, <2>5, Zenon DEF Matches
<1>10. Becomes(s, e, new, c)
  BY <1>1, <1>7, <1>8, <1>9, Zenon DEF Becomes, old, k
<1>11. e2 = [e EXCEPT ![Len(e)] = c] /\ s2 = [s EXCEPT ![Len(s)] = new]
  BY <1>1 DEF e2, s2, k
<1>12. ASSUME NEW f \in 1..Len(l)
       PROVE  Stored(l[f], s2, e2, f, n)
  <2>1. new.variables = s[Len(s)].variables
    BY <1>1, <1>8, Zenon DEF old
  <2>2. \A p \in Names : Has(new.variables, p) /\ Value(new.variables, p).type = "none" =>
            Has(s[Len(s)].variables, p) /\ Value(new.variables, p) = Value(s[Len(s)].variables, p)
    BY <2>1, Zenon
  <2> QED
    BY <1>10, <1>11, <2>2, StillStored, Zenon
<1>13. Inv(s2, n, l, e2)
  BY <1>1, <1>10, <1>11, <1>12, Changed, Zenon
<1> QED
  BY <1>5, <1>6, <1>13 DEF k
--------------------------------------------------------------------------------
(* The scope that is pushed after n others, before and after something is  *)
(* declared in it: arguments, types and "return", which is none of Names.  *)
Fresh(n, func) == [variables |-> map_new, tagged |-> map_new, func |-> func, scope_id |-> n + 1]

Opened(sc, n, func, arguments, types, d) ==
    /\ sc \in ScopeType /\ sc.func = func /\ sc.scope_id = n + 1
    /\ \A q \in Names : ~Has(sc.tagged, q)
    /\ \A q \in Names : Has(sc.variables, q) <=> q \in arguments \/ q \in types
    /\ \A q \in arguments : Value(sc.variables, q) = [type |-> "none", where |-> d, scope_id |-> 0]
    /\ \A q \in types : Value(sc.variables, q) = [type |-> "typedef", where |-> d, scope_id |-> n + 1]

LEMMA FreshIsOpened ==
    ASSUME NEW n \in Nat, NEW func \in BOOLEAN, NEW d
    PROVE  Opened(Fresh(n, func), n, func, {}, {}, d)
<1>1. map_new \in Maps(Variable) /\ map_new \in Maps(Nat) /\ \A q \in Int : ~Has(map_new, q)
  BY NewMap
<1>2. \A q \in Names : q \in Int
  BY NamesAssumption
<1> DEFINE sc == Fresh(n, func)
<1>3. sc.variables = map_new /\ sc.tagged = map_new /\ sc.func = func /\ sc.scope_id = n + 1 /\ sc \in ScopeType
  BY <1>1 DEF Fresh, ScopeType
<1> HIDE DEF sc
<1>4. Opened(sc, n, func, {}, {}, d)
  BY <1>1, <1>2, <1>3 DEF Opened
<1> QED
  BY <1>4 DEF sc

LEMMA RecordChanged ==
    ASSUME NEW m, NEW k, NEW z
    PROVE  /\ [[variables |-> m, tagged |-> m, func |-> FALSE, scope_id |-> z] EXCEPT !.scope_id = k]
                 = [variables |-> m, tagged |-> m, func |-> FALSE, scope_id |-> k]
           /\ [[variables |-> m, tagged |-> m, func |-> FALSE, scope_id |-> k] EXCEPT !.func = TRUE]
                 = [variables |-> m, tagged |-> m, func |-> TRUE, scope_id |-> k]
<1>1. [[variables |-> m, tagged |-> m, func |-> FALSE, scope_id |-> z] EXCEPT !.scope_id = k]
        = [variables |-> m, tagged |-> m, func |-> FALSE, scope_id |-> k]
  <2> DEFINE a == [[variables |-> m, tagged |-> m, func |-> FALSE, scope_id |-> z] EXCEPT !.scope_id = k]
  <2>1. a \in [variables : {m}, tagged : {m}, func : BOOLEAN, scope_id : {z, k}]
    OBVIOUS
  <2>2. a.variables = m /\ a.tagged = m /\ a.func = FALSE /\ a.scope_id = k
    OBVIOUS
  <2>3. a = [variables |-> a.variables, tagged |-> a.tagged, func |-> a.func, scope_id |-> a.scope_id]
    <3> HIDE DEF a
    <3> QED
      BY <2>1
  <2> QED
    BY <2>2, <2>3
<1>2. [[variables |-> m, tagged |-> m, func |-> FALSE, scope_id |-> k] EXCEPT !.func = TRUE]
        = [variables |-> m, tagged |-> m, func |-> TRUE, scope_id |-> k]
  <2> DEFINE a == [[variables |-> m, tagged |-> m, func |-> FALSE, scope_id |-> k] EXCEPT !.func = TRUE]
  <2>1. a \in [variables : {m}, tagged : {m}, func : BOOLEAN, scope_id : {z, k}]
    OBVIOUS
  <2>2. a.variables = m /\ a.tagged = m /\ a.func = TRUE /\ a.scope_id = k
    OBVIOUS
  <2>3. a = [variables |-> a.variables, tagged |-> a.tagged, func |-> a.func, scope_id |-> a.scope_id]
    <3> HIDE DEF a
    <3> QED
      BY <2>1
  <2> QED
    BY <2>2, <2>3
<1> QED
  BY <1>1, <1>2

LEMMA FreshIsPushed ==
    ASSUME NEW s \in Seq(ScopeType), Len(s) >= 1, NEW n
    PROVE  /\ jitc_push_scope(s, n) = Append(s, Fresh(n, FALSE))
           /\ jitc_push_function(s, n) = Append(s, Fresh(n, TRUE))
<1>1. s # <<>>
  OBVIOUS
<1>2. ScopeId(s, n) = n + 1
  BY <1>1 DEF ScopeId
<1> DEFINE k == n + 1
           z == 0
           m == map_new
<1>3. NoScope = [variables |-> m, tagged |-> m, func |-> FALSE, scope_id |-> z]
      /\ Fresh(n, FALSE) = [variables |-> m, tagged |-> m, func |-> FALSE, scope_id |-> k]
      /\ Fresh(n, TRUE) = [variables |-> m, tagged |-> m, func |-> TRUE, scope_id |-> k]
  BY DEF NoScope, Fresh
<1>4. /\ jitc_push_scope(s, n) = Append(s, [NoScope EXCEPT !.scope_id = k])
      /\ jitc_push_function(s, n) = Append(s, [[NoScope EXCEPT !.scope_id = k] EXCEPT !.func = TRUE])
  BY <1>2 DEF jitc_push_scope, jitc_push_function
<1> HIDE DEF k, z, m
<1>5. [NoScope EXCEPT !.scope_id = k] = Fresh(n, FALSE)
  BY <1>3, RecordChanged, Zenon
<1>6. [Fresh(n, FALSE) EXCEPT !.func = TRUE] = Fresh(n, TRUE)
  BY <1>3, RecordChanged, Zenon
<1> QED
  BY <1>4, <1>5, <1>6

HasReturn(t, sc, n, func, arguments, d) ==
    \E new \in ScopeType :
       /\ jitc_declare_variable(Append(t, sc), Return, "none", FALSE, d) = Append(t, new)
       /\ Opened(new, n, func, arguments, {}, d)

LEMMA ReturnDeclared ==
    ASSUME NEW t \in Seq(ScopeType), NEW sc, NEW n \in Nat, NEW func \in BOOLEAN,
           NEW arguments \in SUBSET Names, NEW d \in Nat, Opened(sc, n, func, arguments, {}, d)
    PROVE  HasReturn(t, sc, n, func, arguments, d)
<1>1. Return \in Int /\ "none" \in VarType /\ FALSE \in BOOLEAN /\ sc \in ScopeType
  BY DEF Return, VarType, Opened
<1>2. PICK new \in ScopeType :
         /\ jitc_declare_variable(Append(t, sc), Return, "none", FALSE, d) = Append(t, new)
         /\ Grown(sc, new, {Return}, [type |-> "none", where |-> d,
                                      scope_id |-> IF FALSE THEN 0 ELSE sc.scope_id])
  <2> DEFINE r == Return
             y == "none"
             a == FALSE
  <2>1. r \in Int /\ y \in VarType /\ a \in BOOLEAN /\ sc \in ScopeType
    BY <1>1
  <2> HIDE DEF r, y, a
  <2>2. \E new \in ScopeType :
           /\ jitc_declare_variable(Append(t, sc), r, y, a, d) = Append(t, new)
           /\ Grown(sc, new, {r}, [type |-> y, where |-> d, scope_id |-> IF a THEN 0 ELSE sc.scope_id])
    BY <2>1, DeclaredInLast
  <2> QED
    BY <2>2 DEF r, y, a
<1>3. \A q \in Names : q \in Int /\ q # Return
  BY NamesAssumption DEF Return
<1>4. \A q \in Names : (Has(new.variables, q) <=> Has(sc.variables, q))
      /\ (Has(sc.variables, q) => Value(new.variables, q) = Value(sc.variables, q))
  BY <1>2, <1>3 DEF Grown
<1>5. new.tagged = sc.tagged /\ new.func = sc.func /\ new.scope_id = sc.scope_id
  BY <1>2 DEF Grown
<1>6. \A q \in arguments : q \in Names
  OBVIOUS
<1>7. Opened(new, n, func, arguments, {}, d)
  BY <1>4, <1>5, <1>6 DEF Opened
<1> QED
  BY <1>2, <1>7, Zenon DEF HasReturn

HasArguments(t, sc, n, func, arguments, d) ==
    \E new \in ScopeType :
       /\ DeclareAll(Append(t, sc), arguments, "none", TRUE, d) = Append(t, new)
       /\ Opened(new, n, func, arguments, {}, d)

LEMMA ArgumentsDeclared ==
    ASSUME NEW t \in Seq(ScopeType), NEW sc, NEW n \in Nat, NEW func \in BOOLEAN,
           NEW arguments \in SUBSET Names, NEW d \in Nat, Opened(sc, n, func, {}, {}, d)
    PROVE  HasArguments(t, sc, n, func, arguments, d)
<1>1. "none" \in VarType /\ TRUE \in BOOLEAN /\ sc \in ScopeType
  BY DEF VarType, Opened
<1>2. PICK new \in ScopeType :
         /\ DeclareAll(Append(t, sc), arguments, "none", TRUE, d) = Append(t, new)
         /\ Grown(sc, new, arguments, [type |-> "none", where |-> d,
                                       scope_id |-> IF TRUE THEN 0 ELSE sc.scope_id])
  <2> DEFINE y == "none"
             a == TRUE
  <2>1. y \in VarType /\ a \in BOOLEAN /\ sc \in ScopeType
    BY <1>1
  <2> HIDE DEF y, a
  <2>2. \E new \in ScopeType :
           /\ DeclareAll(Append(t, sc), arguments, y, a, d) = Append(t, new)
           /\ Grown(sc, new, arguments, [type |-> y, where |-> d,
                                         scope_id |-> IF a THEN 0 ELSE sc.scope_id])
    BY <2>1, AllDeclared
  <2> QED
    BY <2>2 DEF y, a
<1> DEFINE v == [type |-> "none", where |-> d, scope_id |-> 0]
<1>3. Grown(sc, new, arguments, v)
  BY <1>2
<1>4. \A q \in Names : q \in Int /\ ~Has(sc.variables, q)
  BY NamesAssumption DEF Opened
<1> HIDE DEF v
<1>5. /\ \A q \in Names : Has(new.variables, q) <=> q \in arguments
      /\ \A q \in arguments : Value(new.variables, q) = v
  BY <1>3, <1>4 DEF Grown
<1>6. new.tagged = sc.tagged /\ new.func = sc.func /\ new.scope_id = sc.scope_id
  BY <1>3 DEF Grown
<1>7. Opened(new, n, func, arguments, {}, d)
  BY <1>5, <1>6 DEF Opened, v
<1> QED
  BY <1>2, <1>7, Zenon DEF HasArguments

LEMMA TypesDeclared ==
    ASSUME NEW t \in Seq(ScopeType), NEW sc, NEW n \in Nat, NEW func \in BOOLEAN,
           NEW arguments \in SUBSET Names, NEW types \in SUBSET Names, arguments \intersect types = {},
           NEW d \in Nat, Opened(sc, n, func, arguments, {}, d), NEW new \in ScopeType,
           Grown(sc, new, types, [type |-> "typedef", where |-> d,
                                  scope_id |-> IF FALSE THEN 0 ELSE sc.scope_id])
    PROVE  Opened(new, n, func, arguments, types, d)
<1> DEFINE v == [type |-> "typedef", where |-> d, scope_id |-> n + 1]
<1>1. Grown(sc, new, types, v)
  BY DEF Opened
<1>2. \A q \in Names : q \in Int
  BY NamesAssumption
<1>3. /\ \A q \in Names : Has(sc.variables, q) <=> q \in arguments
      /\ \A q \in arguments : Value(sc.variables, q) = [type |-> "none", where |-> d, scope_id |-> 0]
  BY DEF Opened
<1> HIDE DEF v
<1>4. \A q \in Names : Has(new.variables, q) <=> q \in arguments \/ q \in types
  BY <1>1, <1>2, <1>3 DEF Grown
<1>5. \A q \in arguments : Value(new.variables, q) = [type |-> "none", where |-> d, scope_id |-> 0]
  BY <1>1, <1>2, <1>3 DEF Grown
<1>6. \A q \in types : Value(new.variables, q) = v
  BY <1>1, <1>2, <1>3 DEF Grown
<1>7. new.tagged = sc.tagged /\ new.func = sc.func /\ new.scope_id = sc.scope_id
  BY <1>1 DEF Grown
<1> QED
  BY <1>4, <1>5, <1>6, <1>7 DEF Opened, v

LEMMA OpenedMatches ==
    ASSUME NEW sc, NEW n \in Nat, NEW func, NEW arguments \in SUBSET Names, NEW types \in SUBSET Names,
           NEW d, Opened(sc, n, func, arguments, types, d), NEW c \in CScope,
           c.names = arguments \union types, c.tags = {}, func <=> c.kind = "lambda"
    PROVE  Matches(sc, c, d)
<1>1. sc.func <=> c.kind = "lambda"
  BY DEF Opened
<1>2. \A q \in Names : Has(sc.variables, q) <=> q \in c.names
  BY DEF Opened
<1>3. ASSUME NEW q \in Names, Has(sc.variables, q)
      PROVE  Value(sc.variables, q).where = d /\ Value(sc.variables, q).scope_id \in {0, sc.scope_id}
  <2>1. CASE q \in arguments
    BY <2>1 DEF Opened
  <2>2. CASE q \in types
    BY <2>2 DEF Opened
  <2> QED
    BY <1>3, <2>1, <2>2 DEF Opened
<1>4. TagsMatch(sc, c, d)
  BY DEF Opened, TagsMatch
<1> QED
  BY <1>1, <1>2, <1>3, <1>4, Zenon DEF Matches

(* The leaves of the arguments of a function that is opened. *)
LEMMA ArgumentsStored ==
    ASSUME NEW s, NEW n, NEW l, NEW e, Inv(s, n, l, e), Len(e) < MaxDepth,
           NEW sc, NEW func, NEW arguments \in SUBSET Names, NEW types \in SUBSET Names,
           Opened(sc, n, func, arguments, types, Len(e) + 1), NEW c \in CScope, c.kind \in Functions
    PROVE  /\ Arguments(arguments, Len(e) + 1) \in Seq(LeafType)
           /\ Stored(Arguments(arguments, Len(e) + 1), Append(s, sc), Append(e, c), Len(l) + 1, n + 1)
<1> DEFINE k == Len(e)
           d == k + 1
           s2 == Append(s, sc)
           e2 == Append(e, c)
           m == n + 1
           F == Len(l) + 1
           L == {Leaf(q, 0, d) : q \in arguments}
           list == Arguments(arguments, d)
<1>1. s \in Seq(ScopeType) /\ n \in Nat /\ e \in Seq(CScope)
      /\ Len(s) = k /\ k \in 1..MaxDepth /\ k \in Nat /\ k < MaxDepth /\ MaxDepth \in Nat
      /\ Len(l) = Owner(e, k) /\ Len(l) \in Nat
  BY Parts, BoundsAssumption
<1>2. sc \in ScopeType
  BY DEF Opened
<1>3. /\ Len(s2) = k + 1 /\ \A b \in 1..k : s2[b] = s[b]
      /\ s2[k + 1] = sc
      /\ e2 \in Seq(CScope) /\ Len(e2) = k + 1 /\ \A b \in 1..k : e2[b] = e[b]
      /\ e2[k + 1] = c
  BY <1>1, <1>2, LastOfAppend
<1>4. d \in 1..MaxDepth /\ d \in 1..Len(s2) /\ 1..Len(s2) = 1..k + 1
  BY <1>1, <1>3
<1>5. IsFiniteSet(L)
  <2>1. IsFiniteSet(arguments)
    BY NamesAssumption, FS_Subset
  <2> HIDE DEF d
  <2> DEFINE f == [q \in arguments |-> Leaf(q, 0, d)]
  <2>2. f \in Surjection(arguments, L)
    <3>1. f \in [arguments -> L]
      OBVIOUS
    <3>2. \A x \in L : \E q \in arguments : f[q] = x
      OBVIOUS
    <3> HIDE DEF f, L
    <3> QED
      BY <3>1, <3>2, Zenon DEF Surjection
  <2> HIDE DEF f, L
  <2> QED
    BY <2>1, <2>2, FS_Surjection
<1>6. /\ list \in Seq(L)
      /\ \A i, j \in DOMAIN list : list[i] = list[j] => i = j
      /\ \A x \in L : \E i \in DOMAIN list : list[i] = x
  <2>1. list = SetToSeq(L)
    BY DEF Arguments
  <2> HIDE DEF list, L
  <2> QED
    BY <1>5, <2>1, Listed
<1>7. \A q \in Names : Leaf(q, 0, d) = [name |-> q, where |-> d] /\ q \in Nat
  BY ScopedOnce, NamesAssumption DEF Leaf
<1>8. \A x \in L : \E q \in arguments : x = [name |-> q, where |-> d] /\ x = Leaf(q, 0, d)
  BY <1>7
<1>9. \A i \in DOMAIN list : list[i] \in L
  BY <1>6
<1>10. list \in Seq(LeafType)
  <2>1. \A x \in L : x \in LeafType
    <3> HIDE DEF L, d
    <3> QED
      BY <1>4, <1>7, <1>8 DEF LeafType
  <2> HIDE DEF L, list
  <2> QED
    BY <1>6, <2>1
<1>11. \A i, j \in DOMAIN list : list[i].name = list[j].name => i = j
  <2> SUFFICES ASSUME NEW i \in DOMAIN list, NEW j \in DOMAIN list, list[i].name = list[j].name
               PROVE  list[i] = list[j]
    BY <1>6
  <2> HIDE DEF list, L, d
  <2> QED
    BY <1>8, <1>9
<1>12. Owner(e2, d) = F
  <2>1. Owner(e2, k) = Owner(e, k)
    <3> HIDE DEF e2
    <3> QED
      BY <1>1, <1>3, OwnerSame
  <2>2. Owner(e2, k + 1) = Owner(e2, k) + 1
    <3> HIDE DEF e2
    <3> QED
      BY <1>1, <1>3, OwnerNext
  <2> QED
    BY <1>1, <2>1, <2>2
<1>13. \A b \in 1..Len(s2) : Owner(e2, b) = F => b = d
  <2> SUFFICES ASSUME NEW b \in 1..k
               PROVE  Owner(e2, b) # F
    BY <1>4
  <2>1. Owner(e2, b) = Owner(e, b)
    <3> HIDE DEF e2
    <3> QED
      BY <1>1, <1>3, OwnerSame
  <2>2. Owner(e, b) <= Owner(e, k) /\ Owner(e, b) \in Nat
    <3>1. b \in Nat /\ k \in Nat /\ b <= k
      BY <1>1
    <3> HIDE DEF k
    <3>2. Owner(e, b) <= Owner(e, k)
      BY <3>1, OwnerBetween
    <3>3. Owner(e, b) \in Nat
      BY <3>1, OwnerType
    <3> QED
      BY <3>2, <3>3
  <2> QED
    BY <1>1, <2>1, <2>2
<1>14. ASSUME NEW b \in 1..Len(s2), Owner(e2, b) = F, NEW q \in Names,
              Has(s2[b].variables, q), Value(s2[b].variables, q).type = "none"
       PROVE  \E i \in DOMAIN list : list[i] = Leaf(q, Value(s2[b].variables, q).scope_id, b)
  <2>1. b = d /\ s2[b] = sc
    BY <1>3, <1>13, <1>14
  <2>2. q \in arguments
    BY <1>14, <2>1 DEF Opened
  <2>3. Value(sc.variables, q).scope_id = 0
    BY <2>2 DEF Opened
  <2>4. Leaf(q, 0, d) \in L
    BY <2>2
  <2> HIDE DEF list, L, d
  <2> QED
    BY <1>6, <2>1, <2>3, <2>4
<1>15. ASSUME NEW i \in DOMAIN list
       PROVE  IsArgument(list[i], s2, e2, F)
  <2>1. PICK q \in arguments : list[i] = [name |-> q, where |-> d]
    BY <1>8, <1>9, <1>15
  <2>2. Has(sc.variables, q) /\ q \in Names /\ list[i].name = q
    BY <2>1 DEF Opened
  <2>3. s2[d] = sc /\ e2[d].kind \in Functions
    BY <1>3
  <2> HIDE DEF list, L, d, s2, e2, F
  <2> QED
    BY <1>4, <1>12, <2>2, <2>3, Zenon DEF IsArgument
<1> HIDE DEF list, L, d, s2, e2, F
<1>16. Stored(list, s2, e2, F, m)
  BY <1>11, <1>14, <1>15, Zenon DEF Stored
<1> QED
  BY <1>10, <1>16 DEF list, s2, e2, F, m, d, k

(* A scope is opened, with what is declared in it at once. *)
Entering(s, n, l, e, sc, func, arguments, types, c, l2) ==
    /\ Inv(s, n, l, e) /\ Len(e) < MaxDepth
    /\ Opened(sc, n, func, arguments, types, Len(e) + 1)
    /\ c.names = arguments \union types /\ c.tags = {}
    /\ func <=> c.kind = "lambda"
    /\ Placed(c, Len(e) + 1)
    /\ c.kind \in Functions => l2 = Append(l, Arguments(arguments, Len(e) + 1))
    /\ c.kind \notin Functions => l2 = l /\ arguments = {}

LEMMA Entered ==
    ASSUME NEW s, NEW n, NEW l, NEW e, NEW sc, NEW func,
           NEW arguments \in SUBSET Names, NEW types \in SUBSET Names, NEW c \in CScope, NEW l2,
           Entering(s, n, l, e, sc, func, arguments, types, c, l2)
    PROVE  Inv(Append(s, sc), n + 1, l2, Append(e, c))
<1>0. /\ Inv(s, n, l, e) /\ Len(e) < MaxDepth
      /\ Opened(sc, n, func, arguments, types, Len(e) + 1)
      /\ c.names = arguments \union types /\ c.tags = {}
      /\ func <=> c.kind = "lambda"
      /\ Placed(c, Len(e) + 1)
      /\ c.kind \in Functions => l2 = Append(l, Arguments(arguments, Len(e) + 1))
      /\ c.kind \notin Functions => l2 = l /\ arguments = {}
  BY DEF Entering
<1>1. n \in Nat
  BY <1>0, Parts
<1>2. Matches(sc, c, Len(e) + 1)
  BY <1>0, <1>1, OpenedMatches
<1>3. sc \in ScopeType /\ sc.scope_id = n + 1
  BY <1>0 DEF Opened
<1>4. c.kind \in Functions =>
         \E list \in Seq(LeafType) :
            l2 = Append(l, list) /\ Stored(list, Append(s, sc), Append(e, c), Len(l) + 1, n + 1)
  <2> SUFFICES ASSUME c.kind \in Functions
               PROVE  \E list \in Seq(LeafType) :
                         l2 = Append(l, list)
                         /\ Stored(list, Append(s, sc), Append(e, c), Len(l) + 1, n + 1)
    OBVIOUS
  <2> DEFINE new == Arguments(arguments, Len(e) + 1)
  <2>1. new \in Seq(LeafType) /\ Stored(new, Append(s, sc), Append(e, c), Len(l) + 1, n + 1)
    BY <1>0, ArgumentsStored
  <2>2. l2 = Append(l, new)
    BY <1>0
  <2> HIDE DEF new
  <2> QED
    BY <2>1, <2>2
<1>5. c.kind \notin Functions =>
         l2 = l /\ \A q \in Names : Has(sc.variables, q) => Value(sc.variables, q).type # "none"
  <2> SUFFICES ASSUME c.kind \notin Functions, NEW q \in Names, Has(sc.variables, q)
               PROVE  Value(sc.variables, q).type # "none"
    BY <1>0
  <2>1. q \in types
    BY <1>0 DEF Opened
  <2>2. Value(sc.variables, q) = [type |-> "typedef", where |-> Len(e) + 1, scope_id |-> n + 1]
    BY <1>0, <2>1 DEF Opened
  <2> QED
    BY <2>2
<1> QED
  BY <1>0, <1>2, <1>3, <1>4, <1>5, Pushed
--------------------------------------------------------------------------------
(* The steps of the specification. *)
IInv == Inv(scopes, id, leaves, env)

LEMMA FileOwner ==
    ASSUME NEW e, e[1].kind = "file"
    PROVE  Owner(e, 1) = 0
<1> DEFINE z == 0
<1>1. z \in Nat /\ e[z + 1].kind \notin Functions
  BY DEF Functions
<1>2. Owner(e, z) = 0
  BY OwnerType
<1> HIDE DEF z
<1>3. Owner(e, z + 1) = Owner(e, z)
  BY <1>1, OwnerNext
<1> QED
  BY <1>2, <1>3 DEF z

LEMMA InvInit == Init => IInv
<1> SUFFICES ASSUME Init
             PROVE  IInv
  OBVIOUS
<1> DEFINE sc == [variables |-> map_new, tagged |-> map_new, func |-> FALSE, scope_id |-> 0]
           c == [kind |-> "file", tag |-> NoTag, names |-> {}, tags |-> {}]
<1>1. ScopeId(<<>>, 0) = 0
  BY DEF ScopeId
<1>2. [NoScope EXCEPT !.scope_id = 0] = sc
  <2> DEFINE m == map_new
             z == 0
  <2>1. NoScope = [variables |-> m, tagged |-> m, func |-> FALSE, scope_id |-> z]
        /\ sc = [variables |-> m, tagged |-> m, func |-> FALSE, scope_id |-> z]
    BY DEF NoScope
  <2> HIDE DEF m, z, sc
  <2>2. [NoScope EXCEPT !.scope_id = z] = sc
    BY <2>1, RecordChanged, Zenon
  <2> QED
    BY <2>2 DEF z
<1>3. scopes = <<sc>> /\ id = 0 /\ leaves = <<>> /\ env = <<c>>
  BY <1>1, <1>2 DEF Init, jitc_push_scope
<1>4. map_new \in Maps(Variable) /\ map_new \in Maps(Nat) /\ \A q \in Int : ~Has(map_new, q)
  BY NewMap
<1>5. sc \in ScopeType /\ sc.variables = map_new /\ sc.tagged = map_new /\ sc.func = FALSE /\ sc.scope_id = 0
  BY <1>4 DEF ScopeType
<1>6. c \in CScope /\ c.kind = "file" /\ c.names = {} /\ c.tags = {} /\ c.kind \notin Functions
  BY DEF CScope, Kinds, Functions
<1> HIDE DEF sc, c
<1>7. Matches(sc, c, 1) /\ Placed(c, 1)
  <2>1. \A q \in Names : q \in Int
    BY NamesAssumption
  <2> QED
    BY <1>4, <1>5, <1>6, <2>1 DEF Matches, TagsMatch, Placed
<1>8. Len(env) = 1 /\ Len(scopes) = 1 /\ scopes[1] = sc /\ env[1] = c /\ Len(leaves) = 0 /\ 1 \in 1..MaxDepth
  BY <1>3, BoundsAssumption
<1>9. Owner(env, 1) = 0
  BY <1>6, <1>8, FileOwner
<1>10. Typed(scopes, id, leaves, env)
  BY <1>3, <1>5, <1>6, <1>8 DEF Typed
<1>11. Numbered(scopes, id)
  BY <1>3, <1>5, <1>8 DEF Numbered
<1>12. \A d \in 1..Len(scopes) : Matches(scopes[d], env[d], d) /\ Placed(env[d], d)
  <2>1. \A d \in 1..Len(scopes) : d = 1
    BY <1>8
  <2> QED
    BY <1>7, <1>8, <2>1, Zenon
<1>13. 1..Len(leaves) = {}
  BY <1>8
<1> QED
  BY <1>8, <1>9, <1>10, <1>11, <1>12, <1>13 DEF IInv, Inv

(* What is known of the state a step begins in. *)
LEMMA StateParts ==
    ASSUME IInv
    PROVE  /\ scopes \in Seq(ScopeType) /\ id \in Nat /\ leaves \in Seq(Seq(LeafType)) /\ env \in Seq(CScope)
           /\ Len(scopes) = Len(env) /\ Len(env) \in 1..MaxDepth /\ Len(env) \in Nat /\ Len(scopes) >= 1
           /\ Here = Len(env) /\ Inside = Len(env) + 1 /\ Inside \in Nat /\ Inside \in 2..MaxDepth + 1
           /\ env[Len(env)] \in CScope /\ Last(env) = env[Len(env)] /\ Kind = env[Len(env)].kind
           /\ (Kind = "file" <=> Len(env) = 1) /\ MaxDepth \in Nat
<1>1. /\ scopes \in Seq(ScopeType) /\ id \in Nat /\ leaves \in Seq(Seq(LeafType)) /\ env \in Seq(CScope)
      /\ Len(scopes) = Len(env) /\ Len(env) \in 1..MaxDepth /\ Len(env) \in Nat
      /\ \A d \in 1..Len(scopes) : Placed(env[d], d)
  BY Parts DEF IInv
<1>2. Len(env) \in 1..Len(env) /\ Len(env) >= 1
  BY <1>1
<1>3. env[Len(env)] \in CScope /\ Placed(env[Len(env)], Len(env))
  BY <1>1, <1>2
<1>4. Last(env) = env[Len(env)] /\ Kind = env[Len(env)].kind /\ Here = Len(env)
  BY DEF Last, Kind, Here
<1>5. Kind = "file" <=> Len(env) = 1
  BY <1>3, <1>4 DEF Placed
<1>6. MaxDepth \in Nat
  BY BoundsAssumption
<1>7. Inside = Len(env) + 1
  BY DEF Inside
<1> DEFINE k == Len(env)
           depth == MaxDepth
<1>8. k + 1 \in Nat /\ k + 1 \in 2..depth + 1 /\ k >= 1
  <2>1. k \in 1..depth /\ depth \in Nat
    BY <1>1, <1>6
  <2> HIDE DEF k, depth
  <2> QED
    BY <2>1
<1> QED
  BY <1>1, <1>2, <1>3, <1>4, <1>5, <1>6, <1>7, <1>8

(* The scope of a body. *)
LEMMA BodyOpened ==
    ASSUME IInv, NEW names \in SUBSET Names
    PROVE  \E sc \in ScopeType :
              /\ Body(jitc_push_scope(scopes, id), names) = Append(scopes, sc)
              /\ Opened(sc, id, FALSE, names, {}, Inside)
<1>1. scopes \in Seq(ScopeType) /\ id \in Nat /\ Len(scopes) >= 1 /\ Inside \in Nat /\ FALSE \in BOOLEAN
  BY StateParts
<1> DEFINE first == Fresh(id, FALSE)
<1>2. jitc_push_scope(scopes, id) = Append(scopes, first)
  BY <1>1, FreshIsPushed
<1>3. Opened(first, id, FALSE, {}, {}, Inside)
  BY <1>1, FreshIsOpened
<1> HIDE DEF first
<1>4. HasReturn(scopes, first, id, FALSE, {}, Inside)
  <2> DEFINE none == {}
             func == FALSE
             d == Inside
  <2>1. /\ none \in SUBSET Names /\ func \in BOOLEAN /\ d \in Nat
        /\ Opened(first, id, func, none, {}, d)
    BY <1>1, <1>3
  <2> HIDE DEF none, func, d
  <2>2. HasReturn(scopes, first, id, func, none, d)
    BY <1>1, <2>1, ReturnDeclared
  <2> QED
    BY <2>2 DEF none, func, d
<1>5. PICK second \in ScopeType :
         /\ jitc_declare_variable(Append(scopes, first), Return, "none", FALSE, Inside) = Append(scopes, second)
         /\ Opened(second, id, FALSE, {}, {}, Inside)
  BY <1>4, Zenon DEF HasReturn
<1>6. HasArguments(scopes, second, id, FALSE, names, Inside)
  <2> DEFINE func == FALSE
             d == Inside
  <2>1. func \in BOOLEAN /\ d \in Nat /\ Opened(second, id, func, {}, {}, d)
    BY <1>1, <1>5
  <2> HIDE DEF func, d
  <2>2. HasArguments(scopes, second, id, func, names, d)
    BY <1>1, <2>1, ArgumentsDeclared
  <2> QED
    BY <2>2 DEF func, d
<1>7. PICK third \in ScopeType :
         /\ DeclareAll(Append(scopes, second), names, "none", TRUE, Inside) = Append(scopes, third)
         /\ Opened(third, id, FALSE, names, {}, Inside)
  BY <1>6, Zenon DEF HasArguments
<1>8. Body(jitc_push_scope(scopes, id), names) = Append(scopes, third)
  BY <1>2, <1>5, <1>7, Zenon DEF Body
<1> QED
  BY <1>7, <1>8

(* A step that opens a scope. *)
Opening(kind, tag, arguments, types, sc, func) ==
    /\ Open(kind, arguments \union types, tag, Append(scopes, sc))
    /\ Opened(sc, id, func, arguments, types, Inside)
    /\ func <=> kind = "lambda"
    /\ kind # "file"
    /\ kind \in {"function", "instance"} => Kind = "file"
    /\ kind \in Functions => leaves' = Append(leaves, Arguments(arguments, Inside))
    /\ kind \notin Functions => leaves' = leaves /\ arguments = {}

LEMMA OpenInv ==
    ASSUME IInv, NEW kind \in Kinds, NEW tag \in Names \union {NoTag},
           NEW arguments \in SUBSET Names, NEW types \in SUBSET Names,
           NEW sc, NEW func, Opening(kind, tag, arguments, types, sc, func)
    PROVE  IInv'
<1> DEFINE c == [kind |-> kind, tag |-> tag, names |-> arguments \union types, tags |-> {}]
<1>1. /\ Len(env) < MaxDepth /\ id' = id + 1 /\ scopes' = Append(scopes, sc) /\ env' = Append(env, c)
  BY DEF Opening, Open, COpen, Here
<1>2. c \in CScope /\ c.names = arguments \union types /\ c.tags = {} /\ c.kind = kind
  BY DEF CScope
<1>3. Placed(c, Len(env) + 1)
  <2>1. kind # "file" /\ (kind \in {"function", "instance"} => Kind = "file")
    BY DEF Opening
  <2> QED
    BY <1>2, <2>1, StateParts DEF Placed
<1>4. Inv(scopes, id, leaves, env) /\ Inside = Len(env) + 1
  BY StateParts DEF IInv
<1> HIDE DEF c
<1>5. func <=> c.kind = "lambda"
  BY <1>2 DEF Opening
<1>6. Opened(sc, id, func, arguments, types, Len(env) + 1)
  BY <1>4 DEF Opening
<1>7. /\ c.kind \in Functions => leaves' = Append(leaves, Arguments(arguments, Len(env) + 1))
      /\ c.kind \notin Functions => leaves' = leaves /\ arguments = {}
  BY <1>2, <1>4 DEF Opening
<1>8. Entering(scopes, id, leaves, env, sc, func, arguments, types, c, leaves')
  BY <1>1, <1>2, <1>3, <1>4, <1>5, <1>6, <1>7, Zenon DEF Entering
<1>9. Inv(Append(scopes, sc), id + 1, leaves', Append(env, c))
  BY <1>2, <1>8, Entered
<1> QED
  BY <1>1, <1>9 DEF IInv

(* In the file no function is open. *)
LEMMA NoLeaves ==
    ASSUME IInv, Kind = "file"
    PROVE  leaves = <<>>
<1>1. Len(env) = 1 /\ leaves \in Seq(Seq(LeafType)) /\ env[1].kind = "file"
  BY StateParts
<1>2. Len(leaves) = Owner(env, 1)
  BY <1>1, Parts DEF IInv
<1>3. Owner(env, 1) = 0
  BY <1>1, FileOwner
<1> QED
  BY <1>1, <1>2, <1>3

LEMMA FunctionInv ==
    ASSUME IInv, NEW names \in SUBSET Names, Function(names)
    PROVE  IInv'
<1>1. PICK sc \in ScopeType :
         /\ Body(jitc_push_scope(scopes, id), names) = Append(scopes, sc)
         /\ Opened(sc, id, FALSE, names, {}, Inside)
  BY BodyOpened
<1>2. Kind = "file" /\ leaves = <<>>
  BY NoLeaves DEF Function
<1> DEFINE kind == "function"
           types == {}
           func == FALSE
<1>3. kind \in Kinds /\ types \in SUBSET Names /\ kind # "file" /\ kind \in Functions /\ (func <=> kind = "lambda")
  BY DEF Kinds, Functions
<1>4. leaves' = Append(leaves, Arguments(names, Inside))
  BY <1>2 DEF Function
<1>5. Open(kind, names \union types, NoTag, Append(scopes, sc))
  BY <1>1 DEF Function
<1>6. Opened(sc, id, func, names, types, Inside)
  BY <1>1
<1> HIDE DEF kind, types, func
<1>7. Opening(kind, NoTag, names, types, sc, func)
  BY <1>2, <1>3, <1>4, <1>5, <1>6, Zenon DEF Opening
<1> QED
  BY <1>3, <1>7, OpenInv

(* A parameter of a template, and the parameters or fields that are types. *)
HasParameter(t, sc, n, arguments, parameter, d) ==
    \E new \in ScopeType :
       /\ jitc_declare_variable(Append(t, sc), parameter, "typedef", FALSE, d) = Append(t, new)
       /\ Opened(new, n, FALSE, arguments, {parameter}, d)

LEMMA ParameterDeclared ==
    ASSUME NEW t \in Seq(ScopeType), NEW sc, NEW n \in Nat, NEW arguments \in SUBSET Names,
           NEW parameter \in Names, parameter \notin arguments,
           NEW d \in Nat, Opened(sc, n, FALSE, arguments, {}, d)
    PROVE  HasParameter(t, sc, n, arguments, parameter, d)
<1> DEFINE y == "typedef"
           a == FALSE
           types == {parameter}
<1>1. y \in VarType /\ a \in BOOLEAN /\ sc \in ScopeType /\ parameter \in Int /\ types \in SUBSET Names
      /\ arguments \intersect types = {} /\ Opened(sc, n, a, arguments, {}, d)
  BY NamesAssumption DEF VarType, Opened
<1> DEFINE v == [type |-> y, where |-> d, scope_id |-> IF a THEN 0 ELSE sc.scope_id]
<1>2. PICK new \in ScopeType :
         /\ jitc_declare_variable(Append(t, sc), parameter, y, a, d) = Append(t, new)
         /\ Grown(sc, new, {parameter}, v)
  <2> HIDE DEF y, a, types
  <2> QED
    BY <1>1, DeclaredInLast
<1>3. Grown(sc, new, types, [type |-> "typedef", where |-> d,
                             scope_id |-> IF FALSE THEN 0 ELSE sc.scope_id])
  BY <1>2
<1>4. Opened(new, n, a, arguments, types, d)
  <2> HIDE DEF a, types
  <2> QED
    BY <1>1, <1>3, TypesDeclared
<1> QED
  BY <1>2, <1>4, Zenon DEF HasParameter, y, a, types

HasTypes(t, sc, n, types, d) ==
    \E new \in ScopeType :
       /\ DeclareAll(Append(t, sc), types, "typedef", FALSE, d) = Append(t, new)
       /\ Opened(new, n, FALSE, {}, types, d)

LEMMA AllTypesDeclared ==
    ASSUME NEW t \in Seq(ScopeType), NEW sc, NEW n \in Nat, NEW types \in SUBSET Names,
           NEW d \in Nat, Opened(sc, n, FALSE, {}, {}, d)
    PROVE  HasTypes(t, sc, n, types, d)
<1> DEFINE y == "typedef"
           a == FALSE
           none == {}
<1>1. y \in VarType /\ a \in BOOLEAN /\ sc \in ScopeType /\ none \in SUBSET Names
      /\ none \intersect types = {} /\ Opened(sc, n, a, none, {}, d)
  BY DEF VarType, Opened
<1> DEFINE v == [type |-> y, where |-> d, scope_id |-> IF a THEN 0 ELSE sc.scope_id]
<1>2. PICK new \in ScopeType :
         /\ DeclareAll(Append(t, sc), types, y, a, d) = Append(t, new)
         /\ Grown(sc, new, types, v)
  <2> HIDE DEF y, a, none
  <2> QED
    BY <1>1, AllDeclared
<1>3. Grown(sc, new, types, [type |-> "typedef", where |-> d,
                             scope_id |-> IF FALSE THEN 0 ELSE sc.scope_id])
  BY <1>2
<1>4. Opened(new, n, a, none, types, d)
  <2> HIDE DEF a, none
  <2> QED
    BY <1>1, <1>3, TypesDeclared
<1> QED
  BY <1>2, <1>4, Zenon DEF HasTypes, y, a, none

LEMMA InstanceInv ==
    ASSUME IInv, NEW names \in SUBSET Names, NEW parameter \in Names, Instance(names, parameter)
    PROVE  IInv'
<1>1. PICK sc \in ScopeType :
         /\ Body(jitc_push_scope(scopes, id), names) = Append(scopes, sc)
         /\ Opened(sc, id, FALSE, names, {}, Inside)
  BY BodyOpened
<1>2. Kind = "file" /\ parameter \notin names /\ leaves = <<>>
  BY NoLeaves DEF Instance
<1>3. HasParameter(scopes, sc, id, names, parameter, Inside)
  <2>1. scopes \in Seq(ScopeType) /\ id \in Nat /\ Inside \in Nat
    BY StateParts
  <2> QED
    BY <1>1, <1>2, <2>1, ParameterDeclared
<1>4. PICK new \in ScopeType :
         /\ jitc_declare_variable(Append(scopes, sc), parameter, "typedef", FALSE, Inside) = Append(scopes, new)
         /\ Opened(new, id, FALSE, names, {parameter}, Inside)
  BY <1>3, Zenon DEF HasParameter
<1> DEFINE kind == "instance"
           types == {parameter}
           func == FALSE
<1>5. kind \in Kinds /\ types \in SUBSET Names /\ kind # "file" /\ kind \in Functions /\ (func <=> kind = "lambda")
  BY DEF Kinds, Functions
<1>6. leaves' = Append(leaves, Arguments(names, Inside))
  BY <1>2 DEF Instance
<1>7. Open(kind, names \union types, NoTag, Append(scopes, new))
  BY <1>1, <1>4, Zenon DEF Instance
<1>8. Opened(new, id, func, names, types, Inside)
  BY <1>4
<1> HIDE DEF kind, types, func
<1>9. Opening(kind, NoTag, names, types, new, func)
  BY <1>2, <1>5, <1>6, <1>7, <1>8, Zenon DEF Opening
<1> QED
  BY <1>5, <1>9, OpenInv

LEMMA BlockInv ==
    ASSUME IInv, Block
    PROVE  IInv'
<1> DEFINE kind == "block"
           types == {}
           func == FALSE
           sc == Fresh(id, func)
<1>1. scopes \in Seq(ScopeType) /\ id \in Nat /\ Len(scopes) >= 1
  BY StateParts
<1>2. jitc_push_scope(scopes, id) = Append(scopes, sc)
  BY <1>1, FreshIsPushed
<1>3. kind \in Kinds /\ types \in SUBSET Names /\ kind # "file" /\ kind \notin Functions /\ (func <=> kind = "lambda")
      /\ kind \notin {"function", "instance"} /\ func \in BOOLEAN
  BY DEF Kinds, Functions
<1>4. Opened(sc, id, func, types, types, Inside)
  <2> HIDE DEF func
  <2> QED
    BY <1>1, <1>3, FreshIsOpened
<1>5. Open(kind, types \union types, NoTag, Append(scopes, sc)) /\ leaves' = leaves
  BY <1>2 DEF Block
<1>6. types = {}
  OBVIOUS
<1> HIDE DEF kind, types, func, sc
<1>7. Opening(kind, NoTag, types, types, sc, func)
  BY <1>3, <1>4, <1>5, <1>6, Zenon DEF Opening
<1> QED
  BY <1>3, <1>7, OpenInv

LEMMA TypesInv ==
    ASSUME IInv, NEW kind \in {"struct", "template"}, NEW types \in SUBSET Names,
           NEW tag \in Names \union {NoTag}, Types(kind, types, tag)
    PROVE  IInv'
<1> DEFINE none == {}
           func == FALSE
           first == Fresh(id, func)
<1>1. scopes \in Seq(ScopeType) /\ id \in Nat /\ Len(scopes) >= 1 /\ Inside \in Nat
  BY StateParts
<1>2. jitc_push_scope(scopes, id) = Append(scopes, first)
  BY <1>1, FreshIsPushed
<1>3. kind \in Kinds /\ none \in SUBSET Names /\ kind # "file" /\ kind \notin Functions /\ (func <=> kind = "lambda")
      /\ kind \notin {"function", "instance"} /\ func \in BOOLEAN
  BY DEF Kinds, Functions
<1>4. Opened(first, id, FALSE, {}, {}, Inside)
  <2>1. Opened(first, id, func, {}, {}, Inside)
    <3> HIDE DEF func
    <3> QED
      BY <1>1, <1>3, FreshIsOpened
  <2> QED
    BY <2>1
<1>5. HasTypes(scopes, first, id, types, Inside)
  <2> HIDE DEF first
  <2> QED
    BY <1>1, <1>4, AllTypesDeclared
<1>6. PICK sc \in ScopeType :
         /\ DeclareAll(Append(scopes, first), types, "typedef", FALSE, Inside) = Append(scopes, sc)
         /\ Opened(sc, id, FALSE, {}, types, Inside)
  BY <1>5, Zenon DEF HasTypes
<1>7. Open(kind, none \union types, tag, Append(scopes, sc)) /\ leaves' = leaves
  <2>1. none \union types = types
    OBVIOUS
  <2> QED
    BY <1>2, <1>6, <2>1, Zenon DEF Types
<1>8. none = {} /\ Opened(sc, id, func, none, types, Inside)
  BY <1>6
<1> HIDE DEF none, func
<1>9. Opening(kind, tag, none, types, sc, func)
  BY <1>3, <1>7, <1>8, Zenon DEF Opening
<1> QED
  BY <1>3, <1>9, OpenInv

LEMMA LambdaInv ==
    ASSUME IInv, NEW names \in SUBSET Names, Lambda(names)
    PROVE  IInv'
<1> DEFINE kind == "lambda"
           types == {}
           func == TRUE
           d == Inside
           first == Fresh(id, func)
<1>1. scopes \in Seq(ScopeType) /\ id \in Nat /\ Len(scopes) >= 1 /\ d \in Nat
  BY StateParts
<1>2. jitc_push_function(scopes, id) = Append(scopes, first)
  BY <1>1, FreshIsPushed
<1>3. kind \in Kinds /\ types \in SUBSET Names /\ kind # "file" /\ kind \in Functions /\ (func <=> kind = "lambda")
      /\ kind \notin {"function", "instance"} /\ func \in BOOLEAN
  BY DEF Kinds, Functions
<1>4. Opened(first, id, func, {}, {}, d)
  <2> HIDE DEF func, d
  <2> QED
    BY <1>1, <1>3, FreshIsOpened
<1> HIDE DEF first
<1>5. HasArguments(scopes, first, id, func, names, d)
  <2> HIDE DEF func, d
  <2> QED
    BY <1>1, <1>3, <1>4, ArgumentsDeclared
<1>6. PICK second \in ScopeType :
         /\ DeclareAll(Append(scopes, first), names, "none", TRUE, d) = Append(scopes, second)
         /\ Opened(second, id, func, names, {}, d)
  BY <1>5, Zenon DEF HasArguments
<1>7. HasReturn(scopes, second, id, func, names, d)
  <2> HIDE DEF func, d
  <2> QED
    BY <1>1, <1>3, <1>6, ReturnDeclared
<1>8. PICK sc \in ScopeType :
         /\ jitc_declare_variable(Append(scopes, second), Return, "none", FALSE, d) = Append(scopes, sc)
         /\ Opened(sc, id, func, names, {}, d)
  BY <1>7, Zenon DEF HasReturn
<1>9. Open(kind, names \union types, NoTag, Append(scopes, sc))
  <2>1. names \union types = names
    OBVIOUS
  <2> QED
    BY <1>2, <1>6, <1>8, <2>1, Zenon DEF Lambda
<1>10. leaves' = Append(leaves, Arguments(names, d))
  BY DEF Lambda
<1>11. Opened(sc, id, func, names, types, d)
  BY <1>8
<1>12. Opening(kind, NoTag, names, types, sc, func)
  <2> HIDE DEF kind, types, func
  <2> QED
    BY <1>3, <1>9, <1>10, <1>11, Zenon DEF Opening, d
<1> HIDE DEF kind, types, func
<1> QED
  BY <1>3, <1>12, OpenInv

(* A unit that fails. *)
LEMMA FailInv ==
    ASSUME IInv, Fail, id' \in Nat, id <= id'
    PROVE  IInv'
<1>1. Inv(SubSeq(scopes, 1, 1), id', <<>>, SubSeq(env, 1, 1))
  BY Failed DEF IInv
<1> QED
  BY <1>1, Zenon DEF IInv, Fail, PopAll

LEMMA DeclareInv ==
    ASSUME IInv, NEW n \in Names, NEW type \in VarType, Declare(n, type)
    PROVE  IInv'
<1>1. id' = id /\ id \in Nat /\ Here = Len(env)
  BY StateParts DEF Declare
<1>2. CASE MayDeclare(scopes, n, type)
  <2> DEFINE s2 == jitc_declare_variable(scopes, n, type, FALSE, Len(env))
             l2 == IF leaves = <<>> \/ type # "none" THEN leaves
                   ELSE [leaves EXCEPT ![Len(leaves)] = Append(@, Leaf(n, Last(scopes).scope_id, Len(env)))]
             e2 == [env EXCEPT ![Len(env)].names = @ \union {n}]
  <2>1. Inv(s2, id, l2, e2)
    BY <1>2, Declared, Zenon DEF IInv
  <2>2. scopes' = s2 /\ leaves' = l2 /\ env' = e2
    BY <1>1, <1>2 DEF Declare
  <2> HIDE DEF s2, l2, e2
  <2> QED
    BY <1>1, <2>1, <2>2, Zenon DEF IInv
<1>3. CASE ~MayDeclare(scopes, n, type)
  <2>1. Fail
    BY <1>3, Zenon DEF Declare
  <2>2. id' \in Nat /\ id <= id'
    BY <1>1
  <2> QED
    BY <2>1, <2>2, FailInv
<1> QED
  BY <1>2, <1>3

LEMMA ParseErrorInv ==
    ASSUME IInv, ParseError
    PROVE  IInv'
<1>1. Fail /\ id' = id /\ id \in Nat
  BY StateParts DEF ParseError
<1>2. id <= id'
  BY <1>1
<1> QED
  BY <1>1, <1>2, FailInv

(* What is left of the scopes when the last one is closed. *)
LEMMA Left ==
    ASSUME IInv, Kind # "file"
    PROVE  /\ Len(env) > 1 /\ jitc_pop_scope(scopes) = Front(scopes)
           /\ Front(scopes) \in Seq(ScopeType) /\ Len(Front(scopes)) = Len(env) - 1 /\ Len(Front(scopes)) >= 1
           /\ Len(Front(env)) = Here - 1
<1>1. /\ scopes \in Seq(ScopeType) /\ env \in Seq(CScope) /\ Len(scopes) = Len(env) /\ Len(env) \in Nat
      /\ Len(env) > 1 /\ Here = Len(env)
  BY StateParts
<1>2. Front(scopes) \in Seq(ScopeType) /\ Len(Front(scopes)) = Len(env) - 1
  BY <1>1, FrontOf
<1>3. Len(Front(env)) = Len(env) - 1
  BY <1>1, FrontOf
<1>4. jitc_pop_scope(scopes) = Front(scopes)
  BY <1>1 DEF jitc_pop_scope
<1> QED
  BY <1>1, <1>2, <1>3, <1>4

LEMMA LeaveInv ==
    ASSUME IInv, Leave
    PROVE  IInv'
<1>1. Kind \in Functions \union {"block"} /\ Kind # "file"
  BY DEF Leave, InStatements, Functions
<1>2. Len(env) > 1 /\ jitc_pop_scope(scopes) = Front(scopes) /\ id \in Nat /\ id <= id
  BY <1>1, Left, StateParts
<1>3. Inv(Front(scopes), id, IF Last(env).kind \in Functions THEN Front(leaves) ELSE leaves, Front(env))
  BY <1>2, Popped DEF IInv
<1>4. (IF Kind = "block" THEN leaves ELSE Front(leaves))
        = IF Last(env).kind \in Functions THEN Front(leaves) ELSE leaves
  BY <1>1 DEF Kind, Functions
<1> QED
  BY <1>2, <1>3, <1>4, Zenon DEF IInv, Leave

(* Something is declared at a depth that is not the last. *)
Gives(e, h, X, e2) == e2 = [e EXCEPT ![h].tags = @ \union X]

LEMMA GivenTags ==
    ASSUME NEW e \in Seq(CScope), NEW h \in 1..Len(e), NEW X \in SUBSET Names,
           NEW e2, Gives(e, h, X, e2)
    PROVE  /\ e2 \in Seq(CScope) /\ Len(e2) = Len(e)
           /\ \A d \in 1..Len(e) : e2[d].kind = e[d].kind /\ e2[d].tag = e[d].tag /\ e2[d].names = e[d].names
           /\ X = {} => e2 = e
<1> DEFINE x == e[h]
           c == [x EXCEPT !.tags = @ \union X]
<1>1. x \in CScope
  OBVIOUS
<1> HIDE DEF x
<1>2. c \in CScope /\ c.kind = x.kind /\ c.tag = x.tag /\ c.names = x.names
  BY <1>1 DEF CScope
<1>3. X = {} => c = x
  BY <1>1 DEF CScope
<1>4. e2 = [e EXCEPT ![h] = c]
  BY DEF x, Gives
<1> HIDE DEF c
<1>5. /\ [e EXCEPT ![h] = c] \in Seq(CScope) /\ Len([e EXCEPT ![h] = c]) = Len(e)
      /\ \A d \in 1..Len(e) : [e EXCEPT ![h] = c][d] = IF d = h THEN c ELSE e[d]
  BY <1>2, ExceptSeq
<1>6. c = x => [e EXCEPT ![h] = c] = e
  BY DEF x
<1> QED
  BY <1>2, <1>3, <1>4, <1>5, <1>6 DEF x

LEMMA GivenName ==
    ASSUME NEW e \in Seq(CScope), NEW h \in 1..Len(e), NEW n \in Names,
           NEW e2, e2 = [e EXCEPT ![h].names = @ \union {n}]
    PROVE  Len(e2) = Len(e) /\ \A d \in 1..Len(e) : e2[d].kind = e[d].kind /\ e2[d].tag = e[d].tag
<1> DEFINE x == e[h]
           c == [x EXCEPT !.names = @ \union {n}]
<1>1. x \in CScope
  OBVIOUS
<1> HIDE DEF x
<1>2. c \in CScope /\ c.kind = x.kind /\ c.tag = x.tag
  BY <1>1 DEF CScope
<1>3. e2 = [e EXCEPT ![h] = c]
  BY DEF x
<1> HIDE DEF c
<1>4. /\ Len([e EXCEPT ![h] = c]) = Len(e)
      /\ \A d \in 1..Len(e) : [e EXCEPT ![h] = c][d] = IF d = h THEN c ELSE e[d]
  BY <1>2, ExceptSeq
<1> QED
  BY <1>2, <1>3, <1>4 DEF x

(* Where tags within structs are a form, no other tags matter either. *)
LEMMA OtherTags ==
    ASSUME NEW s, NEW n, NEW l, NEW e, Inv(s, n, l, e), "nested" \in Forms,
           NEW e2 \in Seq(CScope), Len(e2) = Len(e),
           \A d \in 1..Len(e) : e2[d].kind = e[d].kind /\ e2[d].names = e[d].names
    PROVE  Inv(s, n, l, e2)
<1>1. /\ Len(s) = Len(e) /\ Len(e) \in Nat /\ Len(e) \in 1..Len(e)
      /\ \A d \in 1..Len(s) : Matches(s[d], e[d], d) /\ Placed(e[d], d)
      /\ Len(l) = Owner(e, Len(e))
      /\ \A f \in 1..Len(l) : Stored(l[f], s, e, f, n)
  BY Parts
<1>2. \A d \in 1..Len(s) : Owner(e2, d) = Owner(e, d)
  <2> SUFFICES ASSUME NEW d \in 1..Len(s)
               PROVE  Owner(e2, d) = Owner(e, d)
    OBVIOUS
  <2>1. d \in Nat /\ \A j \in 1..d : e2[j].kind = e[j].kind
    BY <1>1
  <2> QED
    BY <2>1, OwnerSame
<1>3. ASSUME NEW d \in 1..Len(s)
      PROVE  Matches(s[d], e2[d], d) /\ Placed(e2[d], d)
  <2>1. Matches(s[d], e[d], d) /\ Placed(e[d], d) /\ e2[d].kind = e[d].kind /\ e2[d].names = e[d].names
    BY <1>1
  <2>2. Matches(s[d], e2[d], d)
    BY <2>1, Zenon DEF Matches, TagsMatch
  <2> QED
    BY <2>1, <2>2 DEF Placed
<1>4. ASSUME NEW f \in 1..Len(l)
      PROVE  Stored(l[f], s, e2, f, n)
  <2>1. Stored(l[f], s, e, f, n)
    BY <1>1
  <2>2. \A leaf : IsArgument(leaf, s, e, f) => IsArgument(leaf, s, e2, f)
    BY <1>1, <1>2, Zenon DEF IsArgument
  <2> QED
    BY <1>2, <2>1, <2>2, Zenon DEF Stored
<1>5. Typed(s, n, l, e2) /\ Numbered(s, n)
  BY Zenon DEF Inv, Typed
<1> QED
  BY <1>1, <1>2, <1>3, <1>4, <1>5, Zenon DEF Inv

(* A tag stands right inside what is not a struct, unless it is "nested".  *)
Flat(e) ==
    "nested" \notin Forms =>
        \A d \in 2..Len(e) : e[d].kind = "struct" /\ e[d].tag # NoTag => e[d - 1].kind # "struct"

LEMMA HomeOfStruct ==
    ASSUME IInv, Kind = "struct"
    PROVE  /\ Home(Here) \in 1..Here - 1
           /\ Flat(env) /\ "nested" \notin Forms /\ Last(env).tag # NoTag => Home(Here) = Here - 1
<1> DEFINE k == Len(env)
           S == {l \in 1..k : env[l].kind # "struct"}
<1>1. Here = k /\ k \in Nat /\ k > 1 /\ env[k].kind = "struct" /\ Last(env) = env[k]
  BY StateParts
<1>2. env[1].kind = "file"
  <2>1. 1 \in 1..Len(scopes) /\ \A d \in 1..Len(scopes) : Placed(env[d], d)
    BY <1>1, StateParts, Parts DEF IInv
  <2> QED
    BY <2>1 DEF Placed
<1>3. Home(Here) = Max(S)
  BY <1>1 DEF Home
<1> HIDE DEF k
<1>4. 1 \in S /\ S \in SUBSET (1..k) /\ k \notin S /\ k - 1 \in 1..k
  BY <1>1, <1>2
<1>5. Max(S) \in S /\ Max(S) \in 1..k
  <2> HIDE DEF S
  <2> QED
    BY <1>1, <1>4, MaximumUpTo
<1>6. Max(S) \in 1..k - 1
  <2> HIDE DEF S
  <2>1. Max(S) # k
    BY <1>4, <1>5
  <2> QED
    BY <1>1, <1>5, <2>1
<1>7. ASSUME Flat(env), "nested" \notin Forms, Last(env).tag # NoTag
      PROVE  Max(S) = k - 1
  <2>1. k \in 2..Len(env)
    BY <1>1 DEF k
  <2>2. env[k - 1].kind # "struct"
    BY <1>1, <1>7, <2>1 DEF Flat
  <2>3. k - 1 \in S /\ S \subseteq Int /\ \A x \in S : x <= k - 1
    BY <1>1, <1>4, <2>2
  <2> HIDE DEF S
  <2> QED
    BY <2>3, Maximum
<1> QED
  BY <1>1, <1>3, <1>6, <1>7

LEMMA LeaveStructInv ==
    ASSUME IInv, Flat(env), LeaveStruct
    PROVE  IInv'
<1> DEFINE s == Front(scopes)
           e == Front(env)
           k == Len(e)
           h == Home(Here)
           tag == Last(env).tag
           X == {tag} \ {NoTag}
           t == jitc_declare_tagged_type(s, tag, h)
<1>1. Kind = "struct" /\ Kind # "file" /\ Last(env).kind \notin Functions
  BY DEF LeaveStruct, Kind, Functions
<1>2. /\ Len(env) > 1 /\ jitc_pop_scope(scopes) = s /\ id \in Nat /\ id <= id
      /\ k = Here - 1 /\ env \in Seq(CScope) /\ Last(env) \in CScope
  BY <1>1, Left, StateParts
<1>3. e \in Seq(CScope)
  BY <1>2, FrontOf
<1>4. Inv(s, id, leaves, e)
  <2> DEFINE l2 == IF Last(env).kind \in Functions THEN Front(leaves) ELSE leaves
  <2>1. Inv(Front(scopes), id, l2, Front(env))
    BY <1>2, Popped DEF IInv
  <2>2. l2 = leaves
    BY <1>1
  <2> HIDE DEF l2
  <2> QED
    BY <2>1, <2>2
<1>5. h \in 1..k /\ h \in Nat /\ ("nested" \notin Forms /\ tag # NoTag => h = k)
  <2>1. h \in 1..k /\ ("nested" \notin Forms /\ tag # NoTag => h = k)
    BY <1>1, <1>2, HomeOfStruct
  <2> QED
    BY <2>1
<1>6. tag \in Names \union {NoTag} /\ X \in SUBSET Names
  <2>1. Last(env).tag \in Names \union {NoTag}
    BY <1>2 DEF CScope
  <2> QED
    BY <2>1
<1>7. /\ scopes' = IF tag = NoTag THEN s ELSE t
      /\ env' = [e EXCEPT ![h].tags = @ \union X] /\ id' = id /\ leaves' = leaves
  BY <1>2, Zenon DEF LeaveStruct, LeftStruct, CLeaveStruct
<1> HIDE DEF s, e, k, h, tag, t
<1>8. CASE tag = NoTag
  <2>1. X = {}
    BY <1>8
  <2>2. h \in 1..Len(e) /\ Gives(e, h, X, env')
    BY <1>5, <1>7 DEF k, Gives
  <2> HIDE DEF X
  <2>3. env' = e
    BY <1>3, <1>6, <2>1, <2>2, GivenTags
  <2> QED
    BY <1>4, <1>7, <1>8, <2>3, Zenon DEF IInv
<1>9. CASE tag # NoTag
  <2>1. X = {tag} /\ tag \in Names
    BY <1>6, <1>9
  <2> HIDE DEF X
  <2>2. Inv(t, id, leaves, [e EXCEPT ![k].tags = @ \union {tag}])
    BY <1>4, <1>5, <1>9, <2>1, Tagged DEF t, k, StandsAt
  <2>3. CASE "nested" \notin Forms
    BY <1>5, <1>7, <1>9, <2>1, <2>2, <2>3, Zenon DEF IInv
  <2>4. CASE "nested" \in Forms
    <3> DEFINE e1 == [e EXCEPT ![k].tags = @ \union {tag}]
               e2 == [e EXCEPT ![h].tags = @ \union {tag}]
    <3>1. {tag} \in SUBSET Names /\ k \in 1..Len(e) /\ h \in 1..Len(e)
      BY <1>5, <2>1 DEF k
    <3>2. /\ Len(e1) = Len(e)
          /\ \A d \in 1..Len(e) : e1[d].kind = e[d].kind /\ e1[d].names = e[d].names
      <4>1. Gives(e, k, {tag}, e1)
        BY DEF Gives
      <4> HIDE DEF e1
      <4> QED
        BY <1>3, <3>1, <4>1, GivenTags
    <3>3. /\ e2 \in Seq(CScope) /\ Len(e2) = Len(e)
          /\ \A d \in 1..Len(e) : e2[d].kind = e[d].kind /\ e2[d].names = e[d].names
      <4>1. Gives(e, h, {tag}, e2)
        BY DEF Gives
      <4> HIDE DEF e2
      <4> QED
        BY <1>3, <3>1, <4>1, GivenTags
    <3> HIDE DEF e1, e2
    <3>4. Inv(t, id, leaves, e1)
      BY <2>2 DEF e1
    <3>5. Inv(t, id, leaves, e2)
      BY <2>4, <3>2, <3>3, <3>4, OtherTags
    <3> QED
      BY <1>7, <1>9, <2>1, <3>5, Zenon DEF IInv, e2
  <2> QED
    BY <2>3, <2>4
<1> QED
  BY <1>8, <1>9

LEMMA LeaveTemplateInv ==
    ASSUME IInv, NEW n \in Names, LeaveTemplate(n)
    PROVE  IInv'
<1>1. Kind = "template" /\ Kind # "file" /\ Last(env).kind \notin Functions
  BY DEF LeaveTemplate, Kind, Functions
<1>2. /\ Len(env) > 1 /\ jitc_pop_scope(scopes) = Front(scopes) /\ id \in Nat /\ id + 1 \in Nat /\ id <= id + 1
      /\ Front(scopes) \in Seq(ScopeType) /\ Len(Front(scopes)) >= 1
      /\ Len(Front(env)) = Here - 1 /\ Here \in Nat /\ Last(env).names \in SUBSET Names
  <2>1. Last(env) \in CScope /\ Here \in Nat /\ id \in Nat
    BY StateParts
  <2>2. Last(env).names \in SUBSET Names
    BY <2>1 DEF CScope
  <2> QED
    BY <1>1, <2>1, <2>2, Left
<1> DEFINE s == Front(scopes)
           e == Front(env)
           k == Len(e)
           types == Last(env).names
           first == Fresh(id, FALSE)
           again == DeclareAll(jitc_push_scope(jitc_pop_scope(scopes), id), Last(env).names,
                               "typedef", FALSE, Here)
           declarator == jitc_pop_scope(again)
<1>3. jitc_push_scope(s, id) = Append(s, first)
  <2> HIDE DEF s
  <2> QED
    BY <1>2, FreshIsPushed DEF s
<1>4. Opened(first, id, FALSE, {}, {}, Here)
  <2> DEFINE func == FALSE
  <2>1. func \in BOOLEAN
    OBVIOUS
  <2> HIDE DEF func
  <2>2. Opened(Fresh(id, func), id, func, {}, {}, Here)
    BY <1>2, <2>1, FreshIsOpened
  <2> QED
    BY <2>2 DEF func
<1>5. HasTypes(s, first, id, types, Here)
  <2> HIDE DEF s, first, types
  <2> QED
    BY <1>2, <1>4, AllTypesDeclared DEF s, types
<1>6. PICK sc \in ScopeType : DeclareAll(Append(s, first), types, "typedef", FALSE, Here) = Append(s, sc)
  BY <1>5, Zenon DEF HasTypes
<1>7. again = Append(s, sc)
  BY <1>2, <1>3, <1>6
<1>8. declarator = s
  <2>1. s \in Seq(ScopeType) /\ Len(s) >= 1
    BY <1>2
  <2> HIDE DEF s, again
  <2>2. Append(s, sc) \in Seq(ScopeType) /\ Len(Append(s, sc)) = Len(s) + 1 /\ Len(s) \in Nat
    BY <2>1, LastOfAppend
  <2>3. Front(Append(s, sc)) = s
    BY <2>1 DEF Front
  <2> QED
    BY <1>7, <2>1, <2>2, <2>3 DEF jitc_pop_scope
<1>9. id' = id + 1
  BY DEF LeaveTemplate
<1>10. CASE MayDeclare(s, n, "template")
  <2> DEFINE l2 == IF Last(env).kind \in Functions THEN Front(leaves) ELSE leaves
  <2>1. Inv(s, id + 1, l2, e)
    BY <1>2, Popped DEF IInv
  <2>2. l2 = leaves
    BY <1>1
  <2> HIDE DEF l2
  <2>3. Inv(s, id + 1, leaves, e)
    BY <2>1, <2>2
  <2> DEFINE type == "template"
             l3 == IF leaves = <<>> \/ type # "none" THEN leaves
                   ELSE [leaves EXCEPT ![Len(leaves)] = Append(@, Leaf(n, Last(s).scope_id, k))]
  <2>4. type \in VarType /\ MayDeclare(s, n, type) /\ l3 = leaves
    BY <1>10 DEF VarType
  <2>5. Inv(jitc_declare_variable(s, n, type, FALSE, k), id + 1, l3, [e EXCEPT ![k].names = @ \union {n}])
    <3> HIDE DEF s, e, type
    <3> QED
      BY <2>3, <2>4, Declared, Zenon
  <2>6. /\ scopes' = jitc_declare_variable(s, n, type, FALSE, k) /\ env' = [e EXCEPT ![k].names = @ \union {n}]
        /\ leaves' = leaves
    BY <1>2, <1>8, <1>10 DEF LeaveTemplate
  <2> HIDE DEF s, e, k, type, l3
  <2> QED
    BY <1>9, <2>4, <2>5, <2>6, Zenon DEF IInv
<1>11. CASE ~MayDeclare(s, n, "template")
  <2>1. Fail
    BY <1>8, <1>11, Zenon DEF LeaveTemplate
  <2> QED
    BY <1>2, <1>9, <2>1, FailInv
<1> QED
  BY <1>10, <1>11

LEMMA InvNext == IInv /\ Flat(env) /\ [Next]_vars => IInv'
<1> SUFFICES ASSUME IInv, Flat(env), [Next]_vars
             PROVE  IInv'
  OBVIOUS
<1>1. \A names \in Parameters : names \in SUBSET Names
  BY DEF Parameters
<1>2. \A type \in {"none", "typedef"} : type \in VarType
  BY DEF VarType
<1>3. ASSUME NEW n \in Names, NEW type \in {"none", "typedef"}, Declare(n, type)
      PROVE  IInv'
  BY <1>2, <1>3, DeclareInv
<1>4. ASSUME NEW names \in Parameters, Function(names)
      PROVE  IInv'
  BY <1>1, <1>4, FunctionInv
<1>5. ASSUME NEW names \in Parameters, NEW parameter \in Names, Instance(names, parameter)
      PROVE  IInv'
  BY <1>1, <1>5, InstanceInv
<1>6. ASSUME NEW names \in Parameters, Lambda(names)
      PROVE  IInv'
  BY <1>1, <1>6, LambdaInv
<1>7. CASE Block
  BY <1>7, BlockInv
<1>8. CASE Leave
  BY <1>8, LeaveInv
<1>9. ASSUME NEW names \in Parameters, NEW tag \in Names \union {NoTag}, Struct(names, tag)
      PROVE  IInv'
  <2> DEFINE kind == "struct"
  <2>1. kind \in {"struct", "template"} /\ Types(kind, names, tag)
    BY <1>9 DEF Struct
  <2> HIDE DEF kind
  <2> QED
    BY <1>1, <2>1, TypesInv
<1>10. ASSUME NEW n \in Names, Template(n)
       PROVE  IInv'
  <2> DEFINE kind == "template"
             names == {n}
             tag == NoTag
  <2>1. kind \in {"struct", "template"} /\ Types(kind, names, tag) /\ names \in SUBSET Names
        /\ tag \in Names \union {NoTag}
    BY <1>10 DEF Template
  <2> HIDE DEF kind, names, tag
  <2> QED
    BY <2>1, TypesInv
<1>11. CASE LeaveStruct
  BY <1>11, LeaveStructInv
<1>12. ASSUME NEW n \in Names, LeaveTemplate(n)
       PROVE  IInv'
  BY <1>12, LeaveTemplateInv
<1>13. CASE ParseError
  BY <1>13, ParseErrorInv
<1>14. CASE UNCHANGED vars
  BY <1>14, Zenon DEF vars, IInv
<1> QED
  BY <1>3, <1>4, <1>5, <1>6, <1>7, <1>8, <1>9, <1>10, <1>11, <1>12, <1>13, <1>14, Zenon DEF Next

(* The steps keep tags out of structs as well. *)
LEMMA FlatInit == Init => Flat(env)
BY DEF Init, Flat

Begins(e2, e) ==
    /\ Len(e) \in Nat /\ Len(e2) \in Nat /\ Len(e2) <= Len(e)
    /\ \A d \in 1..Len(e2) : e2[d].kind = e[d].kind /\ e2[d].tag = e[d].tag

LEMMA FlatSame ==
    ASSUME NEW e, NEW e2, Flat(e), Begins(e2, e)
    PROVE  Flat(e2)
<1> SUFFICES ASSUME "nested" \notin Forms, NEW d \in 2..Len(e2), e2[d].kind = "struct", e2[d].tag # NoTag
             PROVE  e2[d - 1].kind # "struct"
  BY DEF Flat
<1>1. d \in 1..Len(e2) /\ d - 1 \in 1..Len(e2) /\ d \in 2..Len(e)
  BY DEF Begins
<1>2. e[d - 1].kind # "struct"
  BY <1>1 DEF Flat, Begins
<1> QED
  BY <1>1, <1>2 DEF Begins

LEMMA FlatOpened ==
    ASSUME NEW e \in Seq(CScope), Flat(e), NEW c,
           "nested" \notin Forms /\ c.kind = "struct" /\ c.tag # NoTag => Last(e).kind # "struct"
    PROVE  Flat(Append(e, c))
<1> SUFFICES ASSUME "nested" \notin Forms, NEW d \in 2..Len(e) + 1,
                    Append(e, c)[d].kind = "struct", Append(e, c)[d].tag # NoTag
             PROVE  Append(e, c)[d - 1].kind # "struct"
  BY DEF Flat
<1>1. CASE d = Len(e) + 1
  <2>1. Append(e, c)[d] = c /\ Append(e, c)[d - 1] = Last(e)
    BY <1>1 DEF Last
  <2> QED
    BY <2>1
<1>2. CASE d # Len(e) + 1
  <2>1. d \in 2..Len(e) /\ Append(e, c)[d] = e[d] /\ Append(e, c)[d - 1] = e[d - 1]
    BY <1>2
  <2> QED
    BY <2>1 DEF Flat
<1> QED
  BY <1>1, <1>2

LEMMA FlatNext == IInv /\ Flat(env) /\ [Next]_vars => Flat(env)'
<1> SUFFICES ASSUME IInv, Flat(env), [Next]_vars
             PROVE  Flat(env')
  OBVIOUS
<1>1. env \in Seq(CScope) /\ Len(env) \in Nat /\ Len(env) >= 1 /\ Here = Len(env) /\ Kind = Last(env).kind
  BY StateParts
<1>2. /\ Front(env) \in Seq(CScope) /\ Len(Front(env)) = Len(env) - 1
      /\ \A i \in 1..Len(env) - 1 : Front(env)[i] = env[i]
  BY <1>1, FrontOf
<1>3. Flat(Front(env)) /\ Len(Front(env)) \in Nat
  <2>1. Begins(Front(env), env)
    BY <1>1, <1>2 DEF Begins
  <2> QED
    BY <1>1, <1>2, <2>1, FlatSame
<1>4. ASSUME Fail
      PROVE  Flat(env')
  <2> DEFINE e == SubSeq(env, 1, 1)
  <2>1. env' = e /\ Len(e) = 1 /\ e[1] = env[1]
    BY <1>1, <1>4 DEF Fail
  <2> HIDE DEF e
  <2>2. Begins(e, env)
    BY <1>1, <2>1 DEF Begins
  <2>3. Flat(e)
    BY <2>2, FlatSame
  <2> QED
    BY <2>1, <2>3
<1>5. ASSUME NEW kind, NEW names, NEW tag, NEW pushed, Open(kind, names, tag, pushed),
             "nested" \notin Forms /\ kind = "struct" /\ tag # NoTag => Kind # "struct"
      PROVE  Flat(env')
  <2> DEFINE c == [kind |-> kind, tag |-> tag, names |-> names, tags |-> {}]
  <2>1. env' = Append(env, c) /\ c.kind = kind /\ c.tag = tag
    BY <1>5 DEF Open, COpen
  <2> HIDE DEF c
  <2> QED
    BY <1>1, <1>5, <2>1, FlatOpened
<1>6. ASSUME NEW kind, NEW names, NEW pushed, kind # "struct", Open(kind, names, NoTag, pushed)
      PROVE  Flat(env')
  BY <1>5, <1>6
<1>7. ASSUME NEW e \in Seq(CScope), Flat(e), NEW h \in 1..Len(e), NEW n \in Names,
             env' = [e EXCEPT ![h].names = @ \union {n}]
      PROVE  Flat(env')
  <2> DEFINE e2 == [e EXCEPT ![h].names = @ \union {n}]
  <2>1. Len(e2) = Len(e) /\ \A d \in 1..Len(e) : e2[d].kind = e[d].kind /\ e2[d].tag = e[d].tag
    <3>1. e2 = [e EXCEPT ![h].names = @ \union {n}]
      OBVIOUS
    <3> HIDE DEF e2
    <3> QED
      BY <3>1, GivenName
  <2>2. Len(e) \in Nat /\ env' = e2
    BY <1>7
  <2> HIDE DEF e2
  <2>3. Flat(e2)
    BY <1>7, <2>1, <2>2, FlatSame DEF Begins
  <2> QED
    BY <2>2, <2>3
<1>8. ASSUME NEW n \in Names, NEW type, Declare(n, type)
      PROVE  Flat(env')
  <2>1. Fail \/ env' = [env EXCEPT ![Here].names = @ \union {n}]
    BY <1>8, Zenon DEF Declare
  <2>2. Here \in 1..Len(env)
    BY <1>1
  <2> QED
    BY <1>1, <1>4, <1>7, <2>1, <2>2
<1>9. ASSUME NEW names, Function(names)
      PROVE  Flat(env')
  BY <1>6, <1>9 DEF Function
<1>10. ASSUME NEW names, NEW parameter, Instance(names, parameter)
       PROVE  Flat(env')
  BY <1>6, <1>10 DEF Instance
<1>11. ASSUME NEW names, Lambda(names)
       PROVE  Flat(env')
  BY <1>6, <1>11 DEF Lambda
<1>12. CASE Block
  BY <1>6, <1>12 DEF Block
<1>13. CASE Leave
  BY <1>3, <1>13 DEF Leave
<1>14. ASSUME NEW names, NEW tag, Struct(names, tag)
       PROVE  Flat(env')
  BY <1>5, <1>14 DEF Struct, Types
<1>15. ASSUME NEW n, Template(n)
       PROVE  Flat(env')
  BY <1>6, <1>15 DEF Template, Types
<1>16. CASE LeaveStruct
  <2> DEFINE X == {Last(env).tag} \ {NoTag}
  <2>1. Kind = "struct" /\ env' = [Front(env) EXCEPT ![Home(Here)].tags = @ \union X]
    BY <1>16 DEF LeaveStruct, CLeaveStruct
  <2>2. Home(Here) \in 1..Len(Front(env))
    BY <1>1, <1>2, <2>1, HomeOfStruct
  <2>3. X \in SUBSET Names
    <3>1. Last(env) \in CScope
      BY StateParts
    <3> QED
      BY <3>1 DEF CScope
  <2> DEFINE e == Front(env)
             h == Home(Here)
             e2 == [e EXCEPT ![h].tags = @ \union X]
  <2>4. env' = e2 /\ e \in Seq(CScope) /\ h \in 1..Len(e) /\ Flat(e) /\ Len(e) \in Nat
    BY <1>2, <1>3, <2>1, <2>2
  <2> HIDE DEF X, e, h
  <2>5. Len(e2) = Len(e) /\ \A d \in 1..Len(e) : e2[d].kind = e[d].kind /\ e2[d].tag = e[d].tag
    <3>1. Gives(e, h, X, e2)
      BY DEF Gives
    <3> HIDE DEF e2
    <3> QED
      BY <2>3, <2>4, <3>1, GivenTags
  <2> HIDE DEF e2
  <2>6. Flat(e2)
    BY <2>4, <2>5, FlatSame DEF Begins
  <2> QED
    BY <2>4, <2>6
<1>17. ASSUME NEW n \in Names, LeaveTemplate(n)
       PROVE  Flat(env')
  <2>1. Fail \/ env' = [Front(env) EXCEPT ![Here - 1].names = @ \union {n}]
    BY <1>17, Zenon DEF LeaveTemplate
  <2>2. Here - 1 \in 1..Len(Front(env))
    <3>1. Kind # "file"
      BY <1>17 DEF LeaveTemplate
    <3> QED
      BY <1>1, <1>2, <3>1, StateParts
  <2> QED
    BY <1>2, <1>3, <1>4, <1>7, <2>1, <2>2
<1>18. CASE ParseError
  BY <1>4, <1>18 DEF ParseError
<1>19. CASE UNCHANGED vars
  BY <1>19 DEF vars
<1> QED
  BY <1>8, <1>9, <1>10, <1>11, <1>12, <1>13, <1>14, <1>15, <1>16, <1>17, <1>18, <1>19, Zenon DEF Next

(* What a state promises: the properties of Scopes. *)
LEMMA TypesOK == IInv => TypeOK
<1> SUFFICES ASSUME IInv
             PROVE  TypeOK
  OBVIOUS
<1>1. /\ scopes \in Seq(ScopeType) /\ id \in Nat /\ leaves \in Seq(Seq(LeafType)) /\ env \in Seq(CScope)
      /\ Len(scopes) = Len(env) /\ Len(scopes) >= 1
  BY StateParts
<1>2. ASSUME NEW i \in DOMAIN scopes
      PROVE  /\ scopes[i].func \in BOOLEAN /\ scopes[i].scope_id \in 0..id
             /\ scopes[i].variables \in Maps(Variable)
             /\ WellFormed(scopes[i].variables) /\ WellFormed(scopes[i].tagged)
  <2>1. i \in 1..Len(scopes)
    BY <1>1
  <2>2. scopes[i] \in ScopeType /\ scopes[i].scope_id <= id
    BY <2>1, Parts DEF IInv
  <2>3. /\ scopes[i].variables \in Maps(Variable) /\ scopes[i].tagged \in Maps(Nat)
        /\ scopes[i].func \in BOOLEAN /\ scopes[i].scope_id \in Nat
    BY <2>2 DEF ScopeType
  <2>4. scopes[i].scope_id \in 0..id
    BY <1>1, <2>2, <2>3
  <2>5. WellFormed(scopes[i].variables) /\ WellFormed(scopes[i].tagged)
    BY <2>3, MapType
  <2> QED
    BY <2>3, <2>4, <2>5
<1>3. ASSUME NEW f \in DOMAIN leaves
      PROVE  /\ WellFormed(variable_map(scopes[1].variables, leaves[f]))
             /\ \A l \in DOMAIN leaves[f] : leaves[f][l].where \in 1..MaxDepth
  <2>1. leaves[f] \in Seq(LeafType)
    BY <1>1
  <2>2. scopes[1].variables \in Maps(Variable)
    BY <1>1, <1>2
  <2>3. variable_map(scopes[1].variables, leaves[f]) \in Maps(Nat)
    BY <2>1, <2>2, MapOfNames
  <2>4. \A l \in DOMAIN leaves[f] : leaves[f][l] \in LeafType
    BY <2>1
  <2> QED
    BY <2>3, <2>4, MapType DEF LeafType
<1>4. \A d \in DOMAIN env :
         /\ env[d].kind \in Kinds /\ env[d].tag \in Names \union {NoTag}
         /\ env[d].names \subseteq Names /\ env[d].tags \subseteq Names
  <2>1. \A d \in DOMAIN env : env[d] \in CScope
    BY <1>1
  <2> QED
    BY <2>1 DEF CScope
<1>5. Len(leaves) = Cardinality({d \in DOMAIN env : env[d].kind \in Functions})
  <2>1. Len(leaves) = Owner(env, Len(env))
    BY Parts DEF IInv
  <2>2. DOMAIN env = 1..Len(env)
    BY <1>1
  <2> QED
    BY <2>1, <2>2 DEF Owner
<1> QED
  BY <1>1, <1>2, <1>3, <1>4, <1>5, Zenon DEF TypeOK

LEMMA Balanced == IInv => ScopesBalanced
BY StateParts DEF ScopesBalanced

(* The scopes in which the parser sees a name declared are those of C. *)
SeenAt(n) == {i \in Visible(scopes) : Has(scopes[i].variables, n)}

LEMMA Seen ==
    ASSUME IInv, NEW n \in Names
    PROVE  /\ SeenAt(n) = {d \in CSeen : n \in env[d].names}
           /\ SeenAt(n) = {} => jitc_get_variable(scopes, n) = None
           /\ SeenAt(n) # {} =>
                 \E k \in SeenAt(n) :
                    /\ k \in 1..Len(scopes) /\ Max(SeenAt(n)) = k /\ \A d \in SeenAt(n) : d <= k
                    /\ jitc_get_variable(scopes, n) = Value(scopes[k].variables, n)
                    /\ Value(scopes[k].variables, n).where = k
                    /\ Value(scopes[k].variables, n).scope_id \in {0, scopes[k].scope_id}
<1>1. /\ Len(scopes) = Len(env) /\ DOMAIN scopes = 1..Len(scopes) /\ DOMAIN env = 1..Len(env) /\ Here = Len(env)
      /\ Len(scopes) \in Nat
  BY StateParts
<1>2. \A d \in 1..Len(scopes) : Matches(scopes[d], env[d], d)
  BY Parts DEF IInv
<1>3. \A d \in 1..Len(scopes) :
        /\ scopes[d].func <=> env[d].kind = "lambda"
        /\ Has(scopes[d].variables, n) <=> n \in env[d].names
        /\ Has(scopes[d].variables, n) => /\ Value(scopes[d].variables, n).where = d
                                          /\ Value(scopes[d].variables, n).scope_id \in {0, scopes[d].scope_id}
  BY <1>2 DEF Matches
<1>4. Visible(scopes) = CSeen
  <2>1. ASSUME NEW d \in 1..Len(scopes)
        PROVE  (\A j \in d + 1 .. Len(scopes) : ~scopes[j].func)
                  <=> \A j \in d + 1 .. Here : env[j].kind # "lambda"
    <3>1. \A j \in d + 1 .. Len(scopes) : j \in 1..Len(scopes)
      BY <1>1
    <3> QED
      BY <1>1, <1>3, <3>1
  <2> QED
    BY <1>1, <2>1 DEF Visible, CSeen
<1>5. Visible(scopes) \in SUBSET (1..Len(scopes))
  BY <1>1 DEF Visible
<1>6. SeenAt(n) = {d \in CSeen : n \in env[d].names}
  BY <1>3, <1>4, <1>5 DEF SeenAt
<1>7. SeenAt(n) = {} => jitc_get_variable(scopes, n) = None
  BY DEF SeenAt, jitc_get_variable
<1>8. ASSUME SeenAt(n) # {}
      PROVE  \E k \in SeenAt(n) :
                /\ k \in 1..Len(scopes) /\ Max(SeenAt(n)) = k /\ \A d \in SeenAt(n) : d <= k
                /\ jitc_get_variable(scopes, n) = Value(scopes[k].variables, n)
                /\ Value(scopes[k].variables, n).where = k
                /\ Value(scopes[k].variables, n).scope_id \in {0, scopes[k].scope_id}
  <2> DEFINE k == Max(SeenAt(n))
  <2>1. IsFiniteSet(SeenAt(n)) /\ SeenAt(n) \in SUBSET Nat
    <3>1. IsFiniteSet(1..Len(scopes))
      BY <1>1, UpTo
    <3>2. SeenAt(n) \in SUBSET (1..Len(scopes))
      BY <1>5 DEF SeenAt
    <3> QED
      BY <1>1, <3>1, <3>2, FS_Subset
  <2>2. k \in SeenAt(n) /\ \A d \in SeenAt(n) : d <= k
    BY <1>8, <2>1, MaximumExists
  <2>3. jitc_get_variable(scopes, n) = Value(scopes[k].variables, n)
    BY <1>8 DEF SeenAt, jitc_get_variable, Value
  <2>4. k \in 1..Len(scopes) /\ Has(scopes[k].variables, n)
    BY <1>5, <2>2 DEF SeenAt
  <2>5. Max(SeenAt(n)) = k
    OBVIOUS
  <2> HIDE DEF k
  <2> QED
    BY <1>3, <2>2, <2>3, <2>4, <2>5
<1> QED
  BY <1>6, <1>7, <1>8

LEMMA Resolved == IInv => ResolvesAsInC
<1> SUFFICES ASSUME IInv, NEW n \in Names
             PROVE  jitc_get_variable(scopes, n).where = CVariable(n)
  BY DEF ResolvesAsInC
<1>1. CASE SeenAt(n) = {}
  <2>1. jitc_get_variable(scopes, n).where = 0
    BY <1>1, Seen DEF None
  <2>2. CVariable(n) = 0
    BY <1>1, Seen DEF CVariable
  <2> QED
    BY <2>1, <2>2
<1>2. CASE SeenAt(n) # {}
  <2>1. CVariable(n) = Max(SeenAt(n))
    BY <1>2, Seen DEF CVariable
  <2>2. jitc_get_variable(scopes, n).where = Max(SeenAt(n))
    BY <1>2, Seen
  <2> QED
    BY <2>1, <2>2
<1> QED
  BY <1>1, <1>2

LEMMA ResolvedTags ==
    ASSUME IInv, "nested" \notin Forms, "self" \notin Forms
    PROVE  TagsAsInC
<1> SUFFICES ASSUME NEW n \in Names, MayName(n)
             PROVE  \/ jitc_get_tagged_type_notype(scopes, n) = CTagged(n)
                    \/ n \in Defining /\ jitc_get_tagged_type_notype(scopes, n) = 0
  BY DEF TagsAsInC
<1> DEFINE there == {i \in DOMAIN scopes : Has(scopes[i].tagged, n)}
           k == Max(there)
<1>1. /\ Len(scopes) = Len(env) /\ DOMAIN scopes = 1..Len(scopes) /\ DOMAIN env = 1..Len(env)
      /\ Len(scopes) \in Nat
  BY StateParts
<1>2. \A d \in 1..Len(scopes) : Matches(scopes[d], env[d], d)
  BY Parts DEF IInv
<1>3. \A d \in 1..Len(scopes) :
        /\ Has(scopes[d].tagged, n) <=> n \in env[d].tags
        /\ Has(scopes[d].tagged, n) => Value(scopes[d].tagged, n) = d
  BY <1>2 DEF Matches, TagsMatch
<1>4. there = {d \in DOMAIN env : n \in env[d].tags}
  BY <1>1, <1>3
<1>5. jitc_get_tagged_type_notype(scopes, n) = IF there = {} THEN 0 ELSE Value(scopes[k].tagged, n)
  BY Zenon DEF jitc_get_tagged_type_notype, Value
<1>6. there # {} => Value(scopes[k].tagged, n) = k
  <2>1. IsFiniteSet(1..Len(scopes)) /\ there \in SUBSET (1..Len(scopes))
    BY <1>1, UpTo
  <2>2. IsFiniteSet(there) /\ there \in SUBSET Nat
    BY <1>1, <2>1, FS_Subset
  <2>3. there # {} => k \in there
    <3> HIDE DEF there
    <3> QED
      BY <2>2, MaximumExists
  <2>4. k \in there => k \in 1..Len(scopes) /\ Has(scopes[k].tagged, n)
    BY <2>1
  <2> HIDE DEF there, k
  <2> QED
    BY <1>3, <2>3, <2>4
<1> HIDE DEF k
<1>7. CASE n \in Defining
  <2>1. \A d \in DOMAIN env : n \notin env[d].tags
    BY <1>7 DEF MayName
  <2>2. there = {}
    BY <1>4, <2>1
  <2> HIDE DEF there
  <2> QED
    BY <1>5, <1>7, <2>2
<1>8. CASE n \notin Defining
  <2> DEFINE own == {Home(d) : d \in {l \in DOMAIN env : env[l].kind = "struct" /\ env[l].tag = n}}
  <2>1. {l \in DOMAIN env : env[l].kind = "struct" /\ env[l].tag = n} = {}
    BY <1>8 DEF Defining
  <2>2. own = {}
    BY <2>1
  <2>3. CTagged(n) = IF there \union own = {} THEN 0 ELSE Max(there \union own)
    BY <1>4, Zenon DEF CTagged
  <2>4. CTagged(n) = IF there = {} THEN 0 ELSE k
    <3> HIDE DEF there, own
    <3>1. there \union own = there
      BY <2>2
    <3> QED
      BY <2>3, <3>1, Zenon DEF k, there
  <2> HIDE DEF there, own
  <2> QED
    BY <1>5, <1>6, <2>4
<1> QED
  BY <1>7, <1>8

LEMMA Reached == IInv => NamesReachStorage
<1> SUFFICES ASSUME IInv, leaves # <<>>
             PROVE  LET map == variable_map(scopes[1].variables, Last(leaves))
                    IN  /\ \A n \in Names :
                              LET var == jitc_get_variable(scopes, n)
                              IN  var.where # 0 /\ var.type = "none" =>
                                      map_get_value(map_find(map, jitc_scoped_name(n, var.scope_id))) = var.where
                        /\ \A i, j \in DOMAIN Last(leaves) :
                              Last(leaves)[i].name = Last(leaves)[j].name => i = j
  BY Zenon DEF NamesReachStorage
<1> DEFINE list == Last(leaves)
           globals == scopes[1].variables
           map == variable_map(globals, list)
           h == Len(env)
           F == Len(leaves)
<1>1. /\ leaves \in Seq(Seq(LeafType)) /\ Len(scopes) = h /\ h \in Nat /\ h >= 1 /\ id \in Nat /\ Len(scopes) >= 1
  BY StateParts
<1>2. list \in Seq(LeafType) /\ list = leaves[F] /\ F \in 1..Len(leaves)
  BY <1>1 DEF Last
<1>3. globals \in Maps(Variable) /\ scopes[1].scope_id = 0
  <2>1. scopes[1] \in ScopeType /\ scopes[1].scope_id = 0
    BY <1>1, Parts DEF IInv
  <2> QED
    BY <2>1 DEF ScopeType
<1>4. F = Owner(env, h) /\ Stored(list, scopes, env, F, id)
  BY <1>2, Parts DEF IInv
<1>5. \A i, j \in DOMAIN list : list[i].name = list[j].name => i = j
  BY <1>4 DEF Stored
<1>6. \A d \in 1..h : Placed(env[d], d)
  BY <1>1, Parts DEF IInv
<1>7. \A d \in 1..h : Owner(env, d) = F <=> \A j \in d + 1 .. h : env[j].kind \notin Functions
  <2> SUFFICES ASSUME NEW d \in 1..h
               PROVE  Owner(env, d) = F <=> \A j \in d + 1 .. h : env[j].kind \notin Functions
    OBVIOUS
  <2>1. d \in Nat /\ h \in Nat /\ d <= h
    BY <1>1
  <2> HIDE DEF h
  <2>2. Owner(env, d) = Owner(env, h) <=> \A j \in d + 1 .. h : env[j].kind \notin Functions
    BY <2>1, OwnerBetween
  <2> QED
    BY <1>4, <2>2
<1>8. \A d \in 1..h : /\ d \in Visible(scopes) <=> d = 1 \/ \A j \in d + 1 .. h : ~scopes[j].func
                      /\ scopes[d].func <=> env[d].kind = "lambda"
  <2>1. \A d \in 1..h : scopes[d].func <=> env[d].kind = "lambda"
    BY <1>1, Parts DEF IInv, Matches
  <2>2. DOMAIN scopes = 1..h
    BY StateParts
  <2> QED
    BY <1>1, <2>1, <2>2 DEF Visible
<1>9. \A d \in 1..h : \A j \in d + 1 .. h : j \in 1..h
  BY <1>1
<1>10. ASSUME NEW n \in Names, jitc_get_variable(scopes, n).where # 0, jitc_get_variable(scopes, n).type = "none"
       PROVE  Value(map, jitc_scoped_name(n, jitc_get_variable(scopes, n).scope_id))
                = jitc_get_variable(scopes, n).where
  <2> DEFINE var == jitc_get_variable(scopes, n)
  <2>1. SeenAt(n) # {}
    BY <1>10, Seen DEF None
  <2>2. PICK k \in SeenAt(n) :
           /\ k \in 1..Len(scopes) /\ \A d \in SeenAt(n) : d <= k
           /\ var = Value(scopes[k].variables, n) /\ var.where = k /\ var.scope_id \in {0, scopes[k].scope_id}
    BY <2>1, Seen
  <2>3. k \in 1..h /\ k \in Visible(scopes) /\ Has(scopes[k].variables, n)
    BY <1>1, <2>2 DEF SeenAt
  <2> HIDE DEF list, map, globals, F, h, var
  <2>4. CASE k # 1
    <3>1. \A j \in k + 1 .. h : env[j].kind \notin Functions
      <4> SUFFICES ASSUME NEW j \in k + 1 .. h
                   PROVE  env[j].kind \notin Functions
        OBVIOUS
      <4>1. j \in 1..h /\ j # 2 /\ k \in 1..h
        BY <1>1, <2>3, <2>4
      <4>2. env[j].kind # "lambda"
        BY <1>8, <2>3, <2>4, <4>1
      <4>3. env[j].kind \notin {"function", "instance"}
        BY <1>6, <4>1 DEF Placed
      <4> QED
        BY <4>2, <4>3 DEF Functions
    <3>2. Owner(env, k) = F
      BY <1>7, <2>3, <3>1
    <3>3. PICK i \in DOMAIN list : list[i] = Leaf(n, var.scope_id, k)
      <4>1. k \in 1..Len(scopes) /\ Has(scopes[k].variables, n) /\ Value(scopes[k].variables, n).type = "none"
        BY <1>10, <2>2, <2>3 DEF var
      <4>2. \E i \in DOMAIN list : list[i] = Leaf(n, Value(scopes[k].variables, n).scope_id, k)
        BY <1>4, <3>2, <4>1, Zenon DEF Stored
      <4> QED
        BY <2>2, <4>2
    <3>4. list[i].name = jitc_scoped_name(n, var.scope_id) /\ list[i].where = k
      BY <3>3 DEF Leaf
    <3>5. Value(map, list[i].name) = list[i].where
      <4>1. \A j \in DOMAIN list : list[j].name = list[i].name => i = j
        BY <1>5
      <4> QED
        BY <1>2, <1>3, <4>1, MapOfNames DEF map
    <3> QED
      BY <2>2, <3>4, <3>5 DEF var
  <2>5. CASE k = 1
    <3>1. var.scope_id = 0 /\ jitc_scoped_name(n, 0) = n /\ n \in Int
      BY <1>3, <2>2, <2>5, ScopedOnce, NamesAssumption
    <3>2. ASSUME NEW i \in DOMAIN list, list[i].name = n
          PROVE  FALSE
      <4>1. CASE IsArgument(list[i], scopes, env, F)
        <5>1. PICK d \in 1..h : Owner(env, d) = F /\ env[d].kind \in Functions /\ Has(scopes[d].variables, n)
          BY <1>1, <3>2, <4>1 DEF IsArgument
        <5>2. \A j \in d + 1 .. h : env[j].kind \notin Functions
          BY <1>7, <5>1
        <5>3. \A j \in d + 1 .. h : ~scopes[j].func
          BY <1>8, <1>9, <5>2 DEF Functions
        <5>4. d \in SeenAt(n)
          BY <1>8, <5>1, <5>3 DEF SeenAt
        <5>5. d # 1
          <6>1. d = 1 => env[d].kind = "file"
            BY <1>6 DEF Placed
          <6> QED
            BY <5>1, <6>1 DEF Functions
        <5> QED
          BY <2>2, <2>5, <5>4, <5>5
      <4>2. CASE IsLocal(list[i], scopes, id)
        <5>1. PICK q \in Names, m \in 1..id : n = jitc_scoped_name(q, m)
          BY <3>2, <4>2, Zenon DEF IsLocal
        <5>2. m \in Nat /\ 0 \in Nat /\ m # 0
          BY <1>1
        <5>3. jitc_scoped_name(n, 0) = jitc_scoped_name(q, m)
          BY <3>1, <5>1
        <5> DEFINE z == 0
        <5>4. z \in Nat /\ jitc_scoped_name(n, z) = jitc_scoped_name(q, m) /\ m # z
          BY <5>2, <5>3
        <5> HIDE DEF z
        <5> QED
          BY <5>2, <5>4, ScopedOnce
      <4>3. IsArgument(list[i], scopes, env, F) \/ IsLocal(list[i], scopes, id)
        BY <1>4, Zenon DEF Stored
      <4> QED
        BY <4>1, <4>2, <4>3
    <3>3. Has(globals, n) /\ Value(globals, n).where = 1
      BY <2>2, <2>3, <2>5 DEF globals
    <3>4. Value(map, n) = Value(globals, n).where
      BY <1>2, <1>3, <3>1, <3>2, <3>3, MapOfNames DEF map
    <3>5. Value(map, jitc_scoped_name(n, var.scope_id)) = var.where
      BY <2>2, <2>5, <3>1, <3>3, <3>4
    <3> QED
      BY <3>5 DEF var
  <2> QED
    BY <2>4, <2>5
<1> HIDE DEF list, map, F, h
<1>11. \A n \in Names :
          LET var == jitc_get_variable(scopes, n)
          IN  var.where # 0 /\ var.type = "none" =>
                  map_get_value(map_find(map, jitc_scoped_name(n, var.scope_id))) = var.where
  BY <1>10, Zenon DEF Value
<1> QED
  BY <1>5, <1>11, Zenon DEF list, map, globals
--------------------------------------------------------------------------------
(* In every state: each scope the parser has open matches the scope of C   *)
(* at its depth, and the lists of leaves hold what the scopes declare.     *)
THEOREM ScopesInvariance == Spec => [](IInv /\ Flat(env))
BY InvInit, FlatInit, InvNext, FlatNext, PTL DEF Spec

(* For any names, any depth and any number of scopes the maps that are     *)
(* searched are sorted and have each key once, the file's, those of the    *)
(* scopes, and the one code generation puts together; cursors are in them. *)
THEOREM ScopesTypeCorrect == Spec => []TypeOK
BY ScopesInvariance, TypesOK, PTL

(* Whatever is opened and left, and whatever fails, there are as many      *)
(* scopes as the program has left open.                                    *)
THEOREM ScopesStayBalanced == Spec => []ScopesBalanced
BY ScopesInvariance, Balanced, PTL

(* Every name is resolved to the declaration it has in C, the surroundings *)
(* of a lambda being hidden from it.                                       *)
THEOREM NamesResolveAsInC == Spec => []ResolvesAsInC
BY ScopesInvariance, Resolved, PTL

(* Every tag is resolved to the struct it has in C, where braces of        *)
(* structs are no scopes and a tag is seen from where it appears: as long  *)
(* as no tag is defined within another struct and no struct names itself   *)
(* where another one has its tag.  Its own, until it is left, is found     *)
(* nowhere and goes by its name.                                           *)
THEOREM TagsResolveAsInC ==
  ASSUME "nested" \notin Forms, "self" \notin Forms
  PROVE  Spec => []TagsAsInC
<1>1. IInv => TagsAsInC
  BY ResolvedTags
<1> QED
  BY <1>1, ScopesInvariance, PTL

(* Code generation finds by its name alone what the parser has found by    *)
(* scope: the ids of scopes are never given twice, so no two names of a    *)
(* function are equal.                                                     *)
THEOREM EveryNameReachesItsStorage == Spec => []NamesReachStorage
BY ScopesInvariance, Reached, PTL
================================================================================
