-------------------------- MODULE PageAlloc_proofs --------------------------
(***************************************************************************)
(* The page allocator for every memory map and every sequence of requests. *)
(* Part 1: page_alloc_init fills the array it made, and split halves a     *)
(* block down to the size asked for.                                       *)
(* Part 2: the halves of a block are apart from each other and aligned,    *)
(* and a list in which they replace it is as sound as it was.              *)
(***************************************************************************)
EXTENDS PageAlloc, WellFoundedInduction, TLAPS

(* Sequences, as far as the free lists need them. *)
LEMMA EmptyList ==
  ASSUME NEW S
  PROVE  <<>> \in Seq(S) /\ Len(<<>>) = 0 /\ \A q \in Seq(S) : q # <<>> => Len(q) \in Nat \ {0}
  OBVIOUS

LEMMA JoinedLists ==
  ASSUME NEW S, NEW q \in Seq(S), NEW r \in Seq(S)
  PROVE  /\ q \o r \in Seq(S) /\ Len(q \o r) = Len(q) + Len(r)
         /\ \A i \in 1..(Len(q) + Len(r)) : (q \o r)[i] = IF i <= Len(q) THEN q[i] ELSE r[i - Len(q)]
  OBVIOUS

LEMMA JoinedEmpty ==
  ASSUME NEW S, NEW q \in Seq(S)
  PROVE  q \o <<>> = q /\ <<>> \o q = q
  OBVIOUS

LEMMA PartOfList ==
  ASSUME NEW S, NEW q, NEW m \in Int, NEW n \in Int, \A i \in m..n : q[i] \in S
  PROVE  /\ SubSeq(q, m, n) \in Seq(S)
         /\ Len(SubSeq(q, m, n)) = IF m <= n THEN n - m + 1 ELSE 0
         /\ \A i \in 1..(n - m + 1) : SubSeq(q, m, n)[i] = q[m + i - 1]
  OBVIOUS

LEMMA EmptyPart ==
  ASSUME NEW q, NEW m \in Int, NEW n \in Int, n < m
  PROVE  SubSeq(q, m, n) = <<>>
  OBVIOUS

LEMMA WholePart ==
  ASSUME NEW S, NEW q \in Seq(S)
  PROVE  SubSeq(q, 1, Len(q)) = q
  OBVIOUS

LEMMA ListAppended ==
  ASSUME NEW S, NEW q \in Seq(S), NEW e \in S
  PROVE  /\ Append(q, e) \in Seq(S) /\ Len(Append(q, e)) = Len(q) + 1
         /\ \A i \in 1..Len(q) : Append(q, e)[i] = q[i]
         /\ Append(q, e)[Len(q) + 1] = e
  OBVIOUS

-----------------------------------------------------------------------------
(* A nonempty set of numbers has a smallest one. *)
LEMMA LeastOf ==
  ASSUME NEW T \in SUBSET Nat, T # {}
  PROVE  Least(T) \in T /\ \A k \in T : Least(T) <= k
  <1>1. PICK m \in T : \A k \in T : ~(<<k, m>> \in OpToRel(<, Nat))
    BY NatLessThanWellFounded, WFMin
  <1>2. ASSUME NEW k \in T, k < m PROVE FALSE
    <2>1. <<k, m>> \in OpToRel(<, Nat)
      BY <1>2 DEF OpToRel
    <2> QED BY <1>1, <2>1, Zenon
  <1>3. \E x \in T : \A y \in T : x <= y
    BY <1>2
  <1> QED BY <1>3 DEF Least

(* Induction for a set of numbers, from all smaller numbers. *)
LEMMA FromSmaller ==
  ASSUME NEW G, \A n \in Nat : (\A m \in 0..(n - 1) : m \in G) => n \in G
  PROVE  \A n \in Nat : n \in G
  <1> DEFINE B == {n \in Nat : n \notin G}
  <1> SUFFICES ASSUME B # {} PROVE FALSE
    OBVIOUS
  <1>0. B \in SUBSET Nat
    OBVIOUS
  <1>1. Least(B) \in B /\ \A k \in B : Least(B) <= k
    <2> HIDE DEF B
    <2> QED BY <1>0, LeastOf
  <1>2. Least(B) \in Nat /\ \A m \in 0..(Least(B) - 1) : m \in G
    BY <1>1
  <1> QED BY <1>1, <1>2

-----------------------------------------------------------------------------
(* Functions by recursion to a smaller number p[x]: on B the value is a[x],
   elsewhere g[x] makes it from the value at p[x]. *)
Descends(V, B, a, p, g) ==
  /\ a \in [Nat -> V] /\ p \in [Nat -> Nat] /\ g \in [Nat -> [V -> V]]
  /\ \A x \in Nat : x \notin B => p[x] < x
At(f, x, B, a, p, g) == IF x \in B THEN a[x] ELSE g[x][f[p[x]]]
Solves(f, n, V, B, a, p, g) ==
  f \in [0..n -> V] /\ \A x \in 0..n : f[x] = At(f, x, B, a, p, g)

LEMMA SolvesUnique ==
  ASSUME NEW V, NEW B, NEW a, NEW p, NEW g, Descends(V, B, a, p, g),
         NEW m \in Nat, NEW n \in Nat, NEW e, NEW f,
         Solves(e, m, V, B, a, p, g), Solves(f, n, V, B, a, p, g)
  PROVE  \A x \in Nat : x <= m /\ x <= n => e[x] = f[x]
  <1> DEFINE G == {x \in Nat : x <= m /\ x <= n => e[x] = f[x]}
  <1>1. ASSUME NEW x \in Nat, \A y \in 0..(x - 1) : y \in G PROVE x \in G
    <2> SUFFICES ASSUME x <= m, x <= n PROVE e[x] = f[x]
      OBVIOUS
    <2>0. e[x] = At(e, x, B, a, p, g) /\ f[x] = At(f, x, B, a, p, g)
      BY DEF Solves
    <2>1. CASE x \in B
      BY <2>0, <2>1 DEF At
    <2>2. CASE x \notin B
      <3>1. p[x] \in 0..(x - 1) /\ p[x] <= m /\ p[x] <= n
        BY <2>2 DEF Descends
      <3>2. e[p[x]] = f[p[x]]
        BY <1>1, <3>1
      <3> QED BY <2>0, <2>2, <3>2 DEF At
    <2> QED BY <2>1, <2>2
  <1>2. \A x \in Nat : x \in G
    <2> HIDE DEF G
    <2> QED BY <1>1, FromSmaller
  <1> QED BY <1>2

LEMMA SolvesExist ==
  ASSUME NEW V, NEW B, NEW a, NEW p, NEW g, Descends(V, B, a, p, g)
  PROVE  \A n \in Nat : \E f : Solves(f, n, V, B, a, p, g)
  <1> DEFINE S(f, n) == Solves(f, n, V, B, a, p, g)
             G == {n \in Nat : \E f : S(f, n)}
  <1>1. ASSUME NEW n \in Nat, \A m \in 0..(n - 1) : m \in G PROVE n \in G
    <2>1. CASE n \in B
      <3>1. a[n] \in V
        BY DEF Descends
      <3>2. CASE n = 0
        <4> DEFINE h == [x \in 0..n |-> a[n]]
        <4>1. h \in [0..n -> V] /\ \A x \in 0..n : x = n /\ h[x] = a[x]
          BY <3>1, <3>2
        <4> HIDE DEF h
        <4>2. S(h, n)
          BY <2>1, <4>1 DEF Solves, At
        <4> QED BY <4>2
      <3>3. CASE n > 0
        <4>1. PICK f : S(f, n - 1)
          BY <1>1, <3>3
        <4> DEFINE h == [x \in 0..n |-> IF x = n THEN a[n] ELSE f[x]]
        <4>2. f \in [0..(n - 1) -> V]
          BY <4>1 DEF Solves
        <4>3. h \in [0..n -> V] /\ h[n] = a[n] /\ \A x \in 0..(n - 1) : h[x] = f[x]
          BY <3>1, <4>2
        <4> HIDE DEF h
        <4>4. ASSUME NEW x \in 0..(n - 1) PROVE h[x] = At(h, x, B, a, p, g)
          <5>1. f[x] = At(f, x, B, a, p, g)
            BY <4>1 DEF Solves
          <5>2. CASE x \in B
            BY <4>3, <5>1, <5>2 DEF At
          <5>3. CASE x \notin B
            <6>1. p[x] \in 0..(n - 1)
              BY <5>3 DEF Descends
            <6> QED BY <4>3, <5>1, <5>3, <6>1 DEF At
          <5> QED BY <5>2, <5>3
        <4>5. h[n] = At(h, n, B, a, p, g)
          BY <2>1, <4>3 DEF At
        <4>6. \A x \in 0..n : h[x] = At(h, x, B, a, p, g)
          BY <4>4, <4>5
        <4>7. S(h, n)
          BY <4>3, <4>6 DEF Solves
        <4> QED BY <4>7
      <3> QED BY <3>2, <3>3
    <2>2. CASE n \notin B
      <3>0. p[n] \in 0..(n - 1) /\ n > 0
        BY <2>2 DEF Descends
      <3>1. PICK f : S(f, n - 1)
        BY <1>1, <3>0
      <3>2. f \in [0..(n - 1) -> V]
        BY <3>1 DEF Solves
      <3> DEFINE w == g[n][f[p[n]]]
      <3>3. w \in V
        BY <3>0, <3>2 DEF Descends
      <3> DEFINE h == [x \in 0..n |-> IF x = n THEN w ELSE f[x]]
      <3>4. h \in [0..n -> V] /\ h[n] = w /\ \A x \in 0..(n - 1) : h[x] = f[x]
        <4> HIDE DEF w
        <4> QED BY <3>2, <3>3
      <3> HIDE DEF h
      <3>5. ASSUME NEW x \in 0..(n - 1) PROVE h[x] = At(h, x, B, a, p, g)
        <4>1. f[x] = At(f, x, B, a, p, g)
          BY <3>1 DEF Solves
        <4>2. CASE x \in B
          BY <3>4, <4>1, <4>2 DEF At
        <4>3. CASE x \notin B
          <5>1. p[x] \in 0..(n - 1)
            BY <4>3 DEF Descends
          <5> QED BY <3>4, <4>1, <4>3, <5>1 DEF At
        <4> QED BY <4>2, <4>3
      <3>6. h[n] = At(h, n, B, a, p, g)
        BY <2>2, <3>0, <3>4 DEF At
      <3>7. \A x \in 0..n : h[x] = At(h, x, B, a, p, g)
        BY <3>5, <3>6
      <3>8. S(h, n)
        BY <3>4, <3>7 DEF Solves
      <3> QED BY <3>8
    <2> QED BY <2>1, <2>2
  <1>2. \A n \in Nat : n \in G
    <2> HIDE DEF G
    <2> QED BY <1>1, FromSmaller
  <1> QED BY <1>2

LEMMA Recursion ==
  ASSUME NEW V, NEW B, NEW a, NEW p, NEW g, Descends(V, B, a, p, g)
  PROVE  \E f \in [Nat -> V] : \A x \in Nat : f[x] = At(f, x, B, a, p, g)
  <1> DEFINE S(f, n) == Solves(f, n, V, B, a, p, g)
             h(n) == CHOOSE f : S(f, n)
             F == [x \in Nat |-> h(x)[x]]
  <1>1. ASSUME NEW n \in Nat PROVE S(h(n), n)
    BY SolvesExist
  <1> HIDE DEF h
  <1>2. ASSUME NEW n \in Nat, NEW x \in 0..n PROVE h(n)[x] = F[x]
    <2>1. S(h(n), n) /\ S(h(x), x)
      BY <1>1
    <2>2. x <= n /\ x <= x /\ x \in Nat
      OBVIOUS
    <2>3. h(n)[x] = h(x)[x]
      BY <2>1, <2>2, SolvesUnique
    <2> QED BY <2>2, <2>3
  <1>3. F \in [Nat -> V]
    <2>1. ASSUME NEW x \in Nat PROVE h(x)[x] \in V
      BY <1>1 DEF Solves
    <2> QED BY <2>1
  <1>4. ASSUME NEW x \in Nat PROVE F[x] = At(F, x, B, a, p, g)
    <2>1. h(x)[x] = At(h(x), x, B, a, p, g)
      BY <1>1 DEF Solves
    <2>2. h(x)[x] = F[x]
      BY <1>2
    <2> HIDE DEF F
    <2>3. CASE x \in B
      BY <2>1, <2>2, <2>3 DEF At
    <2>4. CASE x \notin B
      <3>1. p[x] \in 0..x
        BY <2>4 DEF Descends
      <3>2. h(x)[p[x]] = F[p[x]]
        BY <1>2, <3>1
      <3> QED BY <2>1, <2>2, <2>4, <3>2 DEF At
    <2> QED BY <2>3, <2>4
  <1> HIDE DEF F
  <1> QED BY <1>3, <1>4

-----------------------------------------------------------------------------
(* prev_pow2 and next_pow2 obey their equations. *)
LEMMA PrevEquation ==
  \A x \in Nat : prev_pow2[x] = IF x < 2 THEN x ELSE 2 * prev_pow2[x \div 2]
  <1> DEFINE a == [x \in Nat |-> x]
             p == [x \in Nat |-> x \div 2]
             g == [x \in Nat |-> [v \in Nat |-> 2 * v]]
             Eq(f) == f = [x \in Nat |-> IF x < 2 THEN x ELSE 2 * f[x \div 2]]
  <1>1. Descends(Nat, {0, 1}, a, p, g)
    BY DEF Descends
  <1>2. PICK f \in [Nat -> Nat] : \A x \in Nat : f[x] = At(f, x, {0, 1}, a, p, g)
    <2> HIDE DEF a, p, g
    <2> QED BY <1>1, Recursion
  <1>3. ASSUME NEW x \in Nat PROVE f[x] = IF x < 2 THEN x ELSE 2 * f[x \div 2]
    <2>1. x \div 2 \in Nat /\ f[x \div 2] \in Nat /\ (x \in {0, 1} <=> x < 2)
      OBVIOUS
    <2>2. f[x] = At(f, x, {0, 1}, a, p, g)
      BY <1>2
    <2> QED BY <2>1, <2>2 DEF At
  <1>4. Eq(f)
    BY <1>3
  <1>5. prev_pow2 = CHOOSE h : Eq(h)
    BY DEF prev_pow2
  <1>6. Eq(prev_pow2)
    <2> HIDE DEF Eq
    <2> QED BY <1>4, <1>5
  <1> QED BY <1>6

LEMMA NextEquation ==
  \A x \in Nat : next_pow2[x] = IF x < 2 THEN x ELSE 2 * next_pow2[(x + 1) \div 2]
  <1> DEFINE a == [x \in Nat |-> x]
             p == [x \in Nat |-> (x + 1) \div 2]
             g == [x \in Nat |-> [v \in Nat |-> 2 * v]]
             Eq(f) == f = [x \in Nat |-> IF x < 2 THEN x ELSE 2 * f[(x + 1) \div 2]]
  <1>1. Descends(Nat, {0, 1}, a, p, g)
    BY DEF Descends
  <1>2. PICK f \in [Nat -> Nat] : \A x \in Nat : f[x] = At(f, x, {0, 1}, a, p, g)
    <2> HIDE DEF a, p, g
    <2> QED BY <1>1, Recursion
  <1>3. ASSUME NEW x \in Nat PROVE f[x] = IF x < 2 THEN x ELSE 2 * f[(x + 1) \div 2]
    <2>1. (x + 1) \div 2 \in Nat /\ f[(x + 1) \div 2] \in Nat /\ (x \in {0, 1} <=> x < 2)
      OBVIOUS
    <2>2. f[x] = At(f, x, {0, 1}, a, p, g)
      BY <1>2
    <2> QED BY <2>1, <2>2 DEF At
  <1>4. Eq(f)
    BY <1>3
  <1>5. next_pow2 = CHOOSE h : Eq(h)
    BY DEF next_pow2
  <1>6. Eq(next_pow2)
    <2> HIDE DEF Eq
    <2> QED BY <1>4, <1>5
  <1> QED BY <1>6

(* The powers of two are 1 and the doubles of powers of two. *)
LEMMA One == IsPow2(1)
  BY PrevEquation DEF IsPow2

LEMMA Twice == ASSUME NEW x \in Nat, IsPow2(x) PROVE IsPow2(2 * x)
  <1>1. x > 0 /\ prev_pow2[x] = x
    BY DEF IsPow2
  <1>2. 2 * x \in Nat /\ 2 * x >= 2 /\ (2 * x) \div 2 = x
    BY <1>1
  <1>3. prev_pow2[2 * x] = 2 * x
    BY <1>1, <1>2, PrevEquation
  <1> QED BY <1>2, <1>3 DEF IsPow2

LEMMA PrevFacts ==
  \A x \in Nat : prev_pow2[x] \in Nat /\ prev_pow2[x] <= x /\ (x > 0 => IsPow2(prev_pow2[x]))
  <1> DEFINE G == {x \in Nat : prev_pow2[x] \in Nat /\ prev_pow2[x] <= x
                               /\ (x > 0 => IsPow2(prev_pow2[x]))}
  <1>1. ASSUME NEW x \in Nat, \A y \in 0..(x - 1) : y \in G PROVE x \in G
    <2>1. CASE x < 2
      <3>1. prev_pow2[x] = x /\ (x = 0 \/ x = 1)
        BY <2>1, PrevEquation
      <3> QED BY <3>1, One
    <2>2. CASE x >= 2
      <3> DEFINE h == x \div 2
      <3>1. h \in 0..(x - 1) /\ h > 0 /\ 2 * h <= x
        BY <2>2
      <3>2. prev_pow2[x] = 2 * prev_pow2[h]
        BY <2>2, PrevEquation
      <3> HIDE DEF h
      <3>3. prev_pow2[h] \in Nat /\ prev_pow2[h] <= h /\ IsPow2(prev_pow2[h])
        BY <1>1, <3>1
      <3>4. IsPow2(2 * prev_pow2[h])
        BY <3>3, Twice
      <3> QED BY <3>1, <3>2, <3>3, <3>4
    <2> QED BY <2>1, <2>2
  <1>2. \A x \in Nat : x \in G
    <2> HIDE DEF G
    <2> QED BY <1>1, FromSmaller
  <1> QED BY <1>2

LEMMA NextFacts == \A x \in Nat : next_pow2[x] \in Nat /\ (x > 0 => IsPow2(next_pow2[x]))
  <1> DEFINE G == {x \in Nat : next_pow2[x] \in Nat /\ (x > 0 => IsPow2(next_pow2[x]))}
  <1>1. ASSUME NEW x \in Nat, \A y \in 0..(x - 1) : y \in G PROVE x \in G
    <2>1. CASE x < 2
      <3>1. next_pow2[x] = x /\ (x = 0 \/ x = 1)
        BY <2>1, NextEquation
      <3> QED BY <3>1, One
    <2>2. CASE x >= 2
      <3> DEFINE h == (x + 1) \div 2
      <3>1. h \in 0..(x - 1) /\ h > 0
        BY <2>2
      <3>2. next_pow2[x] = 2 * next_pow2[h]
        BY <2>2, NextEquation
      <3> HIDE DEF h
      <3>3. next_pow2[h] \in Nat /\ IsPow2(next_pow2[h])
        BY <1>1, <3>1
      <3>4. IsPow2(2 * next_pow2[h])
        BY <3>3, Twice
      <3> QED BY <3>2, <3>3, <3>4
    <2> QED BY <2>1, <2>2
  <1>2. \A x \in Nat : x \in G
    <2> HIDE DEF G
    <2> QED BY <1>1, FromSmaller
  <1> QED BY <1>2

LEMMA Halved ==
  ASSUME NEW x \in Nat, IsPow2(x), x # 1
  PROVE  \E h \in Nat : x = 2 * h /\ h = x \div 2 /\ IsPow2(h) /\ h < x /\ h > 0
  <1> DEFINE h == x \div 2
             w == prev_pow2[h]
  <1>1. x >= 2 /\ prev_pow2[x] = x
    BY DEF IsPow2
  <1>2. h \in Nat /\ h > 0 /\ h < x
    BY <1>1
  <1>3. x = 2 * w
    BY <1>1, PrevEquation
  <1>4. w \in Nat /\ IsPow2(w)
    <2> HIDE DEF h
    <2> QED BY <1>2, PrevFacts
  <1> HIDE DEF w
  <1>5. w = h
    BY <1>3, <1>4
  <1> QED BY <1>2, <1>3, <1>4, <1>5

(* Of two powers of two the smaller divides the larger, by a power of two. *)
LEMMA Divides ==
  ASSUME NEW a \in Nat, NEW b \in Nat, IsPow2(a), IsPow2(b), a <= b
  PROVE  \E c \in Nat : b = a * c /\ IsPow2(c)
  <1> DEFINE D(y, x) == \E c \in Nat : x = y * c /\ IsPow2(c)
             G == {x \in Nat : IsPow2(x) => \A y \in Nat : IsPow2(y) /\ y <= x => D(y, x)}
  <1>1. ASSUME NEW x \in Nat, \A z \in 0..(x - 1) : z \in G PROVE x \in G
    <2> SUFFICES ASSUME IsPow2(x), NEW y \in Nat, IsPow2(y), y <= x PROVE D(y, x)
      OBVIOUS
    <2>1. CASE y = 1
      <3>1. x = y * x
        BY <2>1
      <3> QED BY <3>1
    <2>2. CASE y # 1
      <3>1. PICK k \in Nat : y = 2 * k /\ IsPow2(k) /\ k < y /\ k > 0
        BY <2>2, Halved
      <3>2. x # 1
        BY <3>1
      <3>3. PICK h \in Nat : x = 2 * h /\ IsPow2(h) /\ h < x
        BY <3>2, Halved
      <3>4. h \in 0..(x - 1) /\ k <= h
        BY <3>1, <3>3
      <3>5. D(k, h)
        BY <1>1, <3>1, <3>3, <3>4
      <3>6. PICK c \in Nat : h = k * c /\ IsPow2(c)
        BY <3>5
      <3>7. \A u, v \in Nat : 2 * (u * v) = (2 * u) * v
        OBVIOUS
      <3>8. x = y * c
        BY <3>1, <3>3, <3>6, <3>7
      <3> QED BY <3>6, <3>8
    <2> QED BY <2>1, <2>2
  <1>2. \A x \in Nat : x \in G
    <2> HIDE DEF G
    <2> QED BY <1>1, FromSmaller
  <1> QED BY <1>2

-----------------------------------------------------------------------------
(* Multiples: what a remainder of 0 says. *)
LEMMA Monotone ==
  ASSUME NEW g \in Nat \ {0}, NEW a \in Int, NEW b \in Int, a <= b
  PROVE  g * a <= g * b
  OBVIOUS

LEMMA Quotient ==
  ASSUME NEW g \in Nat \ {0}, NEW x \in Nat
  PROVE  /\ x \div g \in Nat /\ x % g \in 0..(g - 1)
         /\ x = g * (x \div g) + (x % g)
  <1>1. x % g \in 0..(g - 1)
    OBVIOUS
  <1>2. x = g * (x \div g) + (x % g)
    OBVIOUS
  <1>3. x \div g \in Int
    OBVIOUS
  <1> DEFINE d == x \div g
  <1>4. d >= 0
    <2> SUFFICES ASSUME d <= -1 PROVE FALSE
      BY <1>3
    <2> HIDE DEF d
    <2>1. g * d <= g * (-1)
      BY <1>3, Monotone DEF d
    <2> QED BY <1>1, <1>2, <2>1 DEF d
  <1> QED BY <1>1, <1>2, <1>3, <1>4

LEMMA Cancel ==
  ASSUME NEW g \in Nat \ {0}, NEW q \in Nat
  PROVE  g * q \in Nat /\ (g * q) \div g = q /\ (g * q) % g = 0
  <1> DEFINE x == g * q
             d == x \div g
             r == x % g
  <1>1. x \in Nat
    OBVIOUS
  <1>2. d \in Nat /\ r \in 0..(g - 1) /\ x = g * d + r
    <2> HIDE DEF x
    <2> QED BY <1>1, Quotient
  <1> HIDE DEF d, r
  <1>3. ~(q > d)
    <2> SUFFICES ASSUME q >= d + 1 PROVE FALSE
      BY <1>2
    <2>1. g * (d + 1) <= g * q
      BY <1>2, Monotone
    <2>2. g * (d + 1) = g * d + g
      BY <1>2
    <2> QED BY <1>2, <2>1, <2>2
  <1>4. ~(q < d)
    <2> SUFFICES ASSUME q + 1 <= d PROVE FALSE
      BY <1>2
    <2>1. g * (q + 1) <= g * d
      BY <1>2, Monotone
    <2>2. g * (q + 1) = g * q + g
      OBVIOUS
    <2> QED BY <1>2, <2>1, <2>2
  <1>5. q = d
    BY <1>2, <1>3, <1>4
  <1>6. r = 0
    BY <1>2, <1>5
  <1> QED BY <1>1, <1>5, <1>6 DEF d, r

Multiple(x, g) == \E q \in Nat : x = g * q

LEMMA NoRemainder ==
  ASSUME NEW g \in Nat \ {0}, NEW x \in Nat
  PROVE  x % g = 0 <=> Multiple(x, g)
  <1>1. ASSUME x % g = 0 PROVE Multiple(x, g)
    <2>1. x = g * (x \div g) /\ x \div g \in Nat
      BY <1>1, Quotient
    <2> QED BY <2>1 DEF Multiple
  <1>2. ASSUME Multiple(x, g) PROVE x % g = 0
    BY <1>2, Cancel DEF Multiple
  <1> QED BY <1>1, <1>2

(* A multiple of a power of two is one of every smaller power of two. *)
LEMMA MultipleOf ==
  ASSUME NEW a \in Nat, NEW b \in Nat, NEW x \in Nat, IsPow2(a), IsPow2(b), a <= b,
         Multiple(x, b)
  PROVE  Multiple(x, a)
  <1>1. PICK c \in Nat : b = a * c
    BY Divides
  <1>2. PICK q \in Nat : x = b * q
    BY DEF Multiple
  <1>3. c * q \in Nat /\ (a * c) * q = a * (c * q)
    OBVIOUS
  <1> QED BY <1>1, <1>2, <1>3 DEF Multiple

(* split does not step over the size it looks for. *)
LEMMA Halves ==
  ASSUME NEW a \in Nat, NEW b \in Nat, IsPow2(a), IsPow2(b), a <= b
  PROVE  b % a = 0 /\ IsPow2(b \div a)
  <1>1. PICK c \in Nat : b = a * c /\ IsPow2(c)
    BY Divides
  <1>2. a \in Nat \ {0}
    BY DEF IsPow2
  <1>3. (a * c) \div a = c /\ (a * c) % a = 0
    BY <1>2, Cancel
  <1> QED BY <1>1, <1>3

(* get_buddy of a block whose offset is a multiple of twice its size. *)
LEMMA UpperBuddy ==
  ASSUME NEW base \in Nat, NEW addr \in Nat, NEW h \in Nat \ {0}, base <= addr,
         Multiple(addr - base, 2 * h)
  PROVE  Buddy(addr, h, base) = addr + h /\ Multiple((addr + h) - base, h)
  <1> DEFINE x == addr - base
  <1>0. x \in Nat
    OBVIOUS
  <1>1. PICK q \in Nat : x = (2 * h) * q
    BY DEF Multiple
  <1>2. x = h * (2 * q) /\ 2 * q \in Nat
    BY <1>1
  <1>3. x \div h = 2 * q
    <2> HIDE DEF x
    <2> QED BY <1>2, Cancel
  <1>4. (2 * q) % 2 = 0
    BY Cancel
  <1>5. (addr + h) - base = h * (2 * q + 1) /\ 2 * q + 1 \in Nat
    <2>1. (addr + h) - base = x + h
      OBVIOUS
    <2>2. h * (2 * q + 1) = h * (2 * q) + h
      BY <1>2
    <2> HIDE DEF x
    <2> QED BY <1>2, <2>1, <2>2
  <1> QED BY <1>3, <1>4, <1>5 DEF Buddy, Multiple

(* The buddy of a page. *)
LEMMA PageBuddy ==
  ASSUME NEW base \in Nat, NEW addr \in Nat, base <= addr
  PROVE  Buddy(addr, 1, base) = IF (addr - base) % 2 = 0 THEN addr + 1 ELSE addr - 1
  <1>1. (addr - base) \div 1 = addr - base
    OBVIOUS
  <1> QED BY <1>1 DEF Buddy

-----------------------------------------------------------------------------
(* The loops of page_alloc_init.  A loop of n rounds, as a function of the
   number of rounds that are done. *)
Iterates(f, n, a, g) == f = [k \in 0..n |-> IF k = 0 THEN a ELSE g[k][f[k - 1]]]

LEMMA Iteration ==
  ASSUME NEW V, NEW n \in Nat, NEW a \in V, NEW g \in [1..n -> [V -> V]]
  PROVE  \E f \in [0..n -> V] : Iterates(f, n, a, g)
  <1> DEFINE B == Nat \ (1..n)
             c == [k \in Nat |-> a]
             p == [k \in Nat |-> IF k = 0 THEN 0 ELSE k - 1]
             G == [k \in Nat |-> IF k \in 1..n THEN g[k] ELSE [v \in V |-> a]]
  <1>1. Descends(V, B, c, p, G)
    <2>1. c \in [Nat -> V] /\ p \in [Nat -> Nat] /\ G \in [Nat -> [V -> V]]
      OBVIOUS
    <2>2. \A k \in Nat : k \notin B => p[k] < k
      OBVIOUS
    <2> QED BY <2>1, <2>2 DEF Descends
  <1>2. PICK F \in [Nat -> V] : \A x \in Nat : F[x] = At(F, x, B, c, p, G)
    <2> HIDE DEF B, c, p, G
    <2> QED BY <1>1, Recursion
  <1> DEFINE f == [k \in 0..n |-> F[k]]
  <1>3. ASSUME NEW k \in 0..n PROVE f[k] = IF k = 0 THEN a ELSE g[k][f[k - 1]]
    <2>1. CASE k = 0
      <3>1. 0 \in B /\ 0 \in Nat
        OBVIOUS
      <3>2. F[0] = At(F, 0, B, c, p, G)
        BY <1>2, <3>1
      <3> QED BY <2>1, <3>1, <3>2 DEF At
    <2>2. CASE k # 0
      <3>1. k \in 1..n /\ k \in Nat /\ k \notin B /\ k - 1 \in 0..n /\ p[k] = k - 1 /\ G[k] = g[k]
        BY <2>2
      <3>2. F[k] = At(F, k, B, c, p, G)
        BY <1>2, <3>1
      <3> QED BY <2>2, <3>1, <3>2 DEF At
    <2> QED BY <2>1, <2>2
  <1>4. f \in [0..n -> V]
    OBVIOUS
  <1> HIDE DEF f
  <1>5. Iterates(f, n, a, g)
    BY <1>3, <1>4 DEF Iterates
  <1> QED BY <1>4, <1>5

(* Induction over the rounds. *)
LEMMA Rounds ==
  ASSUME NEW n \in Nat, NEW G, 0 \in G, \A k \in 1..n : k - 1 \in G => k \in G
  PROVE  \A k \in 0..n : k \in G
  <1> DEFINE H == {k \in Nat : k <= n => k \in G}
  <1>1. ASSUME NEW k \in Nat, \A m \in 0..(k - 1) : m \in H PROVE k \in H
    <2> SUFFICES ASSUME k <= n, k # 0 PROVE k \in G
      OBVIOUS
    <2>1. k \in 1..n /\ k - 1 \in 0..(k - 1) /\ k - 1 <= n
      OBVIOUS
    <2> QED BY <1>1, <2>1
  <1>2. \A k \in Nat : k \in H
    <2> HIDE DEF H
    <2> QED BY <1>1, FromSmaller
  <1> QED BY <1>2

(* The pools of an entry: what is left after the first one, and whether the
   loop ends there. *)
Left(l) == l - prev_pow2[l]
Ends(l) == ~(Left(l) - prev_pow2[Left(l)] >= 1)

LEMMA LeftFacts ==
  ASSUME NEW l \in Nat
  PROVE  Left(l) \in Nat /\ (l > 0 => Left(l) < l) /\ (~Ends(l) => l > 0 /\ Left(l) >= 2)
  <1>1. prev_pow2[l] \in Nat /\ prev_pow2[l] <= l /\ (l > 0 => prev_pow2[l] > 0)
    BY PrevFacts DEF IsPow2
  <1>2. Left(l) \in Nat /\ (l > 0 => Left(l) < l)
    BY <1>1 DEF Left
  <1> DEFINE r == Left(l)
  <1> HIDE DEF r
  <1>3. r \in Nat
    BY <1>2 DEF r
  <1>4. prev_pow2[r] \in Nat /\ (r < 2 => prev_pow2[r] = r)
    BY <1>3, PrevEquation, PrevFacts
  <1>5. ~Ends(l) => r >= 2
    BY <1>3, <1>4 DEF Ends, r
  <1>6. l = 0 => Left(l) = 0
    BY <1>1 DEF Left
  <1> QED BY <1>2, <1>5, <1>6 DEF r

CountEq(f) ==
  f = [l \in Nat |-> LET rest == l - prev_pow2[l]
                     IN 1 + (IF rest - prev_pow2[rest] >= 1 THEN f[rest] ELSE 0)]
SizesEq(f) ==
  f = [l \in Nat |-> LET rest == l - prev_pow2[l]
                     IN <<prev_pow2[l]>> \o (IF rest - prev_pow2[rest] >= 1 THEN f[rest] ELSE <<>>)]

LEMMA CountEquation ==
  \E f \in [Nat -> Nat] :
    /\ \A l \in Nat : f[l] = IF Ends(l) THEN 1 ELSE 1 + f[Left(l)]
    /\ \A len \in Nat : CountPools(len) = IF len < 1 THEN 0 ELSE f[len]
  <1> DEFINE B == {l \in Nat : Ends(l)}
             a == [l \in Nat |-> 1]
             p == [l \in Nat |-> Left(l)]
             g == [l \in Nat |-> [v \in Nat |-> 1 + v]]
  <1>1. Descends(Nat, B, a, p, g)
    BY LeftFacts DEF Descends
  <1>2. PICK e \in [Nat -> Nat] : \A l \in Nat : e[l] = At(e, l, B, a, p, g)
    <2> HIDE DEF B, a, p, g
    <2> QED BY <1>1, Recursion
  <1>3. ASSUME NEW l \in Nat PROVE e[l] = IF Ends(l) THEN 1 ELSE 1 + e[Left(l)]
    <2>1. e[l] = At(e, l, B, a, p, g) /\ Left(l) \in Nat /\ e[Left(l)] \in Nat
      BY <1>2, LeftFacts
    <2> QED BY <2>1 DEF At
  <1>4. CountEq(e)
    BY <1>3 DEF CountEq, Left, Ends
  <1> DEFINE f == CHOOSE h : CountEq(h)
  <1>5. CountEq(f)
    BY <1>4
  <1>6. \A len \in Nat : CountPools(len) = IF len < 1 THEN 0 ELSE f[len]
    BY DEF CountPools, CountEq
  <1> HIDE DEF f
  <1>7. \A l \in Nat : f[l] = 1 + (IF Ends(l) THEN 0 ELSE f[Left(l)])
    BY <1>5 DEF CountEq, Left, Ends
  <1> DEFINE G == {l \in Nat : f[l] \in Nat}
  <1>8. ASSUME NEW l \in Nat, \A k \in 0..(l - 1) : k \in G PROVE l \in G
    <2>1. CASE Ends(l)
      BY <1>7, <2>1
    <2>2. CASE ~Ends(l)
      <3>1. Left(l) \in 0..(l - 1)
        BY <2>2, LeftFacts
      <3> QED BY <1>7, <1>8, <2>2, <3>1
    <2> QED BY <2>1, <2>2
  <1>9. \A l \in Nat : l \in G
    <2> HIDE DEF G
    <2> QED BY <1>8, FromSmaller
  <1>10. f = [l \in Nat |-> f[l]]
    BY <1>5 DEF CountEq
  <1>11. f \in [Nat -> Nat]
    BY <1>9, <1>10
  <1>12. \A l \in Nat : f[l] = IF Ends(l) THEN 1 ELSE 1 + f[Left(l)]
    BY <1>7
  <1> QED BY <1>6, <1>11, <1>12

(* The pools of an entry are as many as were counted, and have sizes that are
   powers of two. *)
PoolSize == {s \in Nat : IsPow2(s)}

LEMMA SizesEquation ==
  \E f \in [Nat -> Seq(Nat)] :
    /\ \A l \in Nat : f[l] = <<prev_pow2[l]>> \o (IF Ends(l) THEN <<>> ELSE f[Left(l)])
    /\ \A len \in Nat : PoolSizes(len) = IF len < 1 THEN <<>> ELSE f[len]
  <1> DEFINE V == Seq(Nat)
             B == {l \in Nat : Ends(l)}
             a == [l \in Nat |-> <<prev_pow2[l]>> \o <<>>]
             p == [l \in Nat |-> Left(l)]
             g == [l \in Nat |-> [v \in V |-> <<prev_pow2[l]>> \o v]]
  <1>1. Descends(V, B, a, p, g)
    <2>1. ASSUME NEW l \in Nat, NEW v \in V PROVE <<prev_pow2[l]>> \o v \in V
      BY PrevFacts
    <2>2. <<>> \in V
      OBVIOUS
    <2>3. a \in [Nat -> V] /\ g \in [Nat -> [V -> V]]
      <3> HIDE DEF V
      <3> QED BY <2>1, <2>2
    <2> HIDE DEF V
    <2> QED BY <2>3, LeftFacts DEF Descends
  <1>2. PICK e \in [Nat -> V] : \A l \in Nat : e[l] = At(e, l, B, a, p, g)
    <2> HIDE DEF V, B, a, p, g
    <2> QED BY <1>1, Recursion
  <1>3. ASSUME NEW l \in Nat
        PROVE  e[l] = <<prev_pow2[l]>> \o (IF Ends(l) THEN <<>> ELSE e[Left(l)])
    <2>1. e[l] = At(e, l, B, a, p, g) /\ Left(l) \in Nat /\ e[Left(l)] \in V
      BY <1>2, LeftFacts
    <2> HIDE DEF V
    <2> QED BY <2>1, Zenon DEF At
  <1>4. SizesEq(e)
    <2>1. e = [l \in Nat |-> <<prev_pow2[l]>> \o (IF Ends(l) THEN <<>> ELSE e[Left(l)])]
      BY <1>2, <1>3
    <2> QED BY <1>3, <2>1 DEF SizesEq, Left, Ends
  <1> DEFINE f == CHOOSE h : SizesEq(h)
  <1>5. SizesEq(f)
    BY <1>4, Zenon
  <1>6. \A len \in Nat : PoolSizes(len) = IF len < 1 THEN <<>> ELSE f[len]
    BY Zenon DEF PoolSizes, SizesEq
  <1> HIDE DEF f
  <1>7. \A l \in Nat : f[l] = <<prev_pow2[l]>> \o (IF Ends(l) THEN <<>> ELSE f[Left(l)])
    BY <1>5 DEF SizesEq, Left, Ends
  <1> DEFINE G == {l \in Nat : f[l] \in Seq(Nat)}
  <1>8. ASSUME NEW l \in Nat, \A k \in 0..(l - 1) : k \in G PROVE l \in G
    <2>0. <<prev_pow2[l]>> \in Seq(Nat)
      BY PrevFacts
    <2> DEFINE t == IF Ends(l) THEN <<>> ELSE f[Left(l)]
    <2>1. t \in Seq(Nat)
      <3>1. CASE Ends(l)
        BY <3>1, EmptyList
      <3>2. CASE ~Ends(l)
        <4>1. Left(l) \in 0..(l - 1)
          BY <3>2, LeftFacts
        <4>2. Left(l) \in G
          BY <1>8, <4>1
        <4> QED BY <3>2, <4>2
      <3> QED BY <3>1, <3>2
    <2>2. f[l] = <<prev_pow2[l]>> \o t
      BY <1>7, Zenon
    <2> HIDE DEF t
    <2>3. <<prev_pow2[l]>> \o t \in Seq(Nat)
      BY <2>0, <2>1, JoinedLists
    <2> QED BY <2>2, <2>3
  <1>9. \A l \in Nat : l \in G
    <2> HIDE DEF G
    <2> QED BY <1>8, FromSmaller
  <1>10. f = [l \in Nat |-> f[l]]
    BY <1>5 DEF SizesEq
  <1>11. f \in [Nat -> Seq(Nat)]
    BY <1>9, <1>10
  <1> QED BY <1>6, <1>7, <1>11

LEMMA PoolsOfEntry ==
  ASSUME NEW len \in Nat
  PROVE  /\ CountPools(len) \in Nat /\ PoolSizes(len) \in Seq(PoolSize)
         /\ Len(PoolSizes(len)) = CountPools(len)
         /\ len # 1 => \A i \in DOMAIN PoolSizes(len) : PoolSizes(len)[i] # 1
  <1>1. PICK c \in [Nat -> Nat] :
          /\ \A l \in Nat : c[l] = IF Ends(l) THEN 1 ELSE 1 + c[Left(l)]
          /\ \A n \in Nat : CountPools(n) = IF n < 1 THEN 0 ELSE c[n]
    BY CountEquation
  <1>2. PICK f \in [Nat -> Seq(Nat)] :
          /\ \A l \in Nat : f[l] = <<prev_pow2[l]>> \o (IF Ends(l) THEN <<>> ELSE f[Left(l)])
          /\ \A n \in Nat : PoolSizes(n) = IF n < 1 THEN <<>> ELSE f[n]
    BY SizesEquation
  <1> DEFINE Big(l) == l # 1 => \A i \in DOMAIN f[l] : f[l][i] # 1
             G == {l \in Nat : l > 0 => /\ f[l] \in Seq(PoolSize) /\ Len(f[l]) = c[l] /\ Big(l)}
  <1>3. ASSUME NEW l \in Nat, \A k \in 0..(l - 1) : k \in G PROVE l \in G
    <2> SUFFICES ASSUME l > 0 PROVE f[l] \in Seq(PoolSize) /\ Len(f[l]) = c[l] /\ Big(l)
      OBVIOUS
    <2> DEFINE x == prev_pow2[l]
               t == IF Ends(l) THEN <<>> ELSE f[Left(l)]
    <2>1. x \in PoolSize
      BY PrevFacts DEF PoolSize
    <2>2. l # 1 => x # 1
      <3> SUFFICES ASSUME l >= 2 PROVE x # 1
        OBVIOUS
      <3>1. l \div 2 \in Nat /\ ~(l < 2)
        OBVIOUS
      <3>2. x = 2 * prev_pow2[l \div 2]
        BY <3>1, PrevEquation
      <3>3. prev_pow2[l \div 2] \in Nat
        BY <3>1, PrevFacts
      <3> QED BY <3>2, <3>3
    <2>3. t \in Seq(PoolSize) /\ c[l] = 1 + Len(t) /\ \A i \in DOMAIN t : t[i] # 1
      <3>1. CASE Ends(l)
        BY <1>1, <3>1
      <3>2. CASE ~Ends(l)
        <4>1. Left(l) \in 0..(l - 1) /\ Left(l) >= 2 /\ Left(l) \in Nat
          BY <3>2, LeftFacts
        <4>0. Left(l) \in G
          BY <1>3, <4>1
        <4>2. f[Left(l)] \in Seq(PoolSize) /\ Len(f[Left(l)]) = c[Left(l)] /\ Big(Left(l))
          BY <4>0, <4>1
        <4>3. t = f[Left(l)] /\ c[l] = 1 + c[Left(l)] /\ Left(l) # 1
          BY <1>1, <3>2, <4>1
        <4> HIDE DEF t
        <4> QED BY <4>2, <4>3
      <3> QED BY <3>1, <3>2
    <2>4. f[l] = <<x>> \o t
      BY <1>2
    <2> HIDE DEF x, t
    <2>5. f[l] \in Seq(PoolSize) /\ Len(f[l]) = c[l]
      BY <2>1, <2>3, <2>4
    <2>6. ASSUME l # 1, NEW i \in DOMAIN f[l] PROVE f[l][i] # 1
      <3>1. CASE i = 1
        BY <2>1, <2>2, <2>3, <2>4, <2>6, <3>1
      <3>2. CASE i # 1
        <4>1. i \in 1..(1 + Len(t)) /\ i - 1 \in DOMAIN t
          BY <2>1, <2>3, <2>4, <2>6, <3>2
        <4>2. f[l][i] = t[i - 1]
          <5> DEFINE u == <<x>>
          <5>1. u \in Seq(PoolSize) /\ Len(u) = 1
            BY <2>1
          <5> HIDE DEF u
          <5>2. \A j \in 1..(Len(u) + Len(t)) :
                  (u \o t)[j] = IF j <= Len(u) THEN u[j] ELSE t[j - Len(u)]
            BY <2>3, <5>1, JoinedLists
          <5>3. f[l] = u \o t
            BY <2>4 DEF u
          <5>4. i \in 1..(Len(u) + Len(t)) /\ ~(i <= Len(u)) /\ i - Len(u) = i - 1
            BY <2>3, <3>2, <4>1, <5>1
          <5> QED BY <5>2, <5>3, <5>4
        <4> QED BY <2>3, <4>1, <4>2
      <3> QED BY <3>1, <3>2
    <2> QED BY <2>5, <2>6
  <1>4. \A l \in Nat : l \in G
    <2> HIDE DEF G
    <2> QED BY <1>3, FromSmaller
  <1>5. CASE len < 1
    <2>1. CountPools(len) = 0 /\ PoolSizes(len) = <<>>
      BY <1>1, <1>2, <1>5
    <2> QED BY <2>1, EmptyList
  <1>6. CASE len >= 1
    <2>0. len \in G
      BY <1>4
    <2>1. f[len] \in Seq(PoolSize) /\ Len(f[len]) = c[len] /\ Big(len)
      BY <1>6, <2>0
    <2>2. CountPools(len) = c[len] /\ PoolSizes(len) = f[len]
      BY <1>1, <1>2, <1>6
    <2> QED BY <2>1, <2>2
  <1> QED BY <1>5, <1>6

(* Both loops over the memory map. *)
LEMMA AllPools ==
  ASSUME NEW lens \in Seq(Nat)
  PROVE  /\ AllCounted(lens) \in Nat /\ AllSizes(lens) \in Seq(PoolSize)
         /\ Len(AllSizes(lens)) = AllCounted(lens)
         /\ (\A i \in DOMAIN lens : lens[i] # 1) =>
              \A i \in DOMAIN AllSizes(lens) : AllSizes(lens)[i] # 1
  <1> DEFINE n == Len(lens)
             CEq(f) == f = [k \in 0..n |-> IF k = 0 THEN 0 ELSE f[k - 1] + CountPools(lens[k])]
             SEq(f) == f = [k \in 0..n |-> IF k = 0 THEN <<>> ELSE f[k - 1] \o PoolSizes(lens[k])]
             V == Seq(PoolSize)
  <1>0. n \in Nat /\ \A k \in 1..n : lens[k] \in Nat
    OBVIOUS
  <1>1. \A k \in 1..n : CountPools(lens[k]) \in Nat /\ PoolSizes(lens[k]) \in V
    BY <1>0, PoolsOfEntry
  <1> DEFINE c == CHOOSE f : CEq(f)
             s == CHOOSE f : SEq(f)
  <1>2. AllCounted(lens) = c[n] /\ AllSizes(lens) = s[n]
    BY Zenon DEF AllCounted, AllSizes
  <1> HIDE DEF n
  <1>3. CEq(c)
    <2> DEFINE g == [k \in 1..n |-> [v \in Nat |-> v + CountPools(lens[k])]]
    <2>1. g \in [1..n -> [Nat -> Nat]]
      BY <1>1
    <2>2. PICK f \in [0..n -> Nat] : Iterates(f, n, 0, g)
      <3> HIDE DEF g
      <3> QED BY <1>0, <2>1, Iteration
    <2>3. ASSUME NEW k \in 0..n
          PROVE  f[k] = IF k = 0 THEN 0 ELSE f[k - 1] + CountPools(lens[k])
      <3>1. CASE k = 0
        BY <2>2, <3>1 DEF Iterates
      <3>2. CASE k # 0
        <4>1. k \in 1..n /\ k - 1 \in 0..n /\ f[k - 1] \in Nat
          BY <1>0, <3>2
        <4>2. f[k] = g[k][f[k - 1]]
          BY <2>2, <3>2 DEF Iterates
        <4> QED BY <3>2, <4>1, <4>2
      <3> QED BY <3>1, <3>2
    <2>4. CEq(f)
      BY <2>3
    <2> QED BY <2>4, Zenon
  <1>4. SEq(s)
    <2> DEFINE g == [k \in 1..n |-> [v \in V |-> v \o PoolSizes(lens[k])]]
    <2>1. g \in [1..n -> [V -> V]]
      <3>1. ASSUME NEW k \in 1..n, NEW v \in V PROVE v \o PoolSizes(lens[k]) \in V
        BY <1>1, JoinedLists
      <3> HIDE DEF V
      <3> QED BY <3>1
    <2>2. <<>> \in V
      BY EmptyList
    <2>3. PICK f \in [0..n -> V] : Iterates(f, n, <<>>, g)
      <3> HIDE DEF g, V
      <3> QED BY <1>0, <2>1, <2>2, Iteration
    <2> HIDE DEF V
    <2>4. ASSUME NEW k \in 0..n
          PROVE  f[k] = IF k = 0 THEN <<>> ELSE f[k - 1] \o PoolSizes(lens[k])
      <3>1. CASE k = 0
        BY <2>3, <3>1 DEF Iterates
      <3>2. CASE k # 0
        <4>1. k \in 1..n /\ k - 1 \in 0..n /\ f[k - 1] \in V
          BY <1>0, <3>2
        <4>2. f[k] = g[k][f[k - 1]]
          BY <2>3, <3>2 DEF Iterates
        <4>3. g[k][f[k - 1]] = f[k - 1] \o PoolSizes(lens[k])
          BY <4>1
        <4> QED BY <3>2, <4>2, <4>3
      <3> QED BY <3>1, <3>2
    <2>5. SEq(f)
      BY <2>4
    <2> QED BY <2>5, Zenon
  <1>5. /\ c[0] = 0 /\ \A k \in 1..n : c[k] = c[k - 1] + CountPools(lens[k])
        /\ s[0] = <<>> /\ \A k \in 1..n : s[k] = s[k - 1] \o PoolSizes(lens[k])
    <2> HIDE DEF c, s
    <2>1. 0 \in 0..n /\ \A k \in 1..n : k \in 0..n /\ k # 0
      BY <1>0
    <2> QED BY <1>3, <1>4, <2>1
  <1> HIDE DEF c, s
  <1> DEFINE NoOnes == \A i \in DOMAIN lens : lens[i] # 1
             Big(t) == NoOnes => \A i \in DOMAIN t : t[i] # 1
             G == {k \in 0..n : c[k] \in Nat /\ s[k] \in V /\ Len(s[k]) = c[k] /\ Big(s[k])}
  <1>6. 0 \in G
    <2>1. 0 \in 0..n /\ c[0] \in Nat /\ s[0] \in V /\ Len(s[0]) = c[0]
      BY <1>0, <1>5, EmptyList
    <2>2. Big(s[0])
      BY <1>5
    <2> QED BY <2>1, <2>2
  <1>7. ASSUME NEW k \in 1..n, k - 1 \in G PROVE k \in G
    <2> DEFINE a == s[k - 1]
               b == PoolSizes(lens[k])
    <2>1. a \in V /\ Len(a) = c[k - 1] /\ c[k - 1] \in Nat /\ Big(a)
      BY <1>7
    <2>2. b \in V /\ Len(b) = CountPools(lens[k]) /\ Big(b)
      <3>1. lens[k] \in Nat /\ k \in DOMAIN lens
        BY <1>0 DEF n
      <3>2. NoOnes => lens[k] # 1
        BY <3>1
      <3> QED BY <3>1, <3>2, PoolsOfEntry
    <2>3. s[k] = a \o b /\ c[k] = Len(a) + Len(b)
      BY <1>5, <2>1, <2>2
    <2> HIDE DEF a, b
    <2>4. a \o b \in V /\ Len(a \o b) = Len(a) + Len(b)
          /\ \A i \in 1..(Len(a) + Len(b)) :
               (a \o b)[i] = IF i <= Len(a) THEN a[i] ELSE b[i - Len(a)]
      BY <2>1, <2>2, JoinedLists
    <2>5. ASSUME NoOnes, NEW i \in DOMAIN (a \o b) PROVE (a \o b)[i] # 1
      <3>1. /\ Len(a) \in Nat /\ Len(b) \in Nat /\ i \in 1..(Len(a) + Len(b))
            /\ DOMAIN a = 1..Len(a) /\ DOMAIN b = 1..Len(b)
        BY <2>1, <2>2, <2>4, <2>5
      <3>2. CASE i <= Len(a)
        <4>1. i \in DOMAIN a /\ (a \o b)[i] = a[i]
          BY <2>4, <3>1, <3>2
        <4> QED BY <2>1, <2>5, <4>1
      <3>3. CASE i > Len(a)
        <4>1. i - Len(a) \in DOMAIN b /\ (a \o b)[i] = b[i - Len(a)]
          BY <2>4, <3>1, <3>3
        <4> QED BY <2>2, <2>5, <4>1
      <3> QED BY <3>1, <3>2, <3>3
    <2>6. c[k] \in Nat /\ k \in 0..n /\ Len(a \o b) = c[k]
      BY <1>0, <2>1, <2>2, <2>3, <2>4
    <2> QED BY <2>3, <2>4, <2>5, <2>6
  <1>8. n \in G
    <2> HIDE DEF G
    <2>1. \A k \in 0..n : k \in G
      BY <1>0, <1>6, <1>7, Rounds
    <2> QED BY <1>0, <2>1
  <1> QED BY <1>2, <1>8

-----------------------------------------------------------------------------
(* The values of the variables. *)
BlockType == [addr : Int, size : Nat \ {0}]
PoolType == [base : Nat, end : Nat, free : Seq(BlockType)]

(* The pools lie one after the other, each with all its memory in one block. *)
Laid(ps, sizes, k) ==
  /\ ps \in Seq(PoolType) /\ Len(ps) = k
  /\ \A i \in 1..k : ps[i] = Pool(ps[i].base, sizes[i])
  /\ \A i, j \in 1..k : i < j => ps[i].end <= ps[j].base
  /\ \A i \in 2..k : ps[i].base = ps[i - 1].end

LEMMA PoolTyped ==
  ASSUME NEW base \in Nat, NEW size \in Nat \ {0}
  PROVE  /\ Pool(base, size) \in PoolType
         /\ Pool(base, size).base = base /\ Pool(base, size).end = base + size
         /\ Pool(base, size).free = <<Block(base, size)>>
  <1>1. Block(base, size) \in BlockType
    BY DEF Block, BlockType
  <1>2. <<Block(base, size)>> \in Seq(BlockType)
    BY <1>1
  <1> DEFINE fl == <<Block(base, size)>>
  <1> HIDE DEF fl
  <1>3. Pool(base, size) = [base |-> base, end |-> base + size, free |-> fl]
    BY DEF Pool, fl
  <1> QED BY <1>2, <1>3 DEF PoolType, fl

NextBase(ps) == IF ps = <<>> THEN 0 ELSE ps[Len(ps)].end

LEMMA NextBaseTyped == ASSUME NEW ps \in Seq(PoolType) PROVE NextBase(ps) \in Nat
  <1>1. CASE ps = <<>>
    BY <1>1 DEF NextBase
  <1>2. CASE ps # <<>>
    <2>1. Len(ps) \in Nat \ {0}
      BY <1>2, EmptyList
    <2>2. ps[Len(ps)] \in PoolType
      BY <2>1
    <2> QED BY <1>2, <2>2 DEF NextBase, PoolType
  <1> QED BY <1>1, <1>2

LEMMA PoolAdded ==
  ASSUME NEW sizes, NEW k \in Nat, NEW ps, Laid(ps, sizes, k), sizes[k + 1] \in PoolSize
  PROVE  Laid(AddPool(ps, sizes[k + 1]), sizes, k + 1)
  <1> DEFINE b == NextBase(ps)
             x == Pool(b, sizes[k + 1])
             q == AddPool(ps, sizes[k + 1])
  <1>1. ps \in Seq(PoolType) /\ Len(ps) = k
    BY DEF Laid
  <1>2. b \in Nat /\ sizes[k + 1] \in Nat \ {0}
    BY <1>1, NextBaseTyped DEF PoolSize, IsPow2
  <1>3. x \in PoolType /\ x.base = b /\ x.end = b + sizes[k + 1]
    <2> HIDE DEF b
    <2> QED BY <1>2, PoolTyped
  <1>4. x = Pool(x.base, sizes[k + 1])
    BY <1>3
  <1>5. q = Append(ps, x)
    BY DEF AddPool, NextBase
  <1> HIDE DEF x, q
  <1>6. /\ q \in Seq(PoolType) /\ Len(q) = k + 1
        /\ \A i \in 1..k : q[i] = ps[i]
        /\ q[k + 1] = x
    BY <1>1, <1>3, <1>5, ListAppended
  <1>7. ASSUME NEW i \in 1..(k + 1) PROVE q[i] = Pool(q[i].base, sizes[i])
    <2>1. CASE i = k + 1
      BY <1>4, <1>6, <2>1
    <2>2. CASE i \in 1..k
      BY <1>6, <2>2 DEF Laid
    <2> QED BY <2>1, <2>2
  <1>8. ASSUME NEW i \in 1..(k + 1), NEW j \in 1..(k + 1), i < j PROVE q[i].end <= q[j].base
    <2>1. CASE j \in 1..k
      <3>1. i \in 1..k
        BY <1>8, <2>1
      <3> QED BY <1>6, <1>8, <2>1, <3>1 DEF Laid
    <2>2. CASE j = k + 1
      <3>1. i \in 1..k /\ k \in 1..k /\ ps # <<>>
        BY <1>1, <1>8, <2>2
      <3>2. q[j].base = ps[k].end
        BY <1>1, <1>3, <1>6, <2>2, <3>1 DEF NextBase
      <3>3. ps[i] \in PoolType /\ ps[k] \in PoolType
        BY <1>1, <3>1
      <3>4. i = k \/ ps[i].end <= ps[k].base
        BY <3>1 DEF Laid
      <3>5. ps[k].base <= ps[k].end
        <4>1. ps[k] = Pool(ps[k].base, sizes[k])
          BY <3>1 DEF Laid
        <4>2. ps[k].free = <<Block(ps[k].base, sizes[k])>> /\ ps[k].end = ps[k].base + sizes[k]
          BY <4>1 DEF Pool
        <4>3. ps[k].free \in Seq(BlockType)
          BY <3>3 DEF PoolType
        <4>4. ps[k].free[1] \in BlockType /\ ps[k].free[1] = Block(ps[k].base, sizes[k])
          BY <4>2, <4>3
        <4>5. sizes[k] \in Nat
          BY <4>4 DEF BlockType, Block
        <4> QED BY <3>3, <4>2, <4>5 DEF PoolType
      <3>6. ps[i].end \in Nat /\ ps[k].base \in Nat /\ ps[k].end \in Nat
        BY <3>3 DEF PoolType
      <3>7. ps[i].end <= ps[k].end
        BY <3>4, <3>5, <3>6
      <3> QED BY <1>6, <3>1, <3>2, <3>7
    <2> QED BY <2>1, <2>2
  <1>9. ASSUME NEW i \in 2..(k + 1) PROVE q[i].base = q[i - 1].end
    <2>1. CASE i \in 2..k
      <3>1. i \in 1..k /\ i - 1 \in 1..k
        BY <2>1
      <3> QED BY <1>6, <2>1, <3>1 DEF Laid
    <2>2. CASE i = k + 1
      <3>1. i - 1 = k /\ k \in 1..k /\ ps # <<>>
        BY <1>1, <2>2
      <3> QED BY <1>1, <1>3, <1>6, <2>2, <3>1 DEF NextBase
    <2> QED BY <2>1, <2>2
  <1> QED BY <1>6, <1>7, <1>8, <1>9 DEF Laid, q

LEMMA MadePools ==
  ASSUME NEW sizes \in Seq(PoolSize)
  PROVE  Laid(MakePools(sizes), sizes, Len(sizes))
  <1> DEFINE n == Len(sizes)
             V == Seq(PoolType)
             MEq(f) == f = [k \in 0..n |-> IF k = 0 THEN <<>> ELSE AddPool(f[k - 1], sizes[k])]
             made == CHOOSE f : MEq(f)
  <1>0. n \in Nat /\ \A k \in 1..n : sizes[k] \in PoolSize
    OBVIOUS
  <1>1. MakePools(sizes) = made[n]
    BY Zenon DEF MakePools
  <1> HIDE DEF n
  <1>2. MEq(made)
    <2> DEFINE g == [k \in 1..n |-> [v \in V |-> AddPool(v, sizes[k])]]
    <2>1. g \in [1..n -> [V -> V]]
      <3>1. ASSUME NEW k \in 1..n, NEW v \in V PROVE AddPool(v, sizes[k]) \in V
        <4> DEFINE x == Pool(NextBase(v), sizes[k])
        <4>1. NextBase(v) \in Nat /\ sizes[k] \in Nat \ {0}
          BY <1>0, NextBaseTyped DEF PoolSize, IsPow2
        <4>2. x \in PoolType
          BY <4>1, PoolTyped
        <4>3. AddPool(v, sizes[k]) = Append(v, x)
          BY DEF AddPool, NextBase
        <4> HIDE DEF x
        <4> QED BY <4>2, <4>3, ListAppended
      <3> HIDE DEF V
      <3> QED BY <3>1
    <2>2. <<>> \in V
      BY EmptyList
    <2>3. PICK f \in [0..n -> V] : Iterates(f, n, <<>>, g)
      <3> HIDE DEF g, V
      <3> QED BY <1>0, <2>1, <2>2, Iteration
    <2> HIDE DEF V
    <2>4. ASSUME NEW k \in 0..n
          PROVE  f[k] = IF k = 0 THEN <<>> ELSE AddPool(f[k - 1], sizes[k])
      <3>1. CASE k = 0
        BY <2>3, <3>1 DEF Iterates
      <3>2. CASE k # 0
        <4>1. k \in 1..n /\ k - 1 \in 0..n /\ f[k - 1] \in V
          BY <1>0, <3>2
        <4>2. f[k] = g[k][f[k - 1]]
          BY <2>3, <3>2 DEF Iterates
        <4>3. g[k][f[k - 1]] = AddPool(f[k - 1], sizes[k])
          BY <4>1
        <4> QED BY <3>2, <4>2, <4>3
      <3> QED BY <3>1, <3>2
    <2>5. MEq(f)
      BY <2>4
    <2> QED BY <2>5, Zenon
  <1>3. made[0] = <<>> /\ \A k \in 1..n : made[k] = AddPool(made[k - 1], sizes[k])
    <2> HIDE DEF made
    <2>1. 0 \in 0..n /\ \A k \in 1..n : k \in 0..n /\ k # 0
      BY <1>0
    <2> QED BY <1>2, <2>1
  <1> HIDE DEF made
  <1> DEFINE G == {k \in 0..n : Laid(made[k], sizes, k)}
  <1>4. 0 \in G
    <2>1. <<>> \in V /\ Len(<<>>) = 0
      BY EmptyList
    <2>2. Laid(<<>>, sizes, 0)
      BY <2>1 DEF Laid
    <2>3. 0 \in 0..n
      BY <1>0
    <2> QED BY <1>3, <2>2, <2>3
  <1>5. ASSUME NEW k \in 1..n, k - 1 \in G PROVE k \in G
    <2>1. k - 1 \in Nat /\ (k - 1) + 1 = k /\ Laid(made[k - 1], sizes, k - 1)
      BY <1>0, <1>5
    <2>2. Laid(AddPool(made[k - 1], sizes[k]), sizes, k)
      BY <1>0, <2>1, PoolAdded
    <2> QED BY <1>0, <1>3, <2>2
  <1>6. n \in G
    <2> HIDE DEF G
    <2>1. \A k \in 0..n : k \in G
      BY <1>0, <1>4, <1>5, Rounds
    <2> QED BY <1>0, <2>1
  <1> QED BY <1>1, <1>6 DEF n

-----------------------------------------------------------------------------
(* split: what is left of a block. *)
HalvesEq(f, b, sz, base) ==
  f = [s \in Nat |-> IF s <= sz THEN <<>>
                     ELSE f[s \div 2] \o <<Block(Buddy(b.addr, s \div 2, base), s \div 2)>>]

HalvesFunction(f, b, sz, base) ==
  /\ \A s \in Nat : f[s] = IF s <= sz THEN <<>>
       ELSE f[s \div 2] \o <<Block(Buddy(b.addr, s \div 2, base), s \div 2)>>
  /\ UpperHalves(b, sz, base) = f[b.size]

LEMMA BuddyTyped ==
  ASSUME NEW addr \in Int, NEW h \in Nat \ {0}, NEW base \in Nat
  PROVE  Block(Buddy(addr, h, base), h) \in BlockType
  BY DEF Block, BlockType, Buddy

LEMMA HalvesEquation ==
  ASSUME NEW b \in BlockType, NEW sz \in Nat \ {0}, NEW base \in Nat
  PROVE  \E f \in [Nat -> Seq(BlockType)] : HalvesFunction(f, b, sz, base)
  <1> DEFINE V == Seq(BlockType)
             B == {s \in Nat : s <= sz}
             x(s) == Block(Buddy(b.addr, s \div 2, base), s \div 2)
             a == [s \in Nat |-> <<>>]
             p == [s \in Nat |-> s \div 2]
             g == [s \in Nat |-> [v \in V |-> IF s <= sz THEN v ELSE v \o <<x(s)>>]]
  <1>0. b.addr \in Int
    BY DEF BlockType
  <1>1. ASSUME NEW s \in Nat, ~(s <= sz) PROVE x(s) \in BlockType /\ s \div 2 \in Nat /\ s \div 2 < s
    <2>1. s \div 2 \in Nat \ {0} /\ s \div 2 < s
      BY <1>1
    <2> QED BY <1>0, <2>1, BuddyTyped
  <1> HIDE DEF x
  <1>2. ASSUME NEW s \in Nat, ~(s <= sz), NEW v \in V PROVE v \o <<x(s)>> \in V
    <2>1. <<x(s)>> \in V
      BY <1>1, <1>2
    <2> QED BY <2>1, JoinedLists
  <1>3. Descends(V, B, a, p, g)
    <2>1. <<>> \in V
      BY EmptyList
    <2> HIDE DEF V
    <2>2. a \in [Nat -> V]
      BY <2>1
    <2>3. g \in [Nat -> [V -> V]]
      BY <1>2
    <2>4. p \in [Nat -> Nat] /\ \A s \in Nat : s \notin B => p[s] < s
      BY <1>1
    <2> QED BY <2>2, <2>3, <2>4 DEF Descends
  <1>4. PICK e \in [Nat -> V] : \A s \in Nat : e[s] = At(e, s, B, a, p, g)
    <2> HIDE DEF V, B, a, p, g
    <2> QED BY <1>3, Recursion
  <1> HIDE DEF V
  <1>5. ASSUME NEW s \in Nat PROVE e[s] = IF s <= sz THEN <<>> ELSE e[s \div 2] \o <<x(s)>>
    <2>1. s \div 2 \in Nat /\ e[s \div 2] \in V
      OBVIOUS
    <2>2. e[s] = At(e, s, B, a, p, g)
      BY <1>4
    <2>3. CASE s <= sz
      BY <2>2, <2>3 DEF At
    <2>4. CASE ~(s <= sz)
      <3>1. e[s] = g[s][e[p[s]]] /\ p[s] = s \div 2
        BY <2>2, <2>4 DEF At
      <3>2. g[s][e[s \div 2]] = e[s \div 2] \o <<x(s)>>
        BY <2>1, <2>4
      <3> QED BY <2>4, <3>1, <3>2
    <2> QED BY <2>3, <2>4
  <1>6. HalvesEq(e, b, sz, base)
    <2>1. e = [s \in Nat |-> IF s <= sz THEN <<>> ELSE e[s \div 2] \o <<x(s)>>]
      BY <1>5
    <2> QED BY <2>1, Zenon DEF HalvesEq, x
  <1> DEFINE f == CHOOSE h : HalvesEq(h, b, sz, base)
  <1>7. HalvesEq(f, b, sz, base)
    BY <1>6, Zenon
  <1>8. UpperHalves(b, sz, base) = f[b.size]
    BY Zenon DEF UpperHalves, HalvesEq
  <1> HIDE DEF f
  <1>9. \A s \in Nat : f[s] = IF s <= sz THEN <<>> ELSE f[s \div 2] \o <<x(s)>>
    BY <1>7, Zenon DEF HalvesEq, x
  <1> DEFINE G == {s \in Nat : f[s] \in V}
  <1>10. ASSUME NEW s \in Nat, \A k \in 0..(s - 1) : k \in G PROVE s \in G
    <2>1. CASE s <= sz
      <3>1. f[s] = <<>>
        BY <1>9, <2>1
      <3> QED BY <3>1, EmptyList DEF V
    <2>2. CASE ~(s <= sz)
      <3>1. f[s] = f[s \div 2] \o <<x(s)>>
        BY <1>9, <2>2
      <3>2. s \div 2 \in 0..(s - 1)
        BY <1>1, <2>2
      <3>3. f[s \div 2] \in V
        BY <1>10, <3>2
      <3> QED BY <1>2, <2>2, <3>1, <3>3
    <2> QED BY <2>1, <2>2
  <1>11. \A s \in Nat : s \in G
    <2> HIDE DEF G
    <2> QED BY <1>10, FromSmaller
  <1>12. f = [s \in Nat |-> f[s]]
    BY <1>7 DEF HalvesEq
  <1>13. f \in [Nat -> V]
    BY <1>11, <1>12
  <1>14. HalvesFunction(f, b, sz, base)
    BY <1>8, <1>9, Zenon DEF HalvesFunction, x
  <1> QED BY <1>13, <1>14 DEF V

LEMMA HalvesTyped ==
  ASSUME NEW b \in BlockType, NEW sz \in Nat \ {0}, NEW base \in Nat
  PROVE  UpperHalves(b, sz, base) \in Seq(BlockType)
  <1>1. PICK f \in [Nat -> Seq(BlockType)] : HalvesFunction(f, b, sz, base)
    BY HalvesEquation
  <1>2. b.size \in Nat
    BY DEF BlockType
  <1> QED BY <1>1, <1>2 DEF HalvesFunction

-----------------------------------------------------------------------------
(* What is true whatever is freed. *)
Statuses == {"init", "ok", "no_pools", "hang", "oom", "overlap", "wild_header", "null_write"}
Typed ==
  /\ memmap \in Memmaps /\ n_pools \in Nat
  /\ pools \in Seq(PoolType) /\ held \subseteq BlockType
  /\ last \in [addr : Int, size : Nat] /\ status \in Statuses

(* A step on one pool leaves the others, and where the pools lie. *)
LEMMA FreeSet ==
  ASSUME pools \in Seq(PoolType), NEW i \in DOMAIN pools, NEW fl, SetFree(i, fl)
  PROVE  /\ DOMAIN pools' = DOMAIN pools /\ Len(pools') = Len(pools)
         /\ \A j \in DOMAIN pools : pools'[j].base = pools[j].base /\ pools'[j].end = pools[j].end
         /\ \A j \in DOMAIN pools : j # i => pools'[j] = pools[j]
         /\ pools'[i].free = Upto(fl, pools[i].end)
         /\ Upto(fl, pools[i].end) \in Seq(BlockType) => pools' \in Seq(PoolType)
  <1> DEFINE u == Upto(fl, pools[i].end)
  <1>1. pools' = [pools EXCEPT ![i].free = u]
    BY DEF SetFree
  <1> HIDE DEF u
  <1>2. \A j \in DOMAIN pools : pools[j] \in PoolType
    OBVIOUS
  <1>3. /\ DOMAIN pools' = DOMAIN pools
        /\ \A j \in DOMAIN pools : j # i => pools'[j] = pools[j]
        /\ pools'[i] = [pools[i] EXCEPT !.free = u]
    BY <1>1
  <1>4. /\ pools'[i].base = pools[i].base /\ pools'[i].end = pools[i].end
        /\ pools'[i].free = u
        /\ u \in Seq(BlockType) => pools'[i] \in PoolType
    BY <1>2, <1>3 DEF PoolType
  <1>5. Len(pools) \in Nat /\ DOMAIN pools = 1..Len(pools)
    OBVIOUS
  <1>6. ASSUME u \in Seq(BlockType) PROVE pools' \in Seq(PoolType) /\ Len(pools') = Len(pools)
    <2>1. \A j \in 1..Len(pools) : pools'[j] \in PoolType
      BY <1>2, <1>3, <1>4, <1>5, <1>6
    <2>2. pools' = [j \in 1..Len(pools) |-> pools'[j]]
      BY <1>1, <1>5
    <2> QED BY <1>5, <2>1, <2>2
  <1>7. Len(pools') = Len(pools)
    BY <1>1, <1>5
  <1> QED BY <1>3, <1>4, <1>6, <1>7 DEF u

-----------------------------------------------------------------------------
(* Free lists.  q is fl with u in place of the blocks k..(m - 1). *)
Spliced(q, fl, k, u, m) ==
  /\ q \in Seq(BlockType)
  /\ Len(q) = (k - 1) + Len(u) + (Len(fl) - (m - 1))
  /\ \A j \in 1..(k - 1) : q[j] = fl[j]
  /\ \A j \in 1..Len(u) : q[(k - 1) + j] = u[j]
  /\ \A j \in m..Len(fl) : q[(k - 1) + Len(u) + (j - (m - 1))] = fl[j]

LEMMA Splice ==
  ASSUME NEW fl \in Seq(BlockType), NEW u \in Seq(BlockType),
         NEW k \in 1..(Len(fl) + 1), NEW m \in k..(Len(fl) + 1)
  PROVE  Spliced(SubSeq(fl, 1, k - 1) \o u \o SubSeq(fl, m, Len(fl)), fl, k, u, m)
  <1> DEFINE s == SubSeq(fl, 1, k - 1)
             t == SubSeq(fl, m, Len(fl))
             n == Len(fl)
  <1>0. n \in Nat /\ k \in Int /\ m \in Int /\ 1 <= k /\ k <= m /\ m <= n + 1 /\ Len(u) \in Nat
    OBVIOUS
  <1>1. /\ s \in Seq(BlockType) /\ Len(s) = k - 1
        /\ \A j \in 1..(k - 1) : s[j] = fl[j]
    <2>1. \A j \in 1..(k - 1) : fl[j] \in BlockType
      BY <1>0
    <2>2. /\ s \in Seq(BlockType)
          /\ Len(s) = IF 1 <= k - 1 THEN (k - 1) - 1 + 1 ELSE 0
          /\ \A j \in 1..((k - 1) - 1 + 1) : s[j] = fl[1 + j - 1]
      BY <1>0, <2>1, PartOfList
    <2> QED BY <1>0, <2>2
  <1>2. /\ t \in Seq(BlockType) /\ Len(t) = n - (m - 1)
        /\ \A j \in m..n : t[j - (m - 1)] = fl[j]
    <2>1. \A j \in m..n : fl[j] \in BlockType
      BY <1>0
    <2>2. /\ t \in Seq(BlockType)
          /\ Len(t) = IF m <= n THEN n - m + 1 ELSE 0
          /\ \A j \in 1..(n - m + 1) : t[j] = fl[m + j - 1]
      BY <1>0, <2>1, PartOfList
    <2>3. ASSUME NEW j \in m..n PROVE t[j - (m - 1)] = fl[j]
      <3>1. j - (m - 1) \in 1..(n - m + 1) /\ m + (j - (m - 1)) - 1 = j
        BY <1>0
      <3> QED BY <2>2, <3>1
    <2> QED BY <1>0, <2>2, <2>3
  <1> HIDE DEF s, t, n
  <1> DEFINE r == s \o u
  <1>3. /\ r \in Seq(BlockType) /\ Len(r) = Len(s) + Len(u)
        /\ \A i \in 1..(Len(s) + Len(u)) : r[i] = IF i <= Len(s) THEN s[i] ELSE u[i - Len(s)]
    BY <1>1, JoinedLists
  <1> HIDE DEF r
  <1> DEFINE q == r \o t
  <1>4. /\ q \in Seq(BlockType) /\ Len(q) = Len(r) + Len(t)
        /\ \A i \in 1..(Len(r) + Len(t)) : q[i] = IF i <= Len(r) THEN r[i] ELSE t[i - Len(r)]
    <2>1. r \in Seq(BlockType) /\ t \in Seq(BlockType)
      BY <1>2, <1>3
    <2> QED BY <2>1, JoinedLists
  <1> HIDE DEF q
  <1>5. ASSUME NEW j \in 1..(k - 1) PROVE q[j] = fl[j]
    <2>0. Len(s) = k - 1 /\ Len(r) = Len(s) + Len(u) /\ Len(t) = n - (m - 1)
      BY <1>1, <1>2, <1>3
    <2>1. j \in 1..(Len(s) + Len(u)) /\ j <= Len(s) /\ j <= Len(r) /\ j \in 1..(Len(r) + Len(t))
      BY <1>0, <2>0
    <2>2. q[j] = r[j] /\ r[j] = s[j] /\ s[j] = fl[j]
      BY <1>1, <1>3, <1>4, <2>1
    <2> QED BY <2>2
  <1>6. ASSUME NEW j \in 1..Len(u) PROVE q[(k - 1) + j] = u[j]
    <2> DEFINE i == (k - 1) + j
    <2>1. /\ i \in 1..(Len(s) + Len(u)) /\ ~(i <= Len(s)) /\ i <= Len(r)
          /\ i \in 1..(Len(r) + Len(t)) /\ i - Len(s) = j
      BY <1>0, <1>1, <1>2, <1>3
    <2> HIDE DEF i
    <2>2. q[i] = r[i] /\ r[i] = u[j]
      BY <1>3, <1>4, <2>1
    <2> QED BY <2>2 DEF i
  <1>7. ASSUME NEW j \in m..n PROVE q[(k - 1) + Len(u) + (j - (m - 1))] = fl[j]
    <2> DEFINE i == (k - 1) + Len(u) + (j - (m - 1))
    <2>1. /\ ~(i <= Len(r)) /\ i \in 1..(Len(r) + Len(t)) /\ i - Len(r) = j - (m - 1)
      BY <1>0, <1>1, <1>2, <1>3
    <2> HIDE DEF i
    <2>2. q[i] = t[j - (m - 1)]
      BY <1>4, <2>1
    <2> QED BY <1>2, <2>2 DEF i
  <1>8. Len(q) = (k - 1) + Len(u) + (n - (m - 1))
    BY <1>1, <1>2, <1>3, <1>4
  <1> QED BY <1>4, <1>5, <1>6, <1>7, <1>8 DEF Spliced, q, r, s, t, n

(* page_free puts a block at the head of the list, in place of the first m - 1. *)
LEMMA Headed ==
  ASSUME NEW fl \in Seq(BlockType), NEW m \in 1..(Len(fl) + 1), NEW e \in BlockType
  PROVE  Spliced(<<e>> \o SubSeq(fl, m, Len(fl)), fl, 1, <<e>>, m)
  <1> DEFINE u == <<e>>
             s == SubSeq(fl, 1, 1 - 1)
             t == SubSeq(fl, m, Len(fl))
  <1>1. u \in Seq(BlockType) /\ 1 \in 1..(Len(fl) + 1) /\ m \in 1..(Len(fl) + 1)
    OBVIOUS
  <1>2. s \o u = u
    <2>1. s = <<>>
      <3>1. 1 - 1 \in Int /\ 1 - 1 < 1
        OBVIOUS
      <3> QED BY <3>1, EmptyPart
    <2> HIDE DEF s, u
    <2> QED BY <1>1, <2>1, JoinedEmpty
  <1> HIDE DEF u
  <1>3. Spliced(s \o u \o t, fl, 1, u, m)
    BY <1>1, Splice
  <1> QED BY <1>2, <1>3 DEF u

LEMMA Inserted ==
  ASSUME NEW fl \in Seq(BlockType), NEW e \in BlockType
  PROVE  Spliced(<<e>> \o fl, fl, 1, <<e>>, 1)
  <1>1. SubSeq(fl, 1, Len(fl)) = fl /\ 1 \in 1..(Len(fl) + 1)
    BY WholePart
  <1> QED BY <1>1, Headed

(* A walk stops at a block or at the sentinel. *)
LEMMA StopPosition ==
  ASSUME NEW n \in Nat, NEW T \in SUBSET (1..n)
  PROVE  /\ Least(T \cup {n + 1}) \in 1..(n + 1)
         /\ Least(T \cup {n + 1}) <= n => Least(T \cup {n + 1}) \in T
         /\ \A j \in 1..n : j < Least(T \cup {n + 1}) => j \notin T
  <1> DEFINE U == T \cup {n + 1}
  <1>1. U \in SUBSET Nat /\ U # {} /\ U \subseteq 1..(n + 1)
    OBVIOUS
  <1>2. Least(U) \in U /\ \A k \in U : Least(U) <= k
    BY <1>1, LeastOf
  <1>3. \A j \in T : j \in U
    OBVIOUS
  <1>4. Least(U) <= n => Least(U) \in T
    BY <1>2
  <1> HIDE DEF U
  <1>5. Least(U) \in 1..(n + 1)
    BY <1>1, <1>2
  <1>6. ASSUME NEW j \in 1..n, j < Least(U) PROVE j \notin T
    BY <1>2, <1>3, <1>5, <1>6
  <1> QED BY <1>4, <1>5, <1>6 DEF U

LEMMA UptoFacts ==
  ASSUME NEW fl \in Seq(BlockType), NEW end \in Int
  PROVE  /\ Upto(fl, end) \in Seq(BlockType)
         /\ (\A k \in DOMAIN fl : fl[k].addr < end) => Upto(fl, end) = fl
  <1> DEFINE T == {k \in DOMAIN fl : fl[k].addr >= end}
             c == Least(T \cup {Len(fl) + 1})
  <1>1. Len(fl) \in Nat /\ T \in SUBSET (1..Len(fl))
    OBVIOUS
  <1>2. c \in 1..(Len(fl) + 1) /\ (c <= Len(fl) => c \in T)
    <2> HIDE DEF T
    <2> QED BY <1>1, StopPosition
  <1>3. Upto(fl, end) = SubSeq(fl, 1, c - 1)
    BY DEF Upto
  <1>4. ASSUME \A k \in DOMAIN fl : fl[k].addr < end PROVE c - 1 = Len(fl)
    <2>1. ASSUME NEW k \in T PROVE FALSE
      <3>1. k \in DOMAIN fl /\ fl[k] \in BlockType
        OBVIOUS
      <3>2. fl[k].addr \in Int
        BY <3>1 DEF BlockType
      <3> QED BY <1>4, <2>1, <3>1, <3>2
    <2> HIDE DEF c, T
    <2> QED BY <1>1, <1>2, <2>1
  <1> HIDE DEF c
  <1>5. c - 1 \in Int /\ \A j \in 1..(c - 1) : fl[j] \in BlockType
    BY <1>1, <1>2
  <1>6. SubSeq(fl, 1, c - 1) \in Seq(BlockType)
    BY <1>5, PartOfList
  <1> QED BY <1>3, <1>4, <1>6, WholePart

-----------------------------------------------------------------------------
(* The steps keep the types. *)
GenInv == Typed /\ (status = "init" => pools = <<>> /\ held = {}) /\ PoolArrayExact /\ HangsOnlyOnOddBlock

LEMMA AllocSize ==
  ASSUME NEW req \in AllocSizes
  PROVE  RoundUp(req) \in Nat \ {0} /\ IsPow2(RoundUp(req))
  <1>1. req \in Nat /\ req > 0
    BY PageAllocAssumption
  <1> QED BY <1>1, NextFacts DEF RoundUp, IsPow2

(* The pool and the block that page_alloc takes. *)
Chosen(i, sz) == Least(Fits(i, sz))

LEMMA ChosenBlock ==
  ASSUME Typed, NEW sz \in Nat \ {0}, NEW i \in FirstPool(sz)
  PROVE  /\ i \in DOMAIN pools /\ pools[i] \in PoolType /\ pools[i].free \in Seq(BlockType)
         /\ pools[i].base \in Nat /\ pools[i].end \in Nat
         /\ Chosen(i, sz) \in 1..Len(pools[i].free)
         /\ pools[i].free[Chosen(i, sz)] \in BlockType
         /\ pools[i].free[Chosen(i, sz)].size >= sz
  <1>1. i \in DOMAIN pools /\ Fits(i, sz) # {}
    BY DEF FirstPool
  <1>2. pools[i] \in PoolType
    BY <1>1 DEF Typed
  <1>3. pools[i].free \in Seq(BlockType) /\ pools[i].base \in Nat /\ pools[i].end \in Nat
    BY <1>2 DEF PoolType
  <1>4. Fits(i, sz) \subseteq 1..Len(pools[i].free)
    BY <1>3 DEF Fits
  <1>5. Fits(i, sz) \in SUBSET Nat
    BY <1>3, <1>4
  <1>6. Chosen(i, sz) \in Fits(i, sz)
    BY <1>1, <1>5, LeastOf DEF Chosen
  <1>7. pools[i].free[Chosen(i, sz)].size >= sz
    BY <1>6 DEF Fits
  <1>8. Chosen(i, sz) \in 1..Len(pools[i].free)
    BY <1>4, <1>6
  <1> QED BY <1>1, <1>2, <1>3, <1>7, <1>8

(* What page_alloc does to the list of pool i. *)
Taken(i, sz) ==
  LET fl == pools[i].free
      k == Chosen(i, sz)
  IN SubSeq(fl, 1, k - 1) \o UpperHalves(fl[k], sz, pools[i].base) \o SubSeq(fl, k + 1, Len(fl))

LEMMA TakenList ==
  ASSUME Typed, NEW sz \in Nat \ {0}, NEW i \in FirstPool(sz)
  PROVE  LET fl == pools[i].free
             k == Chosen(i, sz)
             u == UpperHalves(fl[k], sz, pools[i].base)
         IN u \in Seq(BlockType) /\ Spliced(Taken(i, sz), fl, k, u, k + 1)
  <1> DEFINE fl == pools[i].free
             k == Chosen(i, sz)
             u == UpperHalves(fl[k], sz, pools[i].base)
  <1>1. /\ fl \in Seq(BlockType) /\ k \in 1..Len(fl) /\ fl[k] \in BlockType
        /\ pools[i].base \in Nat
    BY ChosenBlock
  <1>2. Taken(i, sz) = SubSeq(fl, 1, k - 1) \o u \o SubSeq(fl, k + 1, Len(fl))
    BY DEF Taken
  <1>3. u \in Seq(BlockType)
    <2> DEFINE b == fl[k]
    <2> HIDE DEF b, fl, k
    <2>1. b \in BlockType
      BY <1>1 DEF b
    <2>2. UpperHalves(b, sz, pools[i].base) \in Seq(BlockType)
      BY <1>1, <2>1, HalvesTyped
    <2> QED BY <2>2 DEF b
  <1> HIDE DEF fl, k, u
  <1>4. k \in 1..(Len(fl) + 1) /\ k + 1 \in k..(Len(fl) + 1)
    BY <1>1
  <1>5. Spliced(Taken(i, sz), fl, k, u, k + 1)
    BY <1>1, <1>2, <1>3, <1>4, Splice
  <1> QED BY <1>3, <1>5 DEF fl, k, u

(* A step of page_alloc, with the names above. *)
LEMMA AllocStep ==
  ASSUME Typed, NEW req \in AllocSizes, PageAlloc(req)
  PROVE  \E i \in FirstPool(RoundUp(req)) :
           LET sz == RoundUp(req) IN
           /\ SetFree(i, Taken(i, sz))
           /\ held' = held \cup {Block(pools[i].free[Chosen(i, sz)].addr, sz)}
           /\ status = "ok" /\ UNCHANGED <<memmap, n_pools, status, last>>
  BY Zenon DEF PageAlloc, Taken, Chosen

LEMMA AllocTyped ==
  ASSUME Typed, NEW req \in AllocSizes, PageAlloc(req)
  PROVE  Typed' /\ Len(pools') = Len(pools) /\ n_pools' = n_pools /\ status = "ok" /\ status' = status
  <1> DEFINE sz == RoundUp(req)
  <1>1. sz \in Nat \ {0}
    BY AllocSize
  <1>2. PICK i \in FirstPool(sz) :
           /\ SetFree(i, Taken(i, sz))
           /\ held' = held \cup {Block(pools[i].free[Chosen(i, sz)].addr, sz)}
           /\ status = "ok" /\ UNCHANGED <<memmap, n_pools, status, last>>
    BY AllocStep
  <1> HIDE DEF sz
  <1>3. /\ i \in DOMAIN pools /\ pools[i].end \in Nat
        /\ pools[i].free[Chosen(i, sz)] \in BlockType
    BY <1>1, ChosenBlock
  <1>4. Taken(i, sz) \in Seq(BlockType)
    BY <1>1, TakenList DEF Spliced
  <1>5. Upto(Taken(i, sz), pools[i].end) \in Seq(BlockType)
    <2> DEFINE q == Taken(i, sz)
               end == pools[i].end
    <2>1. q \in Seq(BlockType) /\ end \in Int
      BY <1>3, <1>4
    <2> HIDE DEF q, end
    <2>2. Upto(q, end) \in Seq(BlockType)
      BY <2>1, UptoFacts
    <2> QED BY <2>2 DEF q, end
  <1>6. pools' \in Seq(PoolType) /\ Len(pools') = Len(pools)
    BY <1>2, <1>3, <1>5, FreeSet DEF Typed
  <1>7. Block(pools[i].free[Chosen(i, sz)].addr, sz) \in BlockType
    BY <1>1, <1>3 DEF Block, BlockType
  <1>8. held' \subseteq BlockType
    BY <1>2, <1>7 DEF Typed
  <1> QED BY <1>2, <1>6, <1>8 DEF Typed

(* What page_free finds, with a name for each. *)
BuddyOf(i, b) == Buddy(b.addr, b.size, pools[i].base)
StopAt(i, b) == Stop(pools[i].free, b.addr, BuddyOf(i, b))
Met(i, b) == IF StopAt(i, b) <= Len(pools[i].free) THEN pools[i].free[StopAt(i, b)].addr ELSE pools[i].end
Merged(i, b) ==
  Block(IF Met(i, b) < b.addr THEN Met(i, b) ELSE b.addr, pools[i].free[StopAt(i, b)].size + b.size)
Joined(i, b) ==
  <<Merged(i, b)>> \o SubSeq(pools[i].free, StopAt(i, b) + 1, Len(pools[i].free))

Merges(i, b) ==
  /\ Met(i, b) = BuddyOf(i, b) /\ StopAt(i, b) <= Len(pools[i].free)
  /\ SetFree(i, Joined(i, b))
  /\ status' = IF \E c \in Blocks' \ {Merged(i, b)} : Pages(c) \cap Pages(Merged(i, b)) # {}
               THEN "overlap" ELSE status
Inserts(i, b) ==
  /\ Met(i, b) # BuddyOf(i, b) /\ Met(i, b) > b.addr
  /\ SetFree(i, <<Block(b.addr, b.size)>> \o pools[i].free)
  /\ status' = status
Wild(i, b) ==
  /\ Met(i, b) = BuddyOf(i, b) /\ StopAt(i, b) > Len(pools[i].free)
  /\ status' = "wild_header" /\ pools' = pools
Faults(i, b) ==
  /\ Met(i, b) # BuddyOf(i, b) /\ Met(i, b) = b.addr
  /\ status' = "null_write" /\ pools' = pools

LEMMA FreeStep ==
  ASSUME NEW b, PageFree(b)
  PROVE  /\ LET i == Least(PoolOf(b.addr)) IN Merges(i, b) \/ Inserts(i, b) \/ Wild(i, b) \/ Faults(i, b)
         /\ status = "ok" /\ b \in held /\ b.size \in memmap.frees /\ PoolOf(b.addr) # {}
         /\ held' = held \ {b} /\ last' = b /\ memmap' = memmap /\ n_pools' = n_pools
  <1> DEFINE i == Least(PoolOf(b.addr))
  <1>1. /\ status = "ok" /\ b \in held /\ b.size \in memmap.frees /\ PoolOf(b.addr) # {}
        /\ FreeInto(i, b.addr, b.size)
        /\ held' = held \ {b} /\ last' = b /\ memmap' = memmap /\ n_pools' = n_pools
    BY Zenon DEF PageFree
  <1> HIDE DEF i
  <1>2. Merges(i, b) \/ Inserts(i, b) \/ Wild(i, b) \/ Faults(i, b)
    BY <1>1, Zenon DEF FreeInto, Merges, Inserts, Wild, Faults, Merged, Joined, Met, StopAt, BuddyOf
  <1> QED BY <1>1, <1>2 DEF i

(* The pool page_free takes the block to be in, and where its walk stops. *)
LEMMA StopFacts ==
  ASSUME Typed, NEW b \in BlockType, NEW i \in DOMAIN pools
  PROVE  /\ pools[i] \in PoolType /\ pools[i].free \in Seq(BlockType)
         /\ pools[i].base \in Nat /\ pools[i].end \in Nat
         /\ StopAt(i, b) \in 1..(Len(pools[i].free) + 1)
         /\ StopAt(i, b) <= Len(pools[i].free) =>
              LET a == pools[i].free[StopAt(i, b)].addr IN a = BuddyOf(i, b) \/ a > b.addr
         /\ \A j \in 1..Len(pools[i].free) : j < StopAt(i, b) =>
              LET a == pools[i].free[j].addr IN a # BuddyOf(i, b) /\ ~(a > b.addr)
  <1> DEFINE fl == pools[i].free
             T == {k \in DOMAIN fl : fl[k].addr = BuddyOf(i, b) \/ fl[k].addr > b.addr}
             n == Len(fl)
  <1>1. pools[i] \in PoolType
    BY DEF Typed
  <1>2. fl \in Seq(BlockType) /\ pools[i].base \in Nat /\ pools[i].end \in Nat
    BY <1>1 DEF PoolType
  <1>3. StopAt(i, b) = Least(T \cup {n + 1})
    BY DEF StopAt, Stop
  <1>4. n \in Nat /\ T \in SUBSET (1..n) /\ DOMAIN fl = 1..n
    BY <1>2
  <1>5. /\ StopAt(i, b) \in 1..(n + 1)
        /\ StopAt(i, b) <= n => StopAt(i, b) \in T
        /\ \A j \in 1..n : j < StopAt(i, b) => j \notin T
    <2>1. n \in Nat /\ T \in SUBSET (1..n)
      BY <1>4
    <2> HIDE DEF T, n
    <2>2. /\ Least(T \cup {n + 1}) \in 1..(n + 1)
          /\ Least(T \cup {n + 1}) <= n => Least(T \cup {n + 1}) \in T
          /\ \A j \in 1..n : j < Least(T \cup {n + 1}) => j \notin T
      BY <2>1, StopPosition
    <2> QED BY <1>3, <2>2, Zenon
  <1> HIDE DEF n
  <1>6. StopAt(i, b) <= n => fl[StopAt(i, b)].addr = BuddyOf(i, b) \/ fl[StopAt(i, b)].addr > b.addr
    BY <1>5
  <1>7. \A j \in 1..n : j < StopAt(i, b) => fl[j].addr # BuddyOf(i, b) /\ ~(fl[j].addr > b.addr)
    BY <1>4, <1>5
  <1> QED BY <1>1, <1>2, <1>5, <1>6, <1>7 DEF n

LEMMA PoolFound ==
  ASSUME Typed, NEW page \in Int, PoolOf(page) # {}
  PROVE  /\ Least(PoolOf(page)) \in DOMAIN pools
         /\ pools[Least(PoolOf(page))].base <= page /\ page <= pools[Least(PoolOf(page))].end
         /\ \A j \in DOMAIN pools :
              pools[j].base <= page /\ page <= pools[j].end => Least(PoolOf(page)) <= j
  <1>1. PoolOf(page) \in SUBSET Nat
    BY DEF PoolOf, Typed
  <1>2. Least(PoolOf(page)) \in PoolOf(page) /\ \A j \in PoolOf(page) : Least(PoolOf(page)) <= j
    BY <1>1, LeastOf
  <1> QED BY <1>2 DEF PoolOf

LEMMA FreeTyped ==
  ASSUME Typed, NEW b \in held, PageFree(b)
  PROVE  Typed' /\ Len(pools') = Len(pools) /\ n_pools' = n_pools /\ status = "ok" /\ status' # "hang"
         /\ status' # "init"
  <1> DEFINE i == Least(PoolOf(b.addr))
             fl == pools[i].free
             k == StopAt(i, b)
  <1>1. /\ Merges(i, b) \/ Inserts(i, b) \/ Wild(i, b) \/ Faults(i, b)
        /\ status = "ok" /\ b \in held /\ PoolOf(b.addr) # {}
        /\ held' = held \ {b} /\ last' = b /\ memmap' = memmap /\ n_pools' = n_pools
    BY FreeStep
  <1>2. b \in BlockType /\ b.addr \in Int /\ b.size \in Nat \ {0}
    BY DEF Typed, BlockType
  <1>3. i \in DOMAIN pools
    BY <1>1, <1>2, PoolFound
  <1> HIDE DEF i
  <1>4. fl \in Seq(BlockType) /\ pools[i].end \in Int /\ k \in 1..(Len(fl) + 1) /\ Len(fl) \in Nat
        /\ pools[i].base \in Nat
    BY <1>2, <1>3, StopFacts
  <1>5. last' \in [addr : Int, size : Nat] /\ held' \subseteq BlockType
    <2>1. last' \in [addr : Int, size : Nat]
      BY <1>1, <1>2 DEF BlockType
    <2> QED BY <1>1, <2>1 DEF Typed
  <1>6. ASSUME NEW q \in Seq(BlockType), SetFree(i, q)
        PROVE  pools' \in Seq(PoolType) /\ Len(pools') = Len(pools)
    <2>1. Upto(q, pools[i].end) \in Seq(BlockType)
      BY <1>4, UptoFacts
    <2> QED BY <1>3, <1>6, <2>1, FreeSet DEF Typed
  <1>7. pools' \in Seq(PoolType) /\ Len(pools') = Len(pools) /\ status' \in {"ok", "overlap", "wild_header", "null_write"}
    <2>1. CASE Merges(i, b)
      <3>1. k \in 1..Len(fl) /\ SetFree(i, Joined(i, b)) /\ status' \in {"overlap", status}
        BY <1>4, <2>1 DEF Merges
      <3>2. fl[k] \in BlockType /\ Met(i, b) = fl[k].addr
        BY <1>4, <3>1 DEF Met
      <3>3. Merged(i, b) = Block(IF fl[k].addr < b.addr THEN fl[k].addr ELSE b.addr, fl[k].size + b.size)
        BY <3>2 DEF Merged
      <3>4. Joined(i, b) = <<Merged(i, b)>> \o SubSeq(fl, k + 1, Len(fl))
        BY DEF Joined
      <3> HIDE DEF fl, k
      <3>5. Merged(i, b) \in BlockType
        BY <1>2, <3>2, <3>3 DEF BlockType, Block
      <3>6. k + 1 \in 1..(Len(fl) + 1)
        BY <1>4, <3>1
      <3>7. Joined(i, b) \in Seq(BlockType)
        BY <1>4, <3>4, <3>5, <3>6, Headed DEF Spliced
      <3> QED BY <1>1, <1>6, <3>1, <3>7
    <2>2. CASE Inserts(i, b)
      <3>1. SetFree(i, <<Block(b.addr, b.size)>> \o fl) /\ status' = status
        BY <2>2 DEF Inserts
      <3>2. Block(b.addr, b.size) \in BlockType
        BY <1>2 DEF Block, BlockType
      <3> HIDE DEF fl, k
      <3>3. <<Block(b.addr, b.size)>> \o fl \in Seq(BlockType)
        BY <1>4, <3>2, Inserted DEF Spliced
      <3> QED BY <1>1, <1>6, <3>1, <3>3
    <2>3. CASE Wild(i, b)
      BY <2>3 DEF Wild, Typed
    <2>4. CASE Faults(i, b)
      BY <1>1, <2>4 DEF Faults, Typed
    <2> QED BY <1>1, <2>1, <2>2, <2>3, <2>4
  <1> QED BY <1>1, <1>5, <1>7 DEF Typed, Statuses

(* What holds whatever sizes are freed: the pools fill their array, and split
   hangs only on a block whose size is not a power of two. *)
LEMMA GenInit == Init => GenInv
  <1> SUFFICES ASSUME Init PROVE GenInv
    OBVIOUS
  <1>1. Typed
    BY EmptyList DEF Init, Typed, NoBlock, Block, Statuses
  <1> QED BY <1>1 DEF Init, GenInv, PoolArrayExact, HangsOnlyOnOddBlock

LEMMA Started ==
  ASSUME Typed, PageAllocInit
  PROVE  /\ Laid(pools', AllSizes(memmap.lens), AllCounted(memmap.lens))
         /\ AllSizes(memmap.lens) \in Seq(PoolSize)
         /\ n_pools' = AllCounted(memmap.lens) /\ n_pools' \in Nat /\ n_pools' = Len(pools')
         /\ pools' \in Seq(PoolType)
  <1> DEFINE lens == memmap.lens
  <1>1. lens \in Seq(Nat)
    BY PageAllocAssumption DEF Typed
  <1>2. n_pools' = AllCounted(lens) /\ pools' = MakePools(AllSizes(lens))
    BY DEF PageAllocInit
  <1> HIDE DEF lens
  <1>3. AllCounted(lens) \in Nat /\ AllSizes(lens) \in Seq(PoolSize) /\ Len(AllSizes(lens)) = AllCounted(lens)
    BY <1>1, AllPools
  <1>4. Laid(MakePools(AllSizes(lens)), AllSizes(lens), AllCounted(lens))
    <2>1. Laid(MakePools(AllSizes(lens)), AllSizes(lens), Len(AllSizes(lens)))
      BY <1>3, MadePools
    <2> QED BY <1>3, <2>1
  <1>5. pools' \in Seq(PoolType) /\ Len(pools') = AllCounted(lens)
    BY <1>2, <1>4 DEF Laid
  <1> QED BY <1>2, <1>3, <1>4, <1>5 DEF lens

LEMMA GenStep == GenInv /\ [Next]_vars => GenInv'
  <1> SUFFICES ASSUME GenInv, [Next]_vars PROVE GenInv'
    OBVIOUS
  <1>0. Typed
    BY DEF GenInv
  <1>1. CASE PageAllocInit
    <2>1. n_pools' \in Nat /\ n_pools' = Len(pools') /\ pools' \in Seq(PoolType)
      BY <1>0, <1>1, Started
    <2>2. status' \in {"no_pools", "ok"} /\ UNCHANGED <<memmap, held, last>>
      BY <1>1 DEF PageAllocInit
    <2>3. Typed'
      BY <1>0, <2>1, <2>2 DEF Typed, Statuses
    <2> QED BY <2>1, <2>2, <2>3 DEF GenInv, PoolArrayExact, HangsOnlyOnOddBlock
  <1>2. ASSUME NEW req \in AllocSizes, PageAlloc(req) PROVE GenInv'
    <2>1. Typed' /\ Len(pools') = Len(pools) /\ n_pools' = n_pools /\ status = "ok" /\ status' = status
      BY <1>0, <1>2, AllocTyped
    <2> QED BY <2>1 DEF GenInv, PoolArrayExact, HangsOnlyOnOddBlock
  <1>3. ASSUME NEW req \in AllocSizes, SplitHangs(req) PROVE GenInv'
    <2> DEFINE sz == RoundUp(req)
    <2>1. /\ status = "ok" /\ status' = "hang" /\ UNCHANGED <<memmap, n_pools, pools, held, last>>
          /\ \E i \in FirstPool(sz) : LET b == pools[i].free[Chosen(i, sz)]
                                      IN ~(b.size % sz = 0 /\ IsPow2(b.size \div sz))
      BY <1>3, Zenon DEF SplitHangs, Chosen
    <2>2. sz \in Nat \ {0} /\ IsPow2(sz)
      BY AllocSize
    <2> HIDE DEF sz
    <2>3. PICK i \in FirstPool(sz) : LET b == pools[i].free[Chosen(i, sz)]
                                     IN ~(b.size % sz = 0 /\ IsPow2(b.size \div sz))
      BY <2>1
    <2> DEFINE b == pools[i].free[Chosen(i, sz)]
    <2>4. /\ i \in DOMAIN pools /\ b \in BlockType /\ b.size >= sz
          /\ Chosen(i, sz) \in 1..Len(pools[i].free) /\ pools[i].free \in Seq(BlockType)
      BY <1>0, <2>2, ChosenBlock
    <2>5. b \in FreeBlocks
      <3>1. b \in Range(pools[i].free)
        BY <2>4 DEF Range
      <3> QED BY <2>4, <3>1 DEF FreeBlocks
    <2> HIDE DEF b
    <2>6. b.size \in Nat
      BY <2>4 DEF BlockType
    <2>7. ~IsPow2(b.size)
      <3> SUFFICES ASSUME IsPow2(b.size) PROVE FALSE
        OBVIOUS
      <3>1. b.size % sz = 0 /\ IsPow2(b.size \div sz)
        BY <2>2, <2>4, <2>6, Halves
      <3> QED BY <2>3, <3>1 DEF b
    <2>8. HangsOnlyOnOddBlock'
      <3>1. FreeBlocks' = FreeBlocks
        BY <2>1 DEF FreeBlocks
      <3> QED BY <2>5, <2>7, <3>1 DEF HangsOnlyOnOddBlock
    <2>9. Typed' /\ PoolArrayExact'
      BY <2>1 DEF GenInv, Typed, Statuses, PoolArrayExact
    <2> QED BY <2>1, <2>8, <2>9 DEF GenInv
  <1>4. ASSUME NEW req \in AllocSizes, OutOfMemory(req) PROVE GenInv'
    BY <1>4 DEF OutOfMemory, GenInv, Typed, Statuses, PoolArrayExact, HangsOnlyOnOddBlock
  <1>5. ASSUME NEW b \in held, PageFree(b) PROVE GenInv'
    <2>1. /\ Typed' /\ Len(pools') = Len(pools) /\ n_pools' = n_pools /\ status = "ok"
          /\ status' # "hang" /\ status' # "init"
      BY <1>0, <1>5, FreeTyped
    <2> QED BY <2>1 DEF GenInv, PoolArrayExact, HangsOnlyOnOddBlock
  <1>6. CASE UNCHANGED vars
    <2>1. FreeBlocks' = FreeBlocks
      BY <1>6 DEF vars, FreeBlocks
    <2> QED BY <1>6, <2>1 DEF vars, GenInv, Typed, PoolArrayExact, HangsOnlyOnOddBlock
  <1> QED BY <1>1, <1>2, <1>3, <1>4, <1>5, <1>6 DEF Next

(* The fields keep their types, the array of pools is full, and split does not
   end only where HangsOnlyOnOddBlock says so: GenInv is inductive. *)
THEOREM AllocatorTyped == Spec => []GenInv
  BY GenInit, GenStep, PTL DEF Spec

(* page_alloc_init fills exactly the array it allocated, whatever the memory
   map: the loop that counts the pools of the entries (page_alloc.c:72-81) and
   the loop that makes them (86-113) agree. *)
THEOREM PoolArrayFilled == Spec => []PoolArrayExact
  <1>1. GenInv => PoolArrayExact
    BY DEF GenInv
  <1> QED BY <1>1, AllocatorTyped, PTL

(* Whatever is freed, split fails to end only on a block whose size a merge
   with a larger or smaller buddy has made odd. *)
THEOREM SplitEndsOnBuddies == Spec => []HangsOnlyOnOddBlock
  <1>1. GenInv => HangsOnlyOnOddBlock
    BY DEF GenInv
  <1> QED BY <1>1, AllocatorTyped, PTL

-----------------------------------------------------------------------------
(* Part 2. *)
(* Where a block may lie, and blocks that have no page in common. *)
Past(b) == b.addr + b.size
Apart(b, c) == Past(b) <= c.addr \/ Past(c) <= b.addr
Lies(b, p) ==
  /\ p.base <= b.addr /\ Past(b) <= p.end
  /\ IsPow2(b.size) /\ (b.addr - p.base) % b.size = 0
Scattered(fl) == \A j, k \in DOMAIN fl : j # k => Apart(fl[j], fl[k])
Has(b, page) == b.addr <= page /\ page < Past(b)

(* The pools lie one after the other, and none has a single page. *)
PoolsApart ==
  /\ \A i, j \in DOMAIN pools : i < j => pools[i].end <= pools[j].base
  /\ \A i \in DOMAIN pools : i - 1 \in DOMAIN pools => pools[i].base = pools[i - 1].end
  /\ \A i \in DOMAIN pools : pools[i].base < pools[i].end /\ (pools[i].end - pools[i].base) % 2 = 0
FreeSound ==
  \A i \in DOMAIN pools :
    /\ Scattered(pools[i].free)
    /\ \A k \in DOMAIN pools[i].free : Lies(pools[i].free[k], pools[i])
HeldSound ==
  /\ \A b \in held : \E i \in DOMAIN pools : Lies(b, pools[i])
  /\ \A b, c \in held : b # c => Apart(b, c)
  /\ \A b \in held : \A i \in DOMAIN pools : \A k \in DOMAIN pools[i].free : Apart(b, pools[i].free[k])
StatusSound ==
  /\ status = "null_write" <=> last.addr \in BoundaryPages
  /\ status \notin {"wild_header", "overlap"}
  /\ status = "init" => last = NoBlock
Sound == PoolsApart /\ FreeSound /\ HeldSound
PageInv == OnlyPagesFreed => Sound /\ StatusSound

(* A page that is held or free. *)
Owned(page) ==
  \/ \E b \in held : Has(b, page)
  \/ \E i \in DOMAIN pools : \E k \in DOMAIN pools[i].free : Has(pools[i].free[k], page)

(* Every block of a new list comes from the old one or is new. *)
Low(z, q, fl, k) == z \in 1..(k - 1) /\ q[z] = fl[z]
Mid(z, q, k, u) == \E x \in 1..Len(u) : z = (k - 1) + x /\ q[z] = u[x]
High(z, q, fl, k, u, m) ==
  \E y \in m..Len(fl) : z = (k - 1) + Len(u) + (y - (m - 1)) /\ q[z] = fl[y]

LEMMA SplicedFrom ==
  ASSUME NEW fl \in Seq(BlockType), NEW u \in Seq(BlockType), NEW q,
         NEW k \in 1..(Len(fl) + 1), NEW m \in k..(Len(fl) + 1), Spliced(q, fl, k, u, m),
         NEW j \in DOMAIN q
  PROVE  Low(j, q, fl, k) \/ Mid(j, q, k, u) \/ High(j, q, fl, k, u, m)
  <1>0. /\ Len(fl) \in Nat /\ Len(u) \in Nat /\ k \in Int /\ m \in Int
        /\ q \in Seq(BlockType) /\ Len(q) = (k - 1) + Len(u) + (Len(fl) - (m - 1))
    BY DEF Spliced
  <1>1. j \in Int /\ 1 <= j /\ j <= Len(q)
    BY <1>0
  <1>2. CASE j <= k - 1
    BY <1>0, <1>1, <1>2 DEF Spliced, Low
  <1>3. CASE k - 1 < j /\ j <= (k - 1) + Len(u)
    <2> DEFINE x == j - (k - 1)
    <2>1. x \in 1..Len(u) /\ j = (k - 1) + x
      BY <1>0, <1>1, <1>3
    <2> HIDE DEF x
    <2>2. q[(k - 1) + x] = u[x]
      BY <2>1 DEF Spliced
    <2> QED BY <2>1, <2>2 DEF Mid
  <1>4. CASE (k - 1) + Len(u) < j
    <2> DEFINE y == j - ((k - 1) + Len(u)) + (m - 1)
    <2>1. y \in m..Len(fl) /\ j = (k - 1) + Len(u) + (y - (m - 1))
      BY <1>0, <1>1, <1>4
    <2> HIDE DEF y
    <2>2. q[(k - 1) + Len(u) + (y - (m - 1))] = fl[y]
      BY <2>1 DEF Spliced
    <2> QED BY <2>1, <2>2 DEF High
  <1> QED BY <1>0, <1>1, <1>2, <1>3, <1>4

Rearranged(q, fl, k, u, m) ==
  /\ \A j \in DOMAIN q : \/ \E x \in DOMAIN u : q[j] = u[x]
                         \/ \E y \in DOMAIN fl : (y < k \/ m <= y) /\ q[j] = fl[y]
  /\ \A x \in DOMAIN u : \E j \in DOMAIN q : q[j] = u[x]
  /\ \A y \in DOMAIN fl : (y < k \/ m <= y) => \E j \in DOMAIN q : q[j] = fl[y]

LEMMA SplicedElements ==
  ASSUME NEW fl \in Seq(BlockType), NEW u \in Seq(BlockType), NEW q,
         NEW k \in 1..(Len(fl) + 1), NEW m \in k..(Len(fl) + 1), Spliced(q, fl, k, u, m)
  PROVE  Rearranged(q, fl, k, u, m)
  <1>0. /\ Len(fl) \in Nat /\ Len(u) \in Nat /\ k \in Int /\ m \in Int /\ 1 <= k /\ k <= m /\ m <= Len(fl) + 1
        /\ DOMAIN fl = 1..Len(fl) /\ DOMAIN u = 1..Len(u)
        /\ q \in Seq(BlockType) /\ Len(q) = (k - 1) + Len(u) + (Len(fl) - (m - 1))
        /\ DOMAIN q = 1..Len(q)
    BY DEF Spliced
  <1>1. ASSUME NEW j \in DOMAIN q
        PROVE  \/ \E x \in DOMAIN u : q[j] = u[x]
               \/ \E y \in DOMAIN fl : (y < k \/ m <= y) /\ q[j] = fl[y]
    <2>1. CASE Low(j, q, fl, k)
      <3>1. j \in 1..(k - 1) /\ q[j] = fl[j]
        BY <2>1 DEF Low
      <3>2. j \in DOMAIN fl /\ j < k
        BY <1>0, <3>1
      <3> QED BY <3>1, <3>2
    <2>2. CASE Mid(j, q, k, u)
      BY <1>0, <2>2 DEF Mid
    <2>3. CASE High(j, q, fl, k, u, m)
      <3>1. PICK y \in m..Len(fl) : q[j] = fl[y]
        BY <2>3 DEF High
      <3>2. y \in DOMAIN fl /\ m <= y
        BY <1>0
      <3> QED BY <3>1, <3>2
    <2> QED BY <2>1, <2>2, <2>3, SplicedFrom
  <1>2. ASSUME NEW x \in DOMAIN u PROVE \E j \in DOMAIN q : q[j] = u[x]
    <2> DEFINE j == (k - 1) + x
    <2>1. j \in DOMAIN q
      BY <1>0
    <2>2. q[j] = u[x]
      BY <1>0 DEF Spliced
    <2> HIDE DEF j
    <2> QED BY <2>1, <2>2
  <1>3. ASSUME NEW y \in DOMAIN fl, y < k PROVE \E j \in DOMAIN q : q[j] = fl[y]
    <2>1. y \in 1..(k - 1) /\ y \in DOMAIN q
      BY <1>0, <1>3
    <2>2. q[y] = fl[y]
      BY <2>1 DEF Spliced
    <2> QED BY <2>1, <2>2
  <1>4. ASSUME NEW y \in DOMAIN fl, m <= y PROVE \E j \in DOMAIN q : q[j] = fl[y]
    <2> DEFINE j == (k - 1) + Len(u) + (y - (m - 1))
    <2>1. j \in DOMAIN q /\ y \in m..Len(fl)
      BY <1>0, <1>4
    <2>2. q[j] = fl[y]
      BY <2>1 DEF Spliced
    <2> HIDE DEF j
    <2> QED BY <2>1, <2>2
  <1> QED BY <1>1, <1>2, <1>3, <1>4 DEF Rearranged

LEMMA Mirrored == ASSUME NEW b, NEW c, Apart(b, c) PROVE Apart(c, b)
  BY DEF Apart

(* The blocks of a new list are apart if what is new is apart from the rest. *)
Foreign(u, fl, k, m) ==
  \A y \in DOMAIN fl : \A x \in DOMAIN u : y < k \/ m <= y => Apart(u[x], fl[y])

LEMMA SplicedScattered ==
  ASSUME NEW fl \in Seq(BlockType), NEW u \in Seq(BlockType), NEW q,
         NEW k \in 1..(Len(fl) + 1), NEW m \in k..(Len(fl) + 1), Spliced(q, fl, k, u, m),
         Scattered(fl), Scattered(u), Foreign(u, fl, k, m)
  PROVE  Scattered(q)
  <1>0. /\ Len(fl) \in Nat /\ Len(u) \in Nat /\ k \in Int /\ m \in Int /\ 1 <= k /\ k <= m /\ m <= Len(fl) + 1
        /\ DOMAIN fl = 1..Len(fl) /\ DOMAIN u = 1..Len(u)
        /\ q \in Seq(BlockType)
    BY DEF Spliced
  <1> DEFINE L(z) == Low(z, q, fl, k)
             M(z) == Mid(z, q, k, u)
             H(z) == High(z, q, fl, k, u, m)
             Old(z) == L(z) \/ H(z)
  <1>1. ASSUME NEW i \in DOMAIN q, NEW j \in DOMAIN q, i # j, L(i), Old(j)
        PROVE  Apart(q[i], q[j])
    <2>1. i \in DOMAIN fl /\ i < k /\ q[i] = fl[i]
      BY <1>0, <1>1 DEF Low
    <2>2. CASE L(j)
      <3>1. j \in DOMAIN fl /\ q[j] = fl[j]
        BY <1>0, <2>2 DEF Low
      <3> QED BY <1>1, <2>1, <3>1 DEF Scattered
    <2>3. CASE H(j)
      <3>1. PICK y \in m..Len(fl) : q[j] = fl[y]
        BY <2>3 DEF High
      <3>2. y \in DOMAIN fl /\ i # y
        BY <1>0, <2>1
      <3> QED BY <2>1, <3>1, <3>2 DEF Scattered
    <2> QED BY <1>1, <2>2, <2>3
  <1>2. ASSUME NEW i \in DOMAIN q, NEW j \in DOMAIN q, i # j, H(i), H(j)
        PROVE  Apart(q[i], q[j])
    <2>1. PICK x \in m..Len(fl) : i = (k - 1) + Len(u) + (x - (m - 1)) /\ q[i] = fl[x]
      BY <1>2 DEF High
    <2>2. PICK y \in m..Len(fl) : j = (k - 1) + Len(u) + (y - (m - 1)) /\ q[j] = fl[y]
      BY <1>2 DEF High
    <2>3. x # y /\ x \in DOMAIN fl /\ y \in DOMAIN fl
      <3>1. x # y
        BY <1>2, <2>1, <2>2, Zenon
      <3>2. x \in DOMAIN fl /\ y \in DOMAIN fl
        BY <1>0
      <3> QED BY <3>1, <3>2
    <2> QED BY <2>1, <2>2, <2>3 DEF Scattered
  <1>3. ASSUME NEW i \in DOMAIN q, NEW j \in DOMAIN q, i # j, M(i), M(j)
        PROVE  Apart(q[i], q[j])
    <2>1. PICK x \in 1..Len(u) : i = (k - 1) + x /\ q[i] = u[x]
      BY <1>3 DEF Mid
    <2>2. PICK z \in 1..Len(u) : j = (k - 1) + z /\ q[j] = u[z]
      BY <1>3 DEF Mid
    <2>3. x # z
      BY <1>3, <2>1, <2>2
    <2> QED BY <1>0, <2>1, <2>2, <2>3 DEF Scattered
  <1>4. ASSUME NEW i \in DOMAIN q, NEW j \in DOMAIN q, M(i), Old(j)
        PROVE  Apart(q[i], q[j])
    <2>1. PICK x \in DOMAIN u : q[i] = u[x]
      BY <1>0, <1>4 DEF Mid
    <2>2. CASE L(j)
      <3>1. j \in DOMAIN fl /\ j < k /\ q[j] = fl[j]
        BY <1>0, <2>2 DEF Low
      <3> QED BY <2>1, <3>1 DEF Foreign
    <2>3. CASE H(j)
      <3>1. PICK y \in m..Len(fl) : q[j] = fl[y]
        BY <2>3 DEF High
      <3>2. y \in DOMAIN fl /\ m <= y
        BY <1>0
      <3> QED BY <2>1, <3>1, <3>2 DEF Foreign
    <2> QED BY <1>4, <2>2, <2>3
  <1> SUFFICES ASSUME NEW i \in DOMAIN q, NEW j \in DOMAIN q, i # j PROVE Apart(q[i], q[j])
    BY DEF Scattered
  <1>5. (L(i) \/ M(i) \/ H(i)) /\ (L(j) \/ M(j) \/ H(j))
    BY SplicedFrom
  <1> HIDE DEF L, M, H
  <1> QED BY <1>1, <1>2, <1>3, <1>4, <1>5, Mirrored

-----------------------------------------------------------------------------
(* What split leaves of a buddy block: the upper halves fill the rest of it. *)
Halving(u, b, sz, base) ==
  /\ u \in Seq(BlockType) /\ Scattered(u)
  /\ \A x \in DOMAIN u :
       /\ b.addr + sz <= u[x].addr /\ Past(u[x]) <= Past(b)
       /\ IsPow2(u[x].size) /\ (u[x].addr - base) % u[x].size = 0
  /\ \A page \in Int : b.addr + sz <= page /\ page < Past(b) => \E x \in DOMAIN u : Has(u[x], page)

LEMMA BlockFields ==
  ASSUME NEW a, NEW s
  PROVE  Block(a, s).addr = a /\ Block(a, s).size = s
  BY DEF Block

LEMMA NothingLeft ==
  ASSUME NEW addr \in Int, NEW sz \in Nat \ {0}, NEW base
  PROVE  Halving(<<>>, Block(addr, sz), sz, base)
  <1>1. <<>> \in Seq(BlockType) /\ DOMAIN <<>> = {}
    BY EmptyList
  <1>2. Past(Block(addr, sz)) = addr + sz /\ Block(addr, sz).addr = addr
    BY BlockFields DEF Past
  <1> DEFINE u == <<>>
  <1> HIDE DEF u
  <1>3. u \in Seq(BlockType) /\ DOMAIN u = {}
    BY <1>1 DEF u
  <1>4. Scattered(u)
    BY <1>3 DEF Scattered
  <1>5. ASSUME NEW page \in Int, addr + sz <= page, page < addr + sz PROVE FALSE
    BY <1>5
  <1>6. Halving(u, Block(addr, sz), sz, base)
    BY <1>2, <1>3, <1>4, <1>5 DEF Halving
  <1> QED BY <1>6 DEF u

LEMMA HalfLeft ==
  ASSUME NEW addr \in Nat, NEW sz \in Nat \ {0}, NEW base \in Nat, NEW h \in Nat \ {0}, NEW v,
         base <= addr, sz <= h, IsPow2(h), Multiple(addr - base, 2 * h),
         Halving(v, Block(addr, h), sz, base)
  PROVE  Halving(v \o <<Block(addr + h, h)>>, Block(addr, 2 * h), sz, base)
  <1> DEFINE e == Block(addr + h, h)
             s == <<e>>
             u == v \o s
             n == Len(v)
  <1>1. e \in BlockType /\ e.addr = addr + h /\ e.size = h /\ Past(e) = addr + 2 * h
    BY BlockFields DEF Block, BlockType, Past
  <1>2. s \in Seq(BlockType) /\ Len(s) = 1 /\ s[1] = e
    BY <1>1
  <1>3. /\ v \in Seq(BlockType) /\ Scattered(v) /\ n \in Nat /\ DOMAIN v = 1..n
        /\ \A x \in DOMAIN v :
             /\ addr + sz <= v[x].addr /\ Past(v[x]) <= addr + h
             /\ IsPow2(v[x].size) /\ (v[x].addr - base) % v[x].size = 0
        /\ \A page \in Int : addr + sz <= page /\ page < addr + h => \E x \in DOMAIN v : Has(v[x], page)
    <2> DEFINE b == Block(addr, h)
    <2>1. b.addr = addr /\ Past(b) = addr + h
      BY BlockFields DEF Past
    <2> HIDE DEF b
    <2>2. Halving(v, b, sz, base)
      BY DEF b
    <2>3. v \in Seq(BlockType) /\ Scattered(v)
      BY <2>2 DEF Halving
    <2>4. \A x \in DOMAIN v :
             /\ addr + sz <= v[x].addr /\ Past(v[x]) <= addr + h
             /\ IsPow2(v[x].size) /\ (v[x].addr - base) % v[x].size = 0
      BY <2>1, <2>2, Zenon DEF Halving
    <2>5. \A page \in Int : addr + sz <= page /\ page < addr + h => \E x \in DOMAIN v : Has(v[x], page)
      BY <2>1, <2>2, Zenon DEF Halving
    <2>6. n \in Nat /\ DOMAIN v = 1..n
      BY <2>3
    <2> QED BY <2>3, <2>4, <2>5, <2>6
  <1> HIDE DEF e, s
  <1>4. /\ u \in Seq(BlockType) /\ Len(u) = n + 1
        /\ \A i \in 1..(n + 1) : u[i] = IF i <= n THEN v[i] ELSE s[i - n]
    <2>1. /\ u \in Seq(BlockType) /\ Len(u) = Len(v) + Len(s)
          /\ \A i \in 1..(Len(v) + Len(s)) : u[i] = IF i <= Len(v) THEN v[i] ELSE s[i - Len(v)]
      BY <1>2, <1>3, JoinedLists
    <2> QED BY <1>2, <2>1
  <1> HIDE DEF u
  <1>5. DOMAIN u = 1..(n + 1) /\ u[n + 1] = e /\ \A i \in 1..n : u[i] = v[i]
    <2>1. u[n + 1] = s[(n + 1) - n] /\ (n + 1) - n = 1
      BY <1>3, <1>4
    <2> QED BY <1>2, <1>3, <1>4, <2>1
  <1> HIDE DEF n
  <1>6. (e.addr - base) % e.size = 0
    <2>1. Multiple((addr + h) - base, h) /\ (addr + h) - base \in Nat
      BY UpperBuddy
    <2>2. ((addr + h) - base) % h = 0
      BY <2>1, NoRemainder
    <2> QED BY <1>1, <2>2
  <1>7. Scattered(u)
    <2>1. ASSUME NEW x \in 1..n PROVE Apart(u[x], e) /\ Apart(e, u[x])
      <3>1. u[x] = v[x] /\ Past(v[x]) <= addr + h
        BY <1>3, <1>5
      <3>2. Apart(v[x], e)
        BY <1>1, <3>1 DEF Apart
      <3> QED BY <3>1, <3>2, Mirrored
    <2>2. ASSUME NEW x \in 1..n, NEW y \in 1..n, x # y PROVE Apart(u[x], u[y])
      BY <1>3, <1>5, <2>2 DEF Scattered
    <2>3. \A x \in DOMAIN u : x \in 1..n \/ (x = n + 1 /\ u[x] = e)
      BY <1>3, <1>5
    <2> QED BY <2>1, <2>2, <2>3 DEF Scattered
  <1> DEFINE Fine(c) == /\ addr + sz <= c.addr /\ Past(c) <= addr + 2 * h
                        /\ IsPow2(c.size) /\ (c.addr - base) % c.size = 0
  <1>8. ASSUME NEW x \in DOMAIN u PROVE Fine(u[x])
    <2>1. CASE x = n + 1
      <3>1. u[x] = e
        BY <1>5, <2>1
      <3>2. Fine(e)
        BY <1>1, <1>6
      <3> QED BY <3>1, <3>2
    <2>2. CASE x # n + 1
      <3>1. x \in DOMAIN v /\ u[x] = v[x]
        BY <1>3, <1>5, <2>2
      <3>2. v[x] \in BlockType
        BY <1>3, <3>1
      <3>3. Past(v[x]) \in Int
        BY <3>2 DEF BlockType, Past
      <3>4. Past(v[x]) <= addr + 2 * h
        BY <1>3, <3>1, <3>3
      <3> QED BY <1>3, <3>1, <3>4
    <2> QED BY <2>1, <2>2
  <1>9. ASSUME NEW page \in Int, addr + sz <= page, page < addr + 2 * h
        PROVE  \E x \in DOMAIN u : Has(u[x], page)
    <2>1. CASE page < addr + h
      <3>1. PICK x \in DOMAIN v : Has(v[x], page)
        BY <1>3, <1>9, <2>1
      <3>2. x \in DOMAIN u /\ u[x] = v[x]
        BY <1>3, <1>5
      <3> QED BY <3>1, <3>2
    <2>2. CASE ~(page < addr + h)
      <3>1. Has(e, page)
        BY <1>1, <1>9, <2>2 DEF Has
      <3>2. n + 1 \in DOMAIN u /\ u[n + 1] = e
        BY <1>3, <1>5
      <3> QED BY <3>1, <3>2
    <2> QED BY <2>1, <2>2
  <1>10. Block(addr, 2 * h).addr = addr /\ Past(Block(addr, 2 * h)) = addr + 2 * h
    BY BlockFields DEF Past
  <1>11. Halving(u, Block(addr, 2 * h), sz, base)
    BY <1>4, <1>7, <1>8, <1>9, <1>10 DEF Halving
  <1> QED BY <1>11 DEF u, s, e

(* The half of a larger power of two is still as large. *)
LEMMA HalfStill ==
  ASSUME NEW a \in Nat, NEW h \in Nat, IsPow2(a), IsPow2(h), a < 2 * h
  PROVE  a <= h
  <1> SUFFICES ASSUME h < a PROVE FALSE
    OBVIOUS
  <1>1. PICK c \in Nat : a = h * c /\ IsPow2(c)
    BY Divides
  <1>2. h \in Nat \ {0}
    BY DEF IsPow2
  <1>3. CASE c <= 1
    <2>1. h * c <= h * 1
      BY <1>2, <1>3, Monotone
    <2> QED BY <1>1, <2>1
  <1>4. CASE 2 <= c
    <2>1. h * 2 <= h * c
      BY <1>2, <1>4, Monotone
    <2> QED BY <1>1, <2>1
  <1> QED BY <1>3, <1>4

LEMMA HalvesFacts ==
  ASSUME NEW b \in BlockType, NEW sz \in Nat \ {0}, NEW base \in Nat,
         IsPow2(sz), IsPow2(b.size), sz <= b.size, base <= b.addr,
         (b.addr - base) % b.size = 0
  PROVE  Halving(UpperHalves(b, sz, base), b, sz, base)
  <1> DEFINE addr == b.addr
             Off(s) == Multiple(addr - base, s)
  <1>1. PICK f \in [Nat -> Seq(BlockType)] : HalvesFunction(f, b, sz, base)
    BY HalvesEquation
  <1>2. addr \in Nat /\ addr \in Int /\ base <= addr /\ addr - base \in Nat /\ b.size \in Nat \ {0}
    <2>1. addr \in Int /\ b.size \in Nat \ {0} /\ base <= addr
      BY DEF BlockType
    <2> HIDE DEF addr
    <2> QED BY <2>1
  <1>3. Off(b.size)
    <2> DEFINE d == addr - base
    <2>1. d \in Nat /\ d % b.size = 0
      BY <1>2
    <2> HIDE DEF d
    <2>2. Multiple(d, b.size)
      BY <1>2, <2>1, NoRemainder
    <2> QED BY <2>2 DEF d
  <1> DEFINE S == {s \in Nat : IsPow2(s) /\ sz <= s /\ Off(s) => Halving(f[s], Block(addr, s), sz, base)}
  <1>4. ASSUME NEW s \in Nat, \A r \in 0..(s - 1) : r \in S PROVE s \in S
    <2> SUFFICES ASSUME IsPow2(s), sz <= s, Off(s) PROVE Halving(f[s], Block(addr, s), sz, base)
      OBVIOUS
    <2>1. CASE s = sz
      <3>1. f[s] = <<>>
        BY <1>1, <2>1 DEF HalvesFunction
      <3>2. Halving(<<>>, Block(addr, sz), sz, base)
        <4> HIDE DEF addr
        <4> QED BY <1>2, NothingLeft
      <3> QED BY <2>1, <3>1, <3>2
    <2>2. CASE s # sz
      <3>1. s # 1
        BY <2>2
      <3>2. PICK h \in Nat : s = 2 * h /\ h = s \div 2 /\ IsPow2(h) /\ h < s /\ h > 0
        BY <3>1, Halved
      <3>3. sz <= h
        BY <2>2, <3>2, HalfStill
      <3>4. Off(h)
        <4> DEFINE d == addr - base
        <4>1. Multiple(d, s) /\ d \in Nat /\ h <= s
          BY <1>2, <3>2
        <4> HIDE DEF d
        <4>2. Multiple(d, h)
          BY <3>2, <4>1, MultipleOf
        <4> QED BY <4>2 DEF d
      <3>5. h \in S
        BY <1>4, <3>2
      <3>6. Halving(f[h], Block(addr, h), sz, base)
        BY <3>2, <3>3, <3>4, <3>5
      <3>7. Buddy(addr, h, base) = addr + h
        <4>1. Multiple(addr - base, 2 * h) /\ h \in Nat \ {0}
          BY <3>2
        <4> HIDE DEF addr
        <4> QED BY <1>2, <4>1, UpperBuddy
      <3>8. f[s] = f[h] \o <<Block(addr + h, h)>>
        <4>1. f[s] = f[s \div 2] \o <<Block(Buddy(addr, s \div 2, base), s \div 2)>>
          <5>1. ~(s <= sz)
            BY <2>2
          <5> QED BY <1>1, <5>1 DEF HalvesFunction
        <4> QED BY <3>2, <3>7, <4>1
      <3>9. Halving(f[h] \o <<Block(addr + h, h)>>, Block(addr, 2 * h), sz, base)
        <4> DEFINE v == f[h]
        <4>1. Halving(v, Block(addr, h), sz, base) /\ h \in Nat \ {0} /\ Multiple(addr - base, 2 * h)
          BY <3>2, <3>6
        <4> HIDE DEF v
        <4>2. Halving(v \o <<Block(addr + h, h)>>, Block(addr, 2 * h), sz, base)
          BY <1>2, <3>2, <3>3, <4>1, HalfLeft
        <4> QED BY <4>2 DEF v
      <3> QED BY <3>2, <3>8, <3>9
    <2> QED BY <2>1, <2>2
  <1>5. \A s \in Nat : s \in S
    <2> HIDE DEF S
    <2> QED BY <1>4, FromSmaller
  <1>6. Halving(f[b.size], Block(addr, b.size), sz, base)
    BY <1>2, <1>3, <1>5
  <1>7. Block(addr, b.size) = b
    BY DEF Block, BlockType
  <1> QED BY <1>1, <1>6, <1>7 DEF HalvesFunction
=============================================================================
