---------------------------- MODULE Kalloc_proofs ----------------------------
(***************************************************************************)
(* For any number of CPUs, any page size, any request sizes and any number *)
(* of pages: the blocks of the heap never overlap, they always tile what   *)
(* page_alloc gave, and exactly the blocks that are held have their canary.*)
(***************************************************************************)
EXTENDS Kalloc, SequenceTheorems, WellFoundedInduction, TLAPS

(* A nonempty set of numbers has a smallest one. *)
LEMMA LeastOf ==
  ASSUME NEW T \in SUBSET Nat, T # {}
  PROVE  Least(T) \in T /\ \A k \in T : Least(T) <= k
  <1>1. PICK m \in T : \A k \in T : ~(<<k, m>> \in OpToRel(<, Nat))
    BY NatLessThanWellFounded, WFMin
  <1>2. ASSUME NEW k \in T, k < m PROVE FALSE
    <2>1. <<k, m>> \in OpToRel(<, Nat)
      BY <1>2 DEF OpToRel
    <2> QED BY <1>1, <2>1, Zenon
  <1>3. \E x \in T : \A y \in T : x <= y
    BY <1>2
  <1> QED BY <1>3 DEF Least

(* Induction for a set of numbers, from all smaller numbers. *)
LEMMA FromSmaller ==
  ASSUME NEW G, \A n \in Nat : (\A m \in 0..(n - 1) : m \in G) => n \in G
  PROVE  \A n \in Nat : n \in G
  <1> DEFINE B == {n \in Nat : n \notin G}
  <1> SUFFICES ASSUME B # {} PROVE FALSE
    OBVIOUS
  <1>0. B \in SUBSET Nat
    OBVIOUS
  <1>1. Least(B) \in B /\ \A k \in B : Least(B) <= k
    <2> HIDE DEF B
    <2> QED BY <1>0, LeastOf
  <1>2. Least(B) \in Nat /\ \A m \in 0..(Least(B) - 1) : m \in G
    BY <1>1
  <1> QED BY <1>1, <1>2

-----------------------------------------------------------------------------
(* next_pow2 is defined for every number: its recursion goes to smaller ones.
   Halves(f, n) says that f computes it up to n. *)
Half(x) == (x + 1) \div 2
Halves(f, n) ==
  /\ f \in [0..n -> Nat]
  /\ \A x \in 0..n : f[x] = IF x < 2 THEN x ELSE 2 * f[Half(x)]

LEMMA HalfFacts ==
  ASSUME NEW x \in Nat, x >= 2
  PROVE  Half(x) \in 1..(x - 1) /\ 2 * Half(x) >= x
  BY DEF Half

LEMMA HalvesUnique ==
  ASSUME NEW m \in Nat, NEW n \in Nat, NEW f, NEW g, Halves(f, m), Halves(g, n)
  PROVE  \A x \in Nat : x <= m /\ x <= n => f[x] = g[x]
  <1> DEFINE G == {x \in Nat : x <= m /\ x <= n => f[x] = g[x]}
  <1>1. ASSUME NEW x \in Nat, \A y \in 0..(x - 1) : y \in G PROVE x \in G
    <2> SUFFICES ASSUME x <= m, x <= n PROVE f[x] = g[x]
      OBVIOUS
    <2>1. CASE x < 2
      BY <2>1 DEF Halves
    <2>2. CASE x >= 2
      <3>1. Half(x) \in 0..(x - 1) /\ Half(x) <= m /\ Half(x) <= n /\ Half(x) \in Nat
        BY <2>2, HalfFacts
      <3>2. f[Half(x)] = g[Half(x)]
        BY <1>1, <3>1
      <3> QED BY <2>2, <3>2 DEF Halves
    <2> QED BY <2>1, <2>2
  <1>2. \A x \in Nat : x \in G
    <2> HIDE DEF G
    <2> QED BY <1>1, FromSmaller
  <1> QED BY <1>2

LEMMA HalvesExist == \A n \in Nat : \E f : Halves(f, n)
  <1> DEFINE G == {n \in Nat : \E f : Halves(f, n)}
  <1>1. ASSUME NEW n \in Nat, \A m \in 0..(n - 1) : m \in G PROVE n \in G
    <2>1. CASE n = 0
      <3>1. Halves([x \in 0..0 |-> 0], 0)
        BY DEF Halves
      <3> QED BY <2>1, <3>1
    <2>2. CASE n > 0
      <3>1. PICK f : Halves(f, n - 1)
        BY <1>1, <2>2
      <3> DEFINE last == IF n < 2 THEN n ELSE 2 * f[Half(n)]
                 g == [x \in 0..n |-> IF x = n THEN last ELSE f[x]]
      <3>2. n >= 2 => f[Half(n)] \in Nat
        BY <3>1, HalfFacts DEF Halves
      <3>3. last \in Nat
        BY <3>2
      <3> HIDE DEF last
      <3>4. g \in [0..n -> Nat] /\ g[n] = last /\ \A x \in 0..(n - 1) : g[x] = f[x]
        BY <2>2, <3>1, <3>3 DEF Halves
      <3> HIDE DEF g
      <3>5. ASSUME NEW x \in 0..n PROVE g[x] = IF x < 2 THEN x ELSE 2 * g[Half(x)]
        <4>1. x >= 2 => Half(x) \in 0..(n - 1)
          BY HalfFacts
        <4>2. x >= 2 => g[Half(x)] = f[Half(x)]
          BY <3>4, <4>1
        <4>3. CASE x = n
          BY <3>4, <4>2, <4>3 DEF last
        <4>4. CASE x < n
          <5>1. f[x] = IF x < 2 THEN x ELSE 2 * f[Half(x)]
            BY <3>1, <4>4 DEF Halves
          <5>2. g[x] = f[x]
            BY <3>4, <4>4
          <5> QED BY <4>2, <5>1, <5>2
        <4> QED BY <4>3, <4>4
      <3>6. Halves(g, n)
        BY <3>4, <3>5 DEF Halves
      <3> QED BY <3>6
    <2> QED BY <2>1, <2>2
  <1>2. \A n \in Nat : n \in G
    <2> HIDE DEF G
    <2> QED BY <1>1, FromSmaller
  <1> QED BY <1>2

LEMMA NextPow2 ==
  \A x \in Nat : next_pow2[x] = IF x < 2 THEN x ELSE 2 * next_pow2[Half(x)]
  <1> DEFINE fn(n) == CHOOSE f : Halves(f, n)
             h == [x \in Nat |-> fn(x)[x]]
  <1>1. \A n \in Nat : Halves(fn(n), n)
    BY HalvesExist
  <1> HIDE DEF fn
  <1>2. ASSUME NEW x \in Nat PROVE h[x] = IF x < 2 THEN x ELSE 2 * h[Half(x)]
    <2>1. fn(x)[x] = IF x < 2 THEN x ELSE 2 * fn(x)[Half(x)]
      BY <1>1 DEF Halves
    <2>2. ASSUME x >= 2 PROVE Half(x) \in Nat /\ fn(x)[Half(x)] = fn(Half(x))[Half(x)]
      <3>1. Half(x) \in Nat /\ Half(x) <= x
        BY <2>2, HalfFacts
      <3> QED BY <1>1, <3>1, HalvesUnique
    <2> QED BY <2>1, <2>2
  <1>3. h = [x \in Nat |-> IF x < 2 THEN x ELSE 2 * h[(x + 1) \div 2]]
    BY <1>2 DEF Half
  <1>4. next_pow2 = [x \in Nat |-> IF x < 2 THEN x ELSE 2 * next_pow2[(x + 1) \div 2]]
    BY <1>3 DEF next_pow2
  <1> QED BY <1>4 DEF Half

(* next_pow2 never rounds down. *)
LEMMA NextPow2Above == \A x \in Nat : next_pow2[x] \in Nat /\ next_pow2[x] >= x
  <1> DEFINE G == {x \in Nat : next_pow2[x] \in Nat /\ next_pow2[x] >= x}
  <1>1. ASSUME NEW x \in Nat, \A y \in 0..(x - 1) : y \in G PROVE x \in G
    <2>1. CASE x < 2
      BY <2>1, NextPow2
    <2>2. CASE x >= 2
      <3>1. Half(x) \in 0..(x - 1) /\ Half(x) \in Nat /\ 2 * Half(x) >= x
        BY <2>2, HalfFacts
      <3>2. next_pow2[Half(x)] \in Nat /\ next_pow2[Half(x)] >= Half(x)
        BY <1>1, <3>1
      <3>3. next_pow2[x] = 2 * next_pow2[Half(x)]
        BY <2>2, NextPow2
      <3> QED BY <3>1, <3>2, <3>3
    <2> QED BY <2>1, <2>2
  <1>2. \A x \in Nat : x \in G
    <2> HIDE DEF G
    <2> QED BY <1>1, FromSmaller
  <1> QED BY <1>2

-----------------------------------------------------------------------------
(* Blocks and the memory they span. *)
LEMMA BlockFacts ==
  ASSUME NEW b \in BlockType
  PROVE  /\ b.addr \in Nat /\ b.size \in Nat
         /\ End(b) \in Nat /\ End(b) = b.addr + 1 + b.size
         /\ b.addr \in Span(b) /\ End(b) - 1 \in Span(b)
         /\ \A x : x \in Span(b) <=> x \in Nat /\ b.addr <= x /\ x < End(b)
  <1>1. b.addr \in Nat /\ b.size \in Nat
    BY DEF BlockType
  <1>2. End(b) \in Nat /\ End(b) = b.addr + 1 + b.size
    BY <1>1 DEF End, HDR
  <1> QED BY <1>1, <1>2 DEF Span

LEMMA MadeBlock ==
  ASSUME NEW a \in Nat, NEW s \in Nat
  PROVE  /\ Block(a, s) \in BlockType
         /\ Block(a, s).addr = a /\ Block(a, s).size = s /\ End(Block(a, s)) = a + 1 + s
  BY DEF Block, BlockType, End, HDR

(* A merge spans what the two blocks span. *)
LEMMA AbsorbFacts ==
  ASSUME NEW b \in BlockType, NEW n \in BlockType, End(b) = n.addr
  PROVE  /\ Absorb(b, n) \in BlockType
         /\ Absorb(b, n).addr = b.addr
         /\ Span(Absorb(b, n)) = Span(b) \cup Span(n)
  <1> DEFINE m == Absorb(b, n)
  <1>1. b.size + n.size + HDR \in Nat /\ b.addr \in Nat
    BY BlockFacts DEF HDR
  <1>2. m \in BlockType /\ m.addr = b.addr /\ End(m) = b.addr + 1 + (b.size + n.size + HDR)
    BY <1>1, MadeBlock DEF Absorb
  <1>3. End(m) = End(n)
    BY <1>2, BlockFacts DEF HDR
  <1> HIDE DEF m
  <1>4. \A x : x \in Span(m) <=> x \in Span(b) \/ x \in Span(n)
    <2>1. \A x : x \in Span(m) <=> x \in Nat /\ b.addr <= x /\ x < End(n)
      BY <1>2, <1>3, BlockFacts
    <2>2. \A x : x \in Span(b) <=> x \in Nat /\ b.addr <= x /\ x < n.addr
      BY BlockFacts
    <2>3. \A x : x \in Span(n) <=> x \in Nat /\ n.addr <= x /\ x < End(n)
      BY BlockFacts
    <2>4. b.addr \in Nat /\ n.addr \in Nat /\ End(n) \in Nat /\ b.addr <= n.addr /\ n.addr <= End(n)
      BY BlockFacts
    <2> QED BY <2>1, <2>2, <2>3, <2>4
  <1> QED BY <1>2, <1>4 DEF m

(* The memory of a list of blocks, and that its blocks do not overlap. *)
Cover(l) == UNION {Span(l[i]) : i \in DOMAIN l}
Apart(l) == \A i, j \in DOMAIN l : i # j => Span(l[i]) \cap Span(l[j]) = {}

LEMMA ListFacts ==
  ASSUME NEW l \in Seq(BlockType)
  PROVE  /\ Len(l) \in Nat /\ DOMAIN l = 1..Len(l)
         /\ \A i \in 1..Len(l) : l[i] \in BlockType
         /\ \A x : x \in Cover(l) <=> \E i \in 1..Len(l) : x \in Span(l[i])
  <1>1. Len(l) \in Nat /\ DOMAIN l = 1..Len(l) /\ \A i \in 1..Len(l) : l[i] \in BlockType
    BY LenProperties, ElementOfSeq
  <1> QED BY <1>1 DEF Cover

(* Replacing the blocks after the first a and before the z-th by m. *)
Splice(l, a, m, z) == SubSeq(l, 1, a) \o <<m>> \o SubSeq(l, z, Len(l))

LEMMA SpliceIndex ==
  ASSUME NEW l \in Seq(BlockType), NEW m \in BlockType,
         NEW a \in 0..Len(l), NEW z \in (a + 1)..(Len(l) + 1)
  PROVE  /\ Splice(l, a, m, z) \in Seq(BlockType)
         /\ Len(Splice(l, a, m, z)) = a + 2 + Len(l) - z
         /\ \A i \in 1..a : Splice(l, a, m, z)[i] = l[i]
         /\ Splice(l, a, m, z)[a + 1] = m
         /\ \A i \in z..Len(l) : Splice(l, a, m, z)[i + a + 2 - z] = l[i]
         /\ \A i \in (a + 2)..(a + 2 + Len(l) - z) : Splice(l, a, m, z)[i] = l[i + z - a - 2]
  <1> DEFINE p == SubSeq(l, 1, a)
             s == SubSeq(l, z, Len(l))
             q == p \o <<m>>
             r == q \o s
  <1>0. Len(l) \in Nat /\ \A i \in 1..Len(l) : l[i] \in BlockType
    BY ListFacts
  <1>1. p \in Seq(BlockType) /\ Len(p) = a /\ \A i \in 1..a : p[i] = l[i]
    <2>1. /\ p \in Seq(BlockType) /\ Len(p) = (IF 1 <= a THEN a - 1 + 1 ELSE 0)
          /\ \A i \in 1..(a - 1 + 1) : p[i] = l[1 + i - 1]
      BY <1>0, SubSeqProperties
    <2> QED BY <1>0, <2>1
  <1>2. /\ s \in Seq(BlockType) /\ Len(s) = Len(l) - z + 1
        /\ \A i \in 1..(Len(l) - z + 1) : s[i] = l[z + i - 1]
    <2>1. /\ s \in Seq(BlockType) /\ Len(s) = (IF z <= Len(l) THEN Len(l) - z + 1 ELSE 0)
          /\ \A i \in 1..(Len(l) - z + 1) : s[i] = l[z + i - 1]
      <3>1. \A i \in z..Len(l) : l[i] \in BlockType
        BY <1>0
      <3>2. z \in Int /\ Len(l) \in Int
        BY <1>0
      <3> QED BY <3>1, <3>2, SubSeqProperties
    <2> QED BY <1>0, <2>1
  <1>3. <<m>> \in Seq(BlockType) /\ Len(<<m>>) = 1 /\ <<m>>[1] = m
    OBVIOUS
  <1> HIDE DEF p, s
  <1>4. /\ q \in Seq(BlockType) /\ Len(q) = a + 1
        /\ \A i \in 1..(a + 1) : q[i] = IF i <= a THEN p[i] ELSE <<m>>[i - a]
    BY <1>1, <1>3, ConcatProperties
  <1>5. q[a + 1] = m /\ \A i \in 1..a : q[i] = l[i]
    <2>1. a + 1 \in 1..(a + 1) /\ ~(a + 1 <= a) /\ a + 1 - a = 1
      BY <1>0
    <2> QED BY <1>0, <1>1, <1>3, <1>4, <2>1
  <1> HIDE DEF q
  <1>6. /\ r \in Seq(BlockType) /\ Len(r) = a + 1 + (Len(l) - z + 1)
        /\ \A i \in 1..(a + 1 + (Len(l) - z + 1)) : r[i] = IF i <= a + 1 THEN q[i] ELSE s[i - (a + 1)]
    <2>1. q \in Seq(BlockType) /\ s \in Seq(BlockType)
      BY <1>2, <1>4
    <2>2. /\ r \in Seq(BlockType) /\ Len(r) = Len(q) + Len(s)
          /\ \A i \in 1..(Len(q) + Len(s)) : r[i] = IF i <= Len(q) THEN q[i] ELSE s[i - Len(q)]
      BY <2>1, ConcatProperties
    <2>3. Len(q) = a + 1 /\ Len(s) = Len(l) - z + 1
      BY <1>2, <1>4
    <2> HIDE DEF r
    <2> QED BY <2>2, <2>3
  <1> HIDE DEF r
  <1>7. \A i \in 1..(a + 1) : r[i] = q[i]
    BY <1>0, <1>6
  <1>8. ASSUME NEW i \in (a + 2)..(a + 2 + Len(l) - z) PROVE r[i] = l[i + z - a - 2]
    <2>1. i \in 1..(a + 1 + (Len(l) - z + 1)) /\ ~(i <= a + 1) /\ i - (a + 1) \in 1..(Len(l) - z + 1)
          /\ z + (i - (a + 1)) - 1 = i + z - a - 2
      BY <1>0
    <2>2. r[i] = s[i - (a + 1)]
      BY <1>6, <2>1
    <2>3. s[i - (a + 1)] = l[z + (i - (a + 1)) - 1]
      BY <1>2, <2>1
    <2> QED BY <2>1, <2>2, <2>3
  <1>9. ASSUME NEW i \in z..Len(l) PROVE r[i + a + 2 - z] = l[i]
    <2>1. i + a + 2 - z \in (a + 2)..(a + 2 + Len(l) - z) /\ (i + a + 2 - z) + z - a - 2 = i
      BY <1>0
    <2> QED BY <1>8, <2>1
  <1>10. Splice(l, a, m, z) = r
    BY DEF Splice, r, q, p, s
  <1>11. Len(r) = a + 2 + Len(l) - z
    BY <1>0, <1>6
  <1>12. \A i \in 1..a : r[i] = l[i]
    BY <1>0, <1>5, <1>7
  <1>13. r[a + 1] = m
    BY <1>0, <1>5, <1>7
  <1> QED BY <1>6, <1>8, <1>9, <1>10, <1>11, <1>12, <1>13

(* m spans A and the blocks it replaces. *)
Replaces(m, l, a, z, A) ==
  \A x : x \in Span(m) <=> x \in A \/ \E i \in (a + 1)..(z - 1) : x \in Span(l[i])

LEMMA SpliceFacts ==
  ASSUME NEW l \in Seq(BlockType), Apart(l), NEW m \in BlockType,
         NEW a \in 0..Len(l), NEW z \in (a + 1)..(Len(l) + 1),
         NEW A, A \cap Cover(l) = {}, Replaces(m, l, a, z, A)
  PROVE  /\ Splice(l, a, m, z) \in Seq(BlockType)
         /\ Apart(Splice(l, a, m, z))
         /\ Cover(Splice(l, a, m, z)) = Cover(l) \cup A
  <1> DEFINE r == Splice(l, a, m, z)
             From(i) == IF i <= a THEN i ELSE i + z - a - 2
             To(j) == IF j <= a THEN j ELSE j + a + 2 - z
             Kept == {j \in 1..Len(l) : j <= a \/ z <= j}
  <1>0. Len(l) \in Nat /\ a \in Nat /\ z \in Nat /\ a < z /\ z <= Len(l) + 1 /\ a <= Len(l)
    BY ListFacts
  <1>1. r \in Seq(BlockType) /\ Len(r) = a + 2 + Len(l) - z
    BY SpliceIndex
  <1>2. DOMAIN r = 1..Len(r) /\ \A x : x \in Cover(r) <=> \E i \in 1..Len(r) : x \in Span(r[i])
    BY <1>1, ListFacts
  <1>3. DOMAIN l = 1..Len(l) /\ \A x : x \in Cover(l) <=> \E i \in 1..Len(l) : x \in Span(l[i])
    BY ListFacts
  <1>4. r[a + 1] = m /\ a + 1 \in 1..Len(r)
    BY <1>0, <1>1, SpliceIndex
  <1>5. ASSUME NEW i \in 1..Len(r), i # a + 1
        PROVE  From(i) \in Kept /\ r[i] = l[From(i)]
    <2>1. CASE i <= a
      <3>1. i \in 1..a
        BY <1>0, <2>1
      <3>2. r[i] = l[i]
        BY <3>1, SpliceIndex
      <3> QED BY <1>0, <2>1, <3>2
    <2>2. CASE i > a
      <3>1. i \in (a + 2)..(a + 2 + Len(l) - z)
        BY <1>0, <1>1, <1>5, <2>2
      <3>2. r[i] = l[i + z - a - 2]
        BY <3>1, SpliceIndex
      <3>3. From(i) = i + z - a - 2 /\ From(i) \in Kept
        BY <1>0, <2>2, <3>1
      <3> QED BY <3>2, <3>3
    <2> QED BY <1>0, <2>1, <2>2
  <1>6. ASSUME NEW j \in Kept
        PROVE  To(j) \in 1..Len(r) /\ r[To(j)] = l[j]
    <2>1. CASE j <= a
      <3>1. j \in 1..a
        BY <1>0, <2>1
      <3>2. r[j] = l[j]
        BY <3>1, SpliceIndex
      <3> QED BY <1>0, <1>1, <2>1, <3>2
    <2>2. CASE j > a
      <3>1. j \in z..Len(l)
        BY <1>0, <2>2
      <3>2. r[j + a + 2 - z] = l[j]
        BY <3>1, SpliceIndex
      <3>3. To(j) = j + a + 2 - z /\ To(j) \in 1..Len(r)
        BY <1>0, <1>1, <2>2, <3>1
      <3> QED BY <3>2, <3>3
    <2> QED BY <1>0, <2>1, <2>2
  <1>7. ASSUME NEW i \in 1..Len(r), NEW j \in 1..Len(r), i # a + 1, j # a + 1, i # j
        PROVE  From(i) # From(j)
    BY <1>0, <1>1, <1>7
  <1>8. \A j \in 1..Len(l) : j \in Kept \/ j \in (a + 1)..(z - 1)
    BY <1>0
  <1>9. \A j \in (a + 1)..(z - 1) : j \notin Kept /\ j \in 1..Len(l)
    BY <1>0
  <1>10. Kept \subseteq 1..Len(l)
    OBVIOUS
  <1> HIDE DEF r, From, To, Kept
  <1>11. ASSUME NEW i \in 1..Len(r), i # a + 1, NEW x \in Span(r[i]) PROVE x \notin Span(m)
    <2>1. From(i) \in 1..Len(l) /\ From(i) \in Kept /\ x \in Span(l[From(i)])
      BY <1>5, <1>10, <1>11
    <2>2. x \notin A
      BY <1>3, <2>1
    <2>3. ASSUME NEW j \in (a + 1)..(z - 1) PROVE x \notin Span(l[j])
      BY <1>3, <1>9, <2>1 DEF Apart
    <2> QED BY <2>2, <2>3 DEF Replaces
  <1>12. ASSUME NEW i \in 1..Len(r), NEW j \in 1..Len(r), i # j, NEW x \in Span(r[i])
         PROVE  x \notin Span(r[j])
    <2>1. CASE i = a + 1
      BY <1>4, <1>11, <1>12, <2>1
    <2>2. CASE j = a + 1
      BY <1>4, <1>11, <1>12, <2>2
    <2>3. CASE i # a + 1 /\ j # a + 1
      <3>1. r[i] = l[From(i)] /\ r[j] = l[From(j)] /\ From(i) # From(j)
        BY <1>5, <1>7, <1>12, <2>3
      <3>2. From(i) \in DOMAIN l /\ From(j) \in DOMAIN l
        BY <1>3, <1>5, <1>10, <2>3
      <3> QED BY <1>12, <3>1, <3>2 DEF Apart
    <2> QED BY <2>1, <2>2, <2>3
  <1>13. Apart(r)
    BY <1>2, <1>12 DEF Apart
  <1>14. ASSUME NEW x PROVE x \in Cover(r) <=> x \in Cover(l) \/ x \in A
    <2>1. ASSUME NEW i \in 1..Len(r), x \in Span(r[i]) PROVE x \in Cover(l) \/ x \in A
      <3>1. CASE i = a + 1
        BY <1>3, <1>4, <1>9, <2>1, <3>1 DEF Replaces
      <3>2. CASE i # a + 1
        BY <1>3, <1>5, <1>10, <2>1, <3>2
      <3> QED BY <3>1, <3>2
    <2>2. ASSUME x \in A PROVE x \in Cover(r)
      BY <1>2, <1>4, <2>2 DEF Replaces
    <2>3. ASSUME NEW j \in 1..Len(l), x \in Span(l[j]) PROVE x \in Cover(r)
      <3>1. CASE j \in Kept
        BY <1>2, <1>6, <2>3, <3>1
      <3>2. CASE j \in (a + 1)..(z - 1)
        BY <1>2, <1>4, <2>3, <3>2 DEF Replaces
      <3> QED BY <1>8, <3>1, <3>2
    <2> QED BY <1>2, <1>3, <2>1, <2>2, <2>3
  <1> QED BY <1>1, <1>13, <1>14 DEF r

(* insert_block adds the memory of the new block to the list, whatever it
   merges, and keeps the blocks of the list apart. *)
LEMMA InsertFacts ==
  ASSUME NEW l \in Seq(BlockType), Apart(l), NEW new \in BlockType, Span(new) \cap Cover(l) = {}
  PROVE  /\ InsertBlock(l, new) \in Seq(BlockType)
         /\ Apart(InsertBlock(l, new))
         /\ Cover(InsertBlock(l, new)) = Cover(l) \cup Span(new)
         /\ (\A i \in 1..Len(l) : End(l[i]) # new.addr)
              => \E i \in 1..Len(InsertBlock(l, new)) : InsertBlock(l, new)[i].addr = new.addr
  <1>0. Len(l) \in Nat /\ \A i \in 1..Len(l) : l[i] \in BlockType
    BY ListFacts
  <1>1. CASE l = <<>>
    <2>1. InsertBlock(l, new) = <<new>>
      BY <1>1 DEF InsertBlock
    <2>2. <<new>> \in Seq(BlockType) /\ Len(<<new>>) = 1 /\ DOMAIN <<new>> = {1} /\ <<new>>[1] = new
      OBVIOUS
    <2>3. Cover(l) = {}
      BY <1>1 DEF Cover
    <2>4. Cover(<<new>>) = Span(new) /\ Apart(<<new>>)
      BY <2>2 DEF Cover, Apart
    <2>5. 1 \in 1..Len(<<new>>) /\ <<new>>[1].addr = new.addr
      BY <2>2
    <2> QED BY <2>1, <2>2, <2>3, <2>4, <2>5
  <1>2. CASE l # <<>>
    <2> DEFINE k == Stop(l, new)
               below == End(l[k - 1]) = new.addr
               b == IF below THEN Absorb(l[k - 1], new) ELSE new
               above == k <= Len(l) /\ End(b) = l[k].addr
               m == IF above THEN Absorb(b, l[k]) ELSE b
               a == IF below THEN k - 2 ELSE k - 1
               z == IF above THEN k + 1 ELSE k
    <2>0. InsertBlock(l, new) = Splice(l, a, m, z)
      BY <1>2 DEF InsertBlock, Splice
    <2>1. k \in 2..(Len(l) + 1)
      <3> DEFINE T == {i \in 2..Len(l) : ~(new.addr < l[i].addr)} \cup {Len(l) + 1}
      <3>1. Len(l) > 0
        BY <1>0, <1>2, EmptySeq
      <3>2. T \in SUBSET Nat /\ T # {} /\ T \subseteq 2..(Len(l) + 1)
        BY <1>0, <3>1
      <3>3. Least(T) \in T
        <4> HIDE DEF T
        <4> QED BY <3>2, LeastOf
      <3>4. k = Least(T)
        BY DEF Stop
      <3> QED BY <3>2, <3>3, <3>4
    <2> HIDE DEF k
    <2>2. l[k - 1] \in BlockType /\ (k <= Len(l) => l[k] \in BlockType) /\ k \in Nat
      BY <1>0, <2>1
    <2>3. /\ b \in BlockType /\ (~below => b.addr = new.addr)
          /\ Span(b) = Span(new) \cup (IF below THEN Span(l[k - 1]) ELSE {})
      BY <2>2, AbsorbFacts
    <2> HIDE DEF b
    <2>4. /\ m \in BlockType /\ m.addr = b.addr
          /\ Span(m) = Span(b) \cup (IF above THEN Span(l[k]) ELSE {})
      BY <2>2, <2>3, AbsorbFacts
    <2>5. a \in 0..Len(l) /\ z \in (a + 1)..(Len(l) + 1) /\ a \in Nat
      BY <1>0, <2>1
    <2>6. (a + 1)..(z - 1) = (IF below THEN {k - 1} ELSE {}) \cup (IF above THEN {k} ELSE {})
      BY <1>0, <2>1
    <2> HIDE DEF above, m, a, z
    <2>7. Replaces(m, l, a, z, Span(new))
      <3>1. ASSUME NEW x
            PROVE  x \in Span(m) <=> x \in Span(new) \/ \E i \in (a + 1)..(z - 1) : x \in Span(l[i])
        BY <2>3, <2>4, <2>6
      <3> QED BY <3>1 DEF Replaces
    <2>8. /\ Splice(l, a, m, z) \in Seq(BlockType) /\ Apart(Splice(l, a, m, z))
          /\ Cover(Splice(l, a, m, z)) = Cover(l) \cup Span(new)
      BY <2>4, <2>5, <2>7, SpliceFacts
    <2>9. ASSUME \A i \in 1..Len(l) : End(l[i]) # new.addr
          PROVE  \E i \in 1..Len(Splice(l, a, m, z)) : Splice(l, a, m, z)[i].addr = new.addr
      <3>1. ~below
        BY <1>0, <2>1, <2>9
      <3>2. Splice(l, a, m, z)[a + 1] = m /\ a + 1 \in 1..Len(Splice(l, a, m, z))
        BY <1>0, <2>4, <2>5, SpliceIndex
      <3>3. m.addr = new.addr
        BY <2>3, <2>4, <3>1
      <3> QED BY <3>2, <3>3
    <2> QED BY <2>0, <2>8, <2>9
  <1> QED BY <1>1, <1>2

-----------------------------------------------------------------------------
(* What page_alloc gives for a block of blk units: whole pages that hold it. *)
LEMMA Multiples ==
  ASSUME NEW g \in Nat \ {0}, NEW a \in Int, NEW b \in Int, a <= b
  PROVE  g * a <= g * b
  OBVIOUS

LEMMA Quotient ==
  ASSUME NEW g \in Nat \ {0}, NEW x \in Nat
  PROVE  /\ x \div g \in Nat /\ x % g \in 0..(g - 1)
         /\ x = g * (x \div g) + (x % g)
  <1>1. x % g \in 0..(g - 1)
    OBVIOUS
  <1>2. x = g * (x \div g) + (x % g)
    OBVIOUS
  <1>3. x \div g \in Int
    OBVIOUS
  <1> DEFINE d == x \div g
  <1>4. d >= 0
    <2> SUFFICES ASSUME d <= -1 PROVE FALSE
      BY <1>3
    <2> HIDE DEF d
    <2>1. g * d <= g * (-1)
      BY <1>3, Multiples DEF d
    <2> QED BY <1>1, <1>2, <2>1 DEF d
  <1> QED BY <1>1, <1>2, <1>3, <1>4

LEMMA PagesHold ==
  ASSUME NEW blk \in Nat \ {0}
  PROVE  LET count == (blk + PAGE - 1) \div PAGE
         IN count \in Nat \ {0} /\ blk <= PAGE * count
  <1> DEFINE y == blk + PAGE - 1
             count == y \div PAGE
  <1>1. y \in Nat /\ PAGE \in Nat \ {0} /\ y >= PAGE
    BY KallocAssumption
  <1>2. count \in Nat /\ y % PAGE \in 0..(PAGE - 1) /\ y = PAGE * count + (y % PAGE)
    BY <1>1, Quotient
  <1> DEFINE u == PAGE * count
  <1>3. u \in Nat /\ y = u + (y % PAGE)
    BY <1>1, <1>2
  <1>4. blk <= u
    <2> HIDE DEF u, count
    <2> QED BY <1>1, <1>2, <1>3
  <1>5. count # 0
    BY <1>1, <1>4
  <1> QED BY <1>2, <1>4, <1>5

LEMMA PageOf ==
  ASSUME NEW p \in Nat, NEW count \in Nat, NEW x \in Nat,
         p * PAGE <= x, x < p * PAGE + PAGE * count
  PROVE  x \div PAGE \in p..(p + count - 1)
  <1> DEFINE d == x \div PAGE
  <1>0. PAGE \in Nat \ {0}
    BY KallocAssumption
  <1>1. d \in Nat /\ x % PAGE \in 0..(PAGE - 1) /\ x = PAGE * d + (x % PAGE)
    BY <1>0, Quotient
  <1> HIDE DEF d
  <1>2. PAGE * d \in Nat /\ PAGE * p \in Nat /\ PAGE * count \in Nat /\ p * PAGE = PAGE * p
    BY <1>0, <1>1
  <1>3. d >= p
    <2> SUFFICES ASSUME d <= p - 1 PROVE FALSE
      BY <1>1
    <2>1. PAGE * d <= PAGE * (p - 1)
      BY <1>0, <1>1, Multiples
    <2>2. PAGE * (p - 1) = PAGE * p - PAGE
      BY <1>0
    <2> QED BY <1>0, <1>1, <1>2, <2>1, <2>2
  <1>4. d <= p + count - 1
    <2> SUFFICES ASSUME p + count <= d PROVE FALSE
      BY <1>1
    <2>1. PAGE * (p + count) <= PAGE * d
      BY <1>0, <1>1, Multiples
    <2>2. PAGE * (p + count) = PAGE * p + PAGE * count
      BY <1>0
    <2> QED BY <1>0, <1>1, <1>2, <2>1, <2>2
  <1> QED BY <1>1, <1>3, <1>4 DEF d

-----------------------------------------------------------------------------
(* What an allocation does: the memory of the new block and of the list after
   it is that of the list before it and of the pages that were taken, and the
   unit behind the new block is the header of a free one. *)
Extent(R) == UNION {r[1]..(r[1] + r[2] - 1) : r \in R}

Allocated(l, size, o) ==
  /\ o.got \in BlockType /\ o.got.size = size
  /\ o.list \in Seq(BlockType) /\ Apart(o.list)
  /\ Span(o.got) \cap Cover(o.list) = {}
  /\ Span(o.got) \cup Cover(o.list) = Cover(l) \cup Extent(o.region)
  /\ o.region \subseteq Nat \X Nat
  /\ o.pages \subseteq pages /\ \A x \in Extent(o.region) : x \div PAGE \in o.pages
  /\ \E i \in 1..Len(o.list) : o.list[i].addr = End(o.got)

LEMMA SplitFacts ==
  ASSUME NEW l \in Seq(BlockType), Apart(l), NEW size \in Nat, Fits(l, size) # {}
  PROVE  Allocated(l, size, Split(l, size))
  <1> DEFINE k == Least(Fits(l, size))
             got == Block(l[k].addr, size)
             rest == Block(l[k].addr + HDR + size, l[k].size - size - HDR)
             r == [l EXCEPT ![k] = rest]
             o == Split(l, size)
  <1>0. Len(l) \in Nat /\ DOMAIN l = 1..Len(l) /\ \A i \in 1..Len(l) : l[i] \in BlockType
    BY ListFacts
  <1>1. k \in 1..Len(l) /\ l[k].size >= size + HDR
    <2>1. Fits(l, size) \in SUBSET Nat
      BY <1>0 DEF Fits
    <2>2. k \in Fits(l, size)
      BY <2>1, LeastOf
    <2> QED BY <1>0, <2>2 DEF Fits
  <1>2. o = [got |-> got, list |-> r, region |-> {}, pages |-> {}]
    BY DEF Split
  <1>3. o.got = got /\ o.list = r /\ o.region = {} /\ o.pages = {}
    BY <1>2
  <1> HIDE DEF k, o
  <1>4. l[k] \in BlockType /\ l[k].addr \in Nat /\ l[k].size \in Nat
        /\ End(l[k]) = l[k].addr + 1 + l[k].size
    BY <1>0, <1>1, BlockFacts
  <1>5. /\ got \in BlockType /\ got.addr = l[k].addr /\ got.size = size
        /\ End(got) = l[k].addr + 1 + size
    BY <1>4, MadeBlock
  <1>6. /\ rest \in BlockType /\ rest.addr = End(got) /\ End(rest) = End(l[k])
    <2>1. l[k].addr + HDR + size \in Nat /\ l[k].size - size - HDR \in Nat
      <3>1. \A u, v, w \in Nat : w >= v + 1 => u + 1 + v \in Nat /\ w - v - 1 \in Nat
        OBVIOUS
      <3>2. l[k].size >= size + 1
        BY <1>1 DEF HDR
      <3> QED BY <1>0, <1>4, <3>1, <3>2 DEF HDR
    <2>2. /\ rest \in BlockType /\ rest.addr = l[k].addr + HDR + size
          /\ End(rest) = (l[k].addr + HDR + size) + 1 + (l[k].size - size - HDR)
      BY <2>1, MadeBlock
    <2> HIDE DEF rest, got
    <2>3. l[k].addr + HDR + size = l[k].addr + 1 + size
      BY DEF HDR
    <2>4. (l[k].addr + HDR + size) + 1 + (l[k].size - size - HDR) = l[k].addr + 1 + l[k].size
      <3>1. \A u, v, w \in Nat : (u + 1 + v) + 1 + (w - v - 1) = u + 1 + w
        OBVIOUS
      <3> QED BY <1>4, <3>1 DEF HDR
    <2> QED BY <1>4, <1>5, <2>2, <2>3, <2>4
  <1> HIDE DEF got, rest
  <1>7. ASSUME NEW x PROVE /\ x \in Span(l[k]) <=> x \in Span(got) \/ x \in Span(rest)
                           /\ ~(x \in Span(got) /\ x \in Span(rest))
    <2>1. x \in Span(l[k]) <=> x \in Nat /\ l[k].addr <= x /\ x < End(l[k])
      BY <1>4, BlockFacts
    <2>2. x \in Span(got) <=> x \in Nat /\ l[k].addr <= x /\ x < End(got)
      BY <1>5, BlockFacts
    <2>3. x \in Span(rest) <=> x \in Nat /\ End(got) <= x /\ x < End(l[k])
      BY <1>6, BlockFacts
    <2>4. l[k].addr <= End(got) /\ End(got) <= End(l[k]) /\ End(got) \in Nat /\ End(l[k]) \in Nat
      BY <1>1, <1>4, <1>5 DEF HDR
    <2> QED BY <1>4, <2>1, <2>2, <2>3, <2>4
  <1>8. /\ r \in Seq(BlockType) /\ Len(r) = Len(l) /\ r[k] = rest
        /\ \A i \in 1..Len(l) : i # k => r[i] = l[i]
    BY <1>0, <1>1, <1>6, ExceptSeq
  <1> HIDE DEF r
  <1>9. DOMAIN r = 1..Len(l) /\ \A x : x \in Cover(r) <=> \E i \in 1..Len(l) : x \in Span(r[i])
    BY <1>8, ListFacts
  <1>10. \A x : x \in Cover(l) <=> \E i \in 1..Len(l) : x \in Span(l[i])
    BY ListFacts
  <1>11. \A i \in 1..Len(l) : \A x \in Span(r[i]) : x \in Span(l[i])
    BY <1>7, <1>8
  <1>12. Apart(r)
    BY <1>0, <1>9, <1>11 DEF Apart
  <1>13. ASSUME NEW x \in Span(got) PROVE x \notin Cover(r)
    <2>1. x \in Span(l[k]) /\ x \notin Span(r[k])
      BY <1>7, <1>8
    <2>2. \A i \in 1..Len(l) : i # k => x \notin Span(l[i])
      BY <1>0, <1>1, <2>1 DEF Apart
    <2> QED BY <1>9, <1>11, <2>1, <2>2
  <1>14. ASSUME NEW x PROVE x \in Cover(l) <=> x \in Span(got) \/ x \in Cover(r)
    <2>1. x \in Cover(l) => x \in Span(got) \/ x \in Cover(r)
      BY <1>7, <1>8, <1>9, <1>10
    <2>2. x \in Span(got) => x \in Cover(l)
      BY <1>1, <1>7, <1>10
    <2>3. x \in Cover(r) => x \in Cover(l)
      BY <1>9, <1>10, <1>11
    <2> QED BY <2>1, <2>2, <2>3
  <1>15. Extent(o.region) = {}
    BY <1>3 DEF Extent
  <1>16. Span(got) \cap Cover(r) = {} /\ Span(got) \cup Cover(r) = Cover(l) \cup Extent(o.region)
    BY <1>13, <1>14, <1>15
  <1>17. k \in 1..Len(r) /\ r[k].addr = End(got)
    BY <1>1, <1>6, <1>8
  <1>18. Allocated(l, size, o)
    BY <1>3, <1>5, <1>8, <1>12, <1>15, <1>16, <1>17 DEF Allocated
  <1> QED BY <1>18 DEF o

LEMMA FromPagesFacts ==
  ASSUME NEW l \in Seq(BlockType), Apart(l), pages \subseteq Nat,
         \A x \in Cover(l) : x \div PAGE \notin pages,
         NEW size \in Nat, NEW o \in FromPages(l, size)
  PROVE  Allocated(l, size, o)
  <1> DEFINE blk == next_pow2[size + 2 * HDR]
             count == (blk + PAGE - 1) \div PAGE
             run(q) == q..(q + count - 1)
             rest(q) == Block(q * PAGE + HDR + size, blk - size - 2 * HDR)
  <1>1. PICK p \in pages :
          /\ run(p) \subseteq pages
          /\ o = [got |-> Block(p * PAGE, size), list |-> InsertBlock(l, rest(p)),
                  region |-> {<<p * PAGE, blk>>}, pages |-> run(p)]
    BY DEF FromPages
  <1> DEFINE a == p * PAGE
             got == Block(a, size)
             new == rest(p)
  <1>2. /\ o.got = got /\ o.list = InsertBlock(l, new)
        /\ o.region = {<<a, blk>>} /\ o.pages = run(p)
    BY <1>1
  <1>3. blk \in Nat /\ blk >= size + 2 /\ p \in Nat /\ a \in Nat
    <2>1. size + 2 * HDR \in Nat /\ size + 2 * HDR = size + 2
      BY DEF HDR
    <2>2. a \in Nat /\ p \in Nat
      BY <1>1, KallocAssumption
    <2> QED BY <2>1, <2>2, NextPow2Above
  <1> HIDE DEF blk
  <1>4. count \in Nat \ {0} /\ blk <= PAGE * count
    BY <1>3, PagesHold
  <1> HIDE DEF a
  <1>5. got \in BlockType /\ got.size = size /\ got.addr = a /\ End(got) = a + 1 + size
    BY <1>3, MadeBlock
  <1>6. new \in BlockType /\ new.addr = End(got) /\ End(new) = a + blk
    <2>1. new = Block(a + 1 + size, blk - size - 2)
      BY DEF HDR, a
    <2>2. a + 1 + size \in Nat /\ blk - size - 2 \in Nat
      BY <1>3
    <2>3. \A u, v, w \in Nat : (u + 1 + v) + 1 + (w - v - 2) = u + w
      OBVIOUS
    <2> HIDE DEF new, got
    <2>4. /\ new \in BlockType /\ new.addr = a + 1 + size
          /\ End(new) = (a + 1 + size) + 1 + (blk - size - 2)
      BY <2>1, <2>2, MadeBlock
    <2>5. (a + 1 + size) + 1 + (blk - size - 2) = a + blk
      BY <1>3, <2>3
    <2> QED BY <1>5, <2>4, <2>5
  <1> HIDE DEF got, new
  <1>7. ASSUME NEW x PROVE /\ x \in Extent({<<a, blk>>}) <=> x \in Span(got) \/ x \in Span(new)
                           /\ ~(x \in Span(got) /\ x \in Span(new))
    <2>1. x \in Extent({<<a, blk>>}) <=> x \in Nat /\ a <= x /\ x < a + blk
      BY <1>3 DEF Extent
    <2>2. x \in Span(got) <=> x \in Nat /\ a <= x /\ x < End(got)
      BY <1>5, BlockFacts
    <2>3. x \in Span(new) <=> x \in Nat /\ End(got) <= x /\ x < a + blk
      BY <1>6, BlockFacts
    <2>4. a <= End(got) /\ End(got) <= a + blk /\ End(got) \in Nat
      BY <1>3, <1>5
    <2> QED BY <1>3, <2>1, <2>2, <2>3, <2>4
  <1>8. ASSUME NEW x \in Extent({<<a, blk>>}) PROVE x \div PAGE \in run(p) /\ x \notin Cover(l)
    <2>1. x \in Nat /\ a <= x /\ x < a + blk
      BY <1>3 DEF Extent
    <2>2. PAGE * count \in Nat
      BY <1>4, KallocAssumption
    <2>3. x < a + PAGE * count
      <3> HIDE DEF count
      <3> QED BY <1>3, <1>4, <2>1, <2>2
    <2>4. x \div PAGE \in p..(p + count - 1)
      <3> HIDE DEF count
      <3> QED BY <1>3, <1>4, <2>1, <2>3, PageOf DEF a
    <2> QED BY <1>1, <2>4
  <1> HIDE DEF count, run
  <1>9. Span(new) \cap Cover(l) = {} /\ Span(got) \cap Cover(l) = {}
    BY <1>7, <1>8
  <1>10. /\ o.list \in Seq(BlockType) /\ Apart(o.list) /\ Cover(o.list) = Cover(l) \cup Span(new)
         /\ (\A i \in 1..Len(l) : End(l[i]) # new.addr)
              => \E i \in 1..Len(o.list) : o.list[i].addr = new.addr
    BY <1>2, <1>6, <1>9, InsertFacts
  <1>11. Span(got) \cap Cover(o.list) = {}
    BY <1>7, <1>9, <1>10
  <1>12. Span(got) \cup Cover(o.list) = Cover(l) \cup Extent(o.region)
    BY <1>2, <1>7, <1>10
  <1>13. \E i \in 1..Len(o.list) : o.list[i].addr = End(got)
    <2>1. ASSUME NEW i \in 1..Len(l), End(l[i]) = new.addr PROVE FALSE
      <3>1. l[i] \in BlockType
        BY ListFacts
      <3>2. End(l[i]) - 1 \in Span(l[i])
        BY <3>1, BlockFacts
      <3>3. End(got) - 1 \in Span(got)
        BY <1>5, BlockFacts
      <3>4. End(got) - 1 \in Cover(l)
        BY <1>6, <2>1, <3>2, ListFacts
      <3> QED BY <1>9, <3>3, <3>4
    <2> QED BY <1>6, <1>10, <2>1
  <1>14. o.region \subseteq Nat \X Nat
    BY <1>2, <1>3
  <1>15. o.pages \subseteq pages /\ \A x \in Extent(o.region) : x \div PAGE \in o.pages
    BY <1>1, <1>2, <1>8
  <1>16. o.got \in BlockType /\ o.got.size = size
    BY <1>2, <1>5
  <1>17. o.got = got
    BY <1>2
  <1> QED BY <1>10, <1>11, <1>12, <1>13, <1>14, <1>15, <1>16, <1>17 DEF Allocated

LEMMA OutcomeFacts ==
  ASSUME NEW l \in Seq(BlockType), Apart(l), pages \subseteq Nat,
         \A x \in Cover(l) : x \div PAGE \notin pages,
         NEW size \in Nat, NEW o \in Outcomes(l, size)
  PROVE  Allocated(l, size, o)
  BY SplitFacts, FromPagesFacts DEF Outcomes

-----------------------------------------------------------------------------
(* Who has the memory of the heap: the free lists L of the CPUs and the blocks
   h that callers hold, and no unit has two owners. *)
Parted(L, h) ==
  /\ DOMAIN L = Cpus /\ h \subseteq BlockType
  /\ \A c \in Cpus : L[c] \in Seq(BlockType) /\ Apart(L[c])
  /\ \A c, d \in Cpus : c # d => Cover(L[c]) \cap Cover(L[d]) = {}
  /\ \A c \in Cpus, b \in h : Cover(L[c]) \cap Span(b) = {}
  /\ \A b, e \in h : b # e => Span(b) \cap Span(e) = {}
Memory(L, h) == (UNION {Cover(L[c]) : c \in Cpus}) \cup (UNION {Span(b) : b \in h})

(* K is L with the list of c replaced by l. *)
Changed(K, L, c, l) == DOMAIN K = Cpus /\ K[c] = l /\ \A d \in Cpus : d # c => K[d] = L[d]

LEMMA MemoryFacts ==
  ASSUME NEW L, NEW h
  PROVE  \A x : x \in Memory(L, h) <=> \/ \E c \in Cpus : x \in Cover(L[c])
                                       \/ \E b \in h : x \in Span(b)
  <1> TAKE x
  <1> DEFINE free == UNION {Cover(L[c]) : c \in Cpus}
             used == UNION {Span(b) : b \in h}
  <1>1. x \in free <=> \E c \in Cpus : x \in Cover(L[c])
    OBVIOUS
  <1>2. x \in used <=> \E b \in h : x \in Span(b)
    OBVIOUS
  <1>3. Memory(L, h) = free \cup used
    BY DEF Memory
  <1> HIDE DEF free, used
  <1> QED BY <1>1, <1>2, <1>3

(* Held blocks have different addresses. *)
LEMMA AddressesDiffer ==
  ASSUME NEW L, NEW h, Parted(L, h), NEW b \in h, NEW e \in h, b.addr = e.addr
  PROVE  b = e
  <1>1. b.addr \in Span(b) /\ e.addr \in Span(e)
    BY BlockFacts DEF Parted
  <1> QED BY <1>1 DEF Parted

(* A block goes from its holder to the list of c. *)
LEMMA Given ==
  ASSUME NEW L, NEW h, Parted(L, h), NEW c \in Cpus, NEW b \in h, NEW K,
         Changed(K, L, c, InsertBlock(L[c], b))
  PROVE  /\ Parted(K, h \ {b})
         /\ Memory(K, h \ {b}) = Memory(L, h)
  <1>0. DOMAIN K = Cpus /\ K[c] = InsertBlock(L[c], b) /\ \A d \in Cpus : d # c => K[d] = L[d]
    BY DEF Changed
  <1>1. L[c] \in Seq(BlockType) /\ Apart(L[c]) /\ b \in BlockType /\ Span(b) \cap Cover(L[c]) = {}
    BY DEF Parted
  <1>2. K[c] \in Seq(BlockType) /\ Apart(K[c]) /\ Cover(K[c]) = Cover(L[c]) \cup Span(b)
    BY <1>0, <1>1, InsertFacts
  <1>3. \A d \in Cpus : K[d] \in Seq(BlockType) /\ Apart(K[d])
    BY <1>0, <1>2 DEF Parted
  <1>4. ASSUME NEW d \in Cpus, NEW f \in Cpus, d # f PROVE Cover(K[d]) \cap Cover(K[f]) = {}
    <2>1. Cover(L[d]) \cap Cover(L[f]) = {} /\ Cover(L[d]) \cap Span(b) = {}
          /\ Cover(L[f]) \cap Span(b) = {}
      BY <1>4 DEF Parted
    <2>2. Cover(K[d]) \subseteq Cover(L[d]) \cup (IF d = c THEN Span(b) ELSE {})
      BY <1>0, <1>2
    <2>3. Cover(K[f]) \subseteq Cover(L[f]) \cup (IF f = c THEN Span(b) ELSE {})
      BY <1>0, <1>2
    <2> QED BY <1>4, <2>1, <2>2, <2>3
  <1>5. ASSUME NEW d \in Cpus, NEW e \in h \ {b} PROVE Cover(K[d]) \cap Span(e) = {}
    <2>1. Cover(L[d]) \cap Span(e) = {} /\ Span(b) \cap Span(e) = {}
      BY DEF Parted
    <2>2. Cover(K[d]) \subseteq Cover(L[d]) \cup Span(b)
      BY <1>0, <1>2
    <2> QED BY <2>1, <2>2
  <1>6. Parted(K, h \ {b})
    <2>1. h \ {b} \subseteq BlockType /\ \A e, f \in h \ {b} : e # f => Span(e) \cap Span(f) = {}
      BY DEF Parted
    <2> QED BY <1>0, <1>3, <1>4, <1>5, <2>1 DEF Parted
  <1>7. ASSUME NEW x PROVE x \in Memory(K, h \ {b}) <=> x \in Memory(L, h)
    <2>1. (\E d \in Cpus : x \in Cover(K[d])) <=> (\E d \in Cpus : x \in Cover(L[d])) \/ x \in Span(b)
      BY <1>0, <1>2
    <2>2. (\E e \in h : x \in Span(e)) <=> (\E e \in h \ {b} : x \in Span(e)) \/ x \in Span(b)
      OBVIOUS
    <2> QED BY <2>1, <2>2, MemoryFacts
  <1> QED BY <1>6, <1>7

(* A block goes from the list of c, or from fresh pages, to a holder. *)
LEMMA Taken ==
  ASSUME Parted(list, held), NEW c \in Cpus, NEW size, NEW o, Allocated(list[c], size, o),
         Extent(o.region) \cap Memory(list, held) = {}, NEW K, Changed(K, list, c, o.list)
  PROVE  /\ Parted(K, held \cup {o.got})
         /\ Memory(K, held \cup {o.got}) = Memory(list, held) \cup Extent(o.region)
         /\ o.got \notin held
  <1>0. DOMAIN K = Cpus /\ K[c] = o.list /\ \A d \in Cpus : d # c => K[d] = list[d]
    BY DEF Changed
  <1> DEFINE new == Cover(list[c]) \cup Extent(o.region)
  <1>1. /\ o.got \in BlockType /\ o.list \in Seq(BlockType) /\ Apart(o.list)
        /\ Span(o.got) \cap Cover(o.list) = {}
        /\ Span(o.got) \cup Cover(o.list) = new
    BY DEF Allocated
  <1>2. ASSUME NEW d \in Cpus, d # c PROVE Cover(list[d]) \cap new = {}
    BY <1>2, MemoryFacts DEF Parted
  <1>3. ASSUME NEW e \in held PROVE Span(e) \cap new = {}
    BY MemoryFacts DEF Parted
  <1> HIDE DEF new
  <1>4. \A d \in Cpus : K[d] \in Seq(BlockType) /\ Apart(K[d])
    BY <1>0, <1>1 DEF Parted
  <1>5. ASSUME NEW d \in Cpus, NEW f \in Cpus, d # f PROVE Cover(K[d]) \cap Cover(K[f]) = {}
    <2>1. CASE d = c
      BY <1>0, <1>1, <1>2, <1>5, <2>1
    <2>2. CASE f = c
      BY <1>0, <1>1, <1>2, <1>5, <2>2
    <2>3. CASE d # c /\ f # c
      BY <1>0, <1>5, <2>3 DEF Parted
    <2> QED BY <2>1, <2>2, <2>3
  <1>6. ASSUME NEW d \in Cpus PROVE Cover(K[d]) \cap Span(o.got) = {}
    <2>1. CASE d = c
      BY <1>0, <1>1, <2>1
    <2>2. CASE d # c
      BY <1>0, <1>1, <1>2, <2>2
    <2> QED BY <2>1, <2>2
  <1>7. ASSUME NEW d \in Cpus, NEW e \in held PROVE Cover(K[d]) \cap Span(e) = {}
    <2>1. CASE d = c
      BY <1>0, <1>1, <1>3, <2>1
    <2>2. CASE d # c
      BY <1>0, <2>2 DEF Parted
    <2> QED BY <2>1, <2>2
  <1>8. \A e \in held : Span(e) \cap Span(o.got) = {}
    BY <1>1, <1>3
  <1>9. Parted(K, held \cup {o.got})
    <2>1. held \cup {o.got} \subseteq BlockType
      BY <1>1 DEF Parted
    <2>2. \A e, f \in held \cup {o.got} : e # f => Span(e) \cap Span(f) = {}
      BY <1>8 DEF Parted
    <2> QED BY <1>0, <1>4, <1>5, <1>6, <1>7, <2>1, <2>2 DEF Parted
  <1>10. o.got \notin held
    <2>1. o.got.addr \in Span(o.got)
      BY <1>1, BlockFacts
    <2> QED BY <1>8, <2>1
  <1>11. ASSUME NEW x
         PROVE  x \in Memory(K, held \cup {o.got}) <=> x \in Memory(list, held) \/ x \in Extent(o.region)
    <2>1. (\E d \in Cpus : x \in Cover(K[d])) \/ x \in Span(o.got)
            <=> (\E d \in Cpus : x \in Cover(list[d])) \/ x \in Extent(o.region)
      <3>1. x \in Cover(K[c]) \/ x \in Span(o.got) <=> x \in Cover(list[c]) \/ x \in Extent(o.region)
        BY <1>0, <1>1 DEF new
      <3> QED BY <1>0, <3>1
    <2> QED BY <2>1, MemoryFacts
  <1> QED BY <1>9, <1>10, <1>11

-----------------------------------------------------------------------------
(* The inductive invariant: every unit of what page_alloc gave has one owner,
   no unit of a page that is still to be given has one, and canaries mark the
   blocks that are held. *)
HeapInv ==
  /\ TypeOK
  /\ Parted(list, held)
  /\ Memory(list, held) = Extent(regions)
  /\ \A x \in Extent(regions) : x \div PAGE \notin pages
  /\ CanariesMarkHeld

LEMMA HeapInit == Init => HeapInv
  <1> SUFFICES ASSUME Init PROVE HeapInv
    OBVIOUS
  <1>0. /\ list = [c \in Cpus |-> <<>>] /\ held = {} /\ freed = {} /\ canaries = {} /\ regions = {}
        /\ pages = 0..(NPAGES - 1) /\ status = "ok"
    BY DEF Init
  <1>1. TypeOK
    BY <1>0, EmptySeq DEF TypeOK
  <1>2. \A c \in Cpus : Cover(list[c]) = {} /\ Apart(list[c]) /\ list[c] \in Seq(BlockType)
    BY <1>0, EmptySeq DEF Cover, Apart
  <1>3. Parted(list, held)
    BY <1>0, <1>2 DEF Parted
  <1>4. Extent(regions) = {}
    BY <1>0 DEF Extent
  <1>5. Memory(list, held) = Extent(regions)
    BY <1>0, <1>2, <1>4, MemoryFacts
  <1>6. CanariesMarkHeld
    BY <1>0 DEF CanariesMarkHeld
  <1> QED BY <1>1, <1>3, <1>4, <1>5, <1>6 DEF HeapInv

LEMMA ExtentUnion ==
  ASSUME NEW R, NEW Q PROVE Extent(R \cup Q) = Extent(R) \cup Extent(Q)
  BY DEF Extent

(* What an outcome of kalloc's search does to the owners of the heap. *)
LEMMA OutcomeStep ==
  ASSUME HeapInv, NEW c \in Cpus, NEW size \in Sizes, NEW o \in Outcomes(list[c], size), Took(o)
  PROVE  /\ Allocated(list[c], size, o)
         /\ o.got \in BlockType /\ o.got.addr \in Nat /\ o.list \in Seq(BlockType)
         /\ Parted([list EXCEPT ![c] = o.list], held \cup {o.got})
         /\ Memory([list EXCEPT ![c] = o.list], held \cup {o.got}) = Extent(regions')
         /\ o.got \notin held
         /\ regions' \subseteq Nat \X Nat /\ pages' \subseteq 0..(NPAGES - 1)
         /\ \A x \in Extent(regions') : x \div PAGE \notin pages'
  <1>0. /\ Parted(list, held) /\ Memory(list, held) = Extent(regions)
        /\ (\A x \in Extent(regions) : x \div PAGE \notin pages)
        /\ pages \subseteq 0..(NPAGES - 1) /\ regions \subseteq Nat \X Nat /\ size \in Nat
        /\ DOMAIN list = Cpus
    BY KallocAssumption DEF HeapInv, TypeOK
  <1>1. list[c] \in Seq(BlockType) /\ Apart(list[c])
    BY <1>0 DEF Parted
  <1>2. \A x \in Cover(list[c]) : x \div PAGE \notin pages
    BY <1>0, MemoryFacts
  <1>3. pages \subseteq Nat
    BY <1>0, KallocAssumption
  <1>4. Allocated(list[c], size, o)
    BY <1>0, <1>1, <1>2, <1>3, OutcomeFacts
  <1>5. /\ o.got \in BlockType /\ o.list \in Seq(BlockType) /\ o.region \subseteq Nat \X Nat
        /\ o.pages \subseteq pages /\ \A x \in Extent(o.region) : x \div PAGE \in o.pages
    BY <1>4 DEF Allocated
  <1>6. Extent(o.region) \cap Memory(list, held) = {}
    BY <1>0, <1>5
  <1> DEFINE K == [list EXCEPT ![c] = o.list]
  <1>7. Changed(K, list, c, o.list)
    BY <1>0 DEF Changed
  <1>8. regions' = regions \cup o.region /\ pages' = pages \ o.pages
    BY DEF Took
  <1> HIDE DEF K
  <1>9. /\ Parted(K, held \cup {o.got}) /\ o.got \notin held
        /\ Memory(K, held \cup {o.got}) = Memory(list, held) \cup Extent(o.region)
    <2>1. Parted(list, held)
      BY <1>0
    <2> QED BY <1>4, <1>6, <1>7, <2>1, Taken
  <1>10. Extent(regions') = Extent(regions) \cup Extent(o.region)
    BY <1>8, ExtentUnion
  <1>11. \A x \in Extent(regions') : x \div PAGE \notin pages'
    BY <1>0, <1>5, <1>8, <1>10
  <1>12. regions' \subseteq Nat \X Nat /\ pages' \subseteq 0..(NPAGES - 1)
    BY <1>0, <1>5, <1>8
  <1>13. o.got.addr \in Nat
    BY <1>5, BlockFacts
  <1>14. Memory(K, held \cup {o.got}) = Extent(regions')
    BY <1>0, <1>9, <1>10
  <1> QED BY <1>4, <1>5, <1>9, <1>11, <1>12, <1>13, <1>14 DEF K

LEMMA kallocStep ==
  ASSUME HeapInv, NEW c \in Cpus, NEW size \in Sizes, kalloc(c, size)
  PROVE  HeapInv'
  <1>1. PICK o \in Outcomes(list[c], size) :
          /\ list' = [list EXCEPT ![c] = o.list] /\ held' = held \cup {o.got}
          /\ freed' = freed \ {o.got.addr} /\ canaries' = canaries \cup {o.got.addr}
          /\ Took(o)
    BY DEF kalloc
  <1>2. /\ o.got \in BlockType /\ o.got.addr \in Nat /\ o.list \in Seq(BlockType)
        /\ Parted(list', held') /\ Memory(list', held') = Extent(regions')
        /\ regions' \subseteq Nat \X Nat /\ pages' \subseteq 0..(NPAGES - 1)
        /\ \A x \in Extent(regions') : x \div PAGE \notin pages'
    BY <1>1, OutcomeStep
  <1>3. status = "ok" /\ status' = "ok"
    BY DEF kalloc
  <1>4. TypeOK'
    <2>1. list' \in [Cpus -> Seq(BlockType)]
      BY <1>1, <1>2 DEF HeapInv, TypeOK
    <2>2. held' \subseteq BlockType /\ freed' \subseteq Nat /\ canaries' \subseteq Nat
      BY <1>1, <1>2 DEF HeapInv, TypeOK
    <2> QED BY <1>2, <1>3, <2>1, <2>2 DEF TypeOK
  <1>5. CanariesMarkHeld'
    <2>1. canaries = {b.addr : b \in held}
      BY <1>3 DEF HeapInv, CanariesMarkHeld
    <2>2. canaries' = {b.addr : b \in held'}
      BY <1>1, <2>1
    <2> QED BY <2>2 DEF CanariesMarkHeld
  <1> QED BY <1>2, <1>4, <1>5 DEF HeapInv

LEMMA kfreeStep ==
  ASSUME HeapInv, NEW c \in Cpus, NEW b \in held, kfree(c, b)
  PROVE  HeapInv'
  <1>0. Parted(list, held) /\ DOMAIN list = Cpus /\ list \in [Cpus -> Seq(BlockType)]
        /\ held \subseteq BlockType
    BY DEF HeapInv, TypeOK
  <1>1. /\ list' = [list EXCEPT ![c] = InsertBlock(list[c], b)] /\ held' = held \ {b}
        /\ freed' = freed \cup {b.addr} /\ canaries' = canaries \ {b.addr}
        /\ regions' = regions /\ pages' = pages /\ status = "ok" /\ status' = "ok"
    BY DEF kfree
  <1>2. /\ DOMAIN list' = Cpus /\ list'[c] = InsertBlock(list[c], b)
        /\ \A d \in Cpus : d # c => list'[d] = list[d]
    BY <1>0, <1>1
  <1>3. Parted(list', held') /\ Memory(list', held') = Memory(list, held)
    <2>1. Changed(list', list, c, InsertBlock(list[c], b)) /\ held' = held \ {b}
      BY <1>1, <1>2 DEF Changed
    <2> QED BY <1>0, <2>1, Given
  <1>4. TypeOK'
    <2>1. list' \in [Cpus -> Seq(BlockType)]
      <3>1. list'[c] \in Seq(BlockType)
        BY <1>3 DEF Parted
      <3> QED BY <1>0, <1>1, <1>2, <3>1
    <2>2. b.addr \in Nat
      BY <1>0, BlockFacts
    <2>3. held' \subseteq BlockType /\ freed' \subseteq Nat /\ canaries' \subseteq Nat
      BY <1>1, <2>2 DEF HeapInv, TypeOK
    <2> QED BY <1>1, <2>1, <2>3 DEF HeapInv, TypeOK
  <1>5. CanariesMarkHeld'
    <2>1. canaries = {e.addr : e \in held}
      BY <1>1 DEF HeapInv, CanariesMarkHeld
    <2>2. \A e \in held : e.addr = b.addr => e = b
      BY <1>0, AddressesDiffer
    <2>3. canaries' = {e.addr : e \in held'}
      BY <1>1, <2>1, <2>2
    <2> QED BY <2>3 DEF CanariesMarkHeld
  <1>6. Memory(list', held') = Extent(regions') /\ \A x \in Extent(regions') : x \div PAGE \notin pages'
    BY <1>1, <1>3 DEF HeapInv
  <1> QED BY <1>3, <1>4, <1>5, <1>6 DEF HeapInv

(* krealloc is kalloc and then kfree.  A copy that overruns the new block hits
   the header of the free block behind it, so when it is not noticed there was
   none. *)
LEMMA kreallocStep ==
  ASSUME HeapInv, NEW c \in Cpus, NEW old \in held, NEW size \in Sizes, krealloc(c, old, size)
  PROVE  HeapInv'
  <1>0. /\ Parted(list, held) /\ DOMAIN list = Cpus /\ list \in [Cpus -> Seq(BlockType)]
        /\ held \subseteq BlockType /\ old \in BlockType /\ status = "ok"
    BY DEF HeapInv, TypeOK, krealloc
  <1>1. PICK o \in Outcomes(list[c], size) :
          /\ list' = [list EXCEPT ![c] = InsertBlock(o.list, old)]
          /\ held' = (held \ {old}) \cup {o.got}
          /\ freed' = (freed \ {o.got.addr}) \cup {old.addr}
          /\ canaries' = ((canaries \cup {o.got.addr}) \ Overrun(old, o.got)) \ {old.addr}
          /\ Took(o)
          /\ status' = IF Overrun(old, o.got) \cap {o.list[k].addr : k \in DOMAIN o.list} # {}
                         THEN "overrun" ELSE "ok"
    BY DEF krealloc
  <1> DEFINE K == [list EXCEPT ![c] = o.list]
             g == held \cup {o.got}
  <1>2. /\ Allocated(list[c], size, o)
        /\ o.got \in BlockType /\ o.got.addr \in Nat /\ o.list \in Seq(BlockType)
        /\ Parted(K, g) /\ Memory(K, g) = Extent(regions') /\ o.got \notin held
        /\ regions' \subseteq Nat \X Nat /\ pages' \subseteq 0..(NPAGES - 1)
        /\ \A x \in Extent(regions') : x \div PAGE \notin pages'
    BY <1>1, OutcomeStep
  <1>3. held' = g \ {old} /\ old \in g /\ o.got \in g /\ o.got # old
    BY <1>1, <1>2
  <1>4. Changed(list', K, c, InsertBlock(K[c], old))
    <2>1. K[c] = o.list /\ \A d \in Cpus : d # c => K[d] = list[d]
      BY <1>0
    <2> HIDE DEF K
    <2> QED BY <1>0, <1>1, <2>1 DEF Changed
  <1> HIDE DEF K, g
  <1>5. Parted(list', held') /\ Memory(list', held') = Extent(regions')
    <2>1. Parted(K, g) /\ old \in g
      BY <1>2, <1>3
    <2>2. Parted(list', g \ {old}) /\ Memory(list', g \ {old}) = Memory(K, g)
      BY <1>4, <2>1, Given
    <2> QED BY <1>2, <1>3, <2>2
  <1>6. TypeOK'
    <2>1. list' \in [Cpus -> Seq(BlockType)]
      <3>1. list'[c] \in Seq(BlockType)
        BY <1>5 DEF Parted
      <3>2. list'[c] = InsertBlock(o.list, old)
        BY <1>0, <1>1
      <3> QED BY <1>0, <1>1, <3>1, <3>2
    <2>2. old.addr \in Nat
      BY <1>0, BlockFacts
    <2>3. held' \subseteq BlockType /\ freed' \subseteq Nat
      BY <1>0, <1>1, <1>2, <2>2 DEF HeapInv, TypeOK
    <2>4. canaries' \subseteq Nat
      <3>1. canaries' \subseteq canaries \cup {o.got.addr}
        BY <1>1
      <3> QED BY <1>2, <3>1 DEF HeapInv, TypeOK
    <2>5. status' \in {"ok", "overrun"}
      BY <1>1
    <2> QED BY <1>2, <2>1, <2>3, <2>4, <2>5 DEF TypeOK
  <1>7. CanariesMarkHeld'
    <2> SUFFICES ASSUME status' # "overrun" PROVE canaries' = {b.addr : b \in held'}
      BY DEF CanariesMarkHeld
    <2>1. Overrun(old, o.got) \cap {o.list[k].addr : k \in DOMAIN o.list} = {}
      BY <1>1
    <2>2. PICK i \in 1..Len(o.list) : o.list[i].addr = End(o.got)
      BY <1>2 DEF Allocated
    <2>3. i \in DOMAIN o.list
      BY <1>2, ListFacts
    <2>4. End(o.got) \notin Overrun(old, o.got)
      BY <2>1, <2>2, <2>3
    <2>5. Overrun(old, o.got) = {}
      <3> DEFINE u == End(o.got)
                 w == o.got.addr + HDR + old.size - 1
      <3>1. u \in Nat /\ w \in Int
        <4>1. End(o.got) \in Nat
          BY <1>2, BlockFacts
        <4>2. old.size \in Nat
          BY <1>0, BlockFacts
        <4>3. HDR \in Nat
          BY DEF HDR
        <4> QED BY <1>2, <4>1, <4>2, <4>3
      <3>2. Overrun(old, o.got) = u..w
        BY DEF Overrun
      <3> HIDE DEF u, w
      <3>3. u \notin u..w
        BY <2>4, <3>2 DEF u
      <3> QED BY <3>1, <3>2, <3>3
    <2>6. canaries' = (canaries \cup {o.got.addr}) \ {old.addr}
      BY <1>1, <2>5
    <2>7. canaries = {b.addr : b \in held}
      BY <1>0 DEF HeapInv, CanariesMarkHeld
    <2>8. \A b \in g : b.addr = old.addr => b = old
      BY <1>2, <1>3, AddressesDiffer
    <2>9. canaries \cup {o.got.addr} = {b.addr : b \in g}
      BY <2>7 DEF g
    <2> QED BY <1>3, <2>6, <2>8, <2>9
  <1> QED BY <1>2, <1>5, <1>6, <1>7 DEF HeapInv

LEMMA HeapNext == ASSUME HeapInv, [Next]_vars PROVE HeapInv'
  <1>1. CASE UNCHANGED <<list, held, freed, canaries, regions, pages>>
             /\ (status' = status \/ (status = "ok" /\ status' \in {"oom", "heap_overflow"}))
    <2>1. TypeOK'
      BY <1>1 DEF HeapInv, TypeOK
    <2>2. CanariesMarkHeld'
      BY <1>1 DEF HeapInv, CanariesMarkHeld
    <2> QED BY <1>1, <2>1, <2>2 DEF HeapInv
  <1>2. CASE UNCHANGED vars
    BY <1>1, <1>2 DEF vars
  <1>3. ASSUME NEW c \in Cpus, NEW size \in Sizes, OutOfMemory(c, size) PROVE HeapInv'
    BY <1>1, <1>3 DEF OutOfMemory
  <1>4. ASSUME NEW a \in freed, kfreeAgain(a) PROVE HeapInv'
    BY <1>1, <1>4 DEF kfreeAgain
  <1> QED BY <1>2, <1>3, <1>4, kallocStep, kfreeStep, kreallocStep DEF Next

THEOREM Inductive == Spec => []HeapInv
  BY HeapInit, HeapNext, PTL DEF Spec

(* Type correctness: in particular no size of the heap ever goes below zero,
   not in the split of kalloc nor in the rest of page_blk_size. *)
THEOREM TypeCorrect == Spec => []TypeOK
  <1>1. HeapInv => TypeOK
    BY DEF HeapInv
  <1> QED BY <1>1, Inductive, PTL

(* Blocks never overlap, headers included, whoever has them: callers, or the
   free lists of the CPUs. *)
THEOREM Disjoint == Spec => []BlocksDisjoint
  <1>1. ASSUME HeapInv PROVE BlocksDisjoint
    <2>0. Parted(list, held)
      BY <1>1 DEF HeapInv
    <2>1. ASSUME NEW c \in Cpus, NEW b \in Range(list[c])
          PROVE  /\ b \in BlockType /\ b.addr \in Span(b) /\ Span(b) \subseteq Cover(list[c])
                 /\ \E i \in DOMAIN list[c] : b = list[c][i]
      <3>1. list[c] \in Seq(BlockType)
        BY <2>0 DEF Parted
      <3>2. PICK i \in DOMAIN list[c] : b = list[c][i]
        BY DEF Range
      <3>3. b \in BlockType
        BY <3>1, <3>2, ListFacts
      <3> QED BY <3>2, <3>3, BlockFacts DEF Cover
    <2>2. ASSUME NEW b \in held PROVE b.addr \in Span(b)
      BY <2>0, BlockFacts DEF Parted
    <2>3. Free \cap held = {}
      <3>1. ASSUME NEW c \in Cpus, NEW b \in Range(list[c]), b \in held PROVE FALSE
        BY <2>0, <2>1, <3>1 DEF Parted
      <3> QED BY <3>1 DEF Free
    <2>4. ASSUME NEW c \in Cpus, NEW d \in Cpus, c # d
          PROVE  Range(list[c]) \cap Range(list[d]) = {}
      <3>1. Cover(list[c]) \cap Cover(list[d]) = {}
        BY <2>0, <2>4 DEF Parted
      <3> QED BY <2>1, <3>1
    <2>5. ASSUME NEW b \in Blocks, NEW e \in Blocks, b # e PROVE Span(b) \cap Span(e) = {}
      <3>1. CASE b \in held /\ e \in held
        BY <2>0, <2>5, <3>1 DEF Parted
      <3>2. ASSUME NEW c \in Cpus, b \in Range(list[c]), e \in held PROVE Span(b) \cap Span(e) = {}
        BY <2>0, <2>1, <3>2 DEF Parted
      <3>3. ASSUME NEW c \in Cpus, e \in Range(list[c]), b \in held PROVE Span(b) \cap Span(e) = {}
        BY <2>0, <2>1, <3>3 DEF Parted
      <3>4. ASSUME NEW c \in Cpus, NEW d \in Cpus, b \in Range(list[c]), e \in Range(list[d])
            PROVE  Span(b) \cap Span(e) = {}
        <4>1. CASE c # d
          <5>1. Cover(list[c]) \cap Cover(list[d]) = {}
            BY <2>0, <4>1 DEF Parted
          <5> QED BY <2>1, <3>4, <5>1
        <4>2. CASE c = d
          <5>1. PICK i \in DOMAIN list[c], j \in DOMAIN list[c] : b = list[c][i] /\ e = list[c][j]
            BY <2>1, <3>4, <4>2
          <5> QED BY <2>0, <2>5, <5>1 DEF Parted, Apart
        <4> QED BY <4>1, <4>2
      <3>5. \A x \in Blocks : x \in held \/ \E c \in Cpus : x \in Range(list[c])
        BY DEF Blocks, Free
      <3> QED BY <3>1, <3>2, <3>3, <3>4, <3>5
    <2> QED BY <2>3, <2>4, <2>5 DEF BlocksDisjoint
  <1> QED BY <1>1, Inductive, PTL

(* The heap loses nothing: what page_alloc gave is tiled by the blocks. *)
THEOREM Tiled == Spec => []HeapTiled
  <1>1. ASSUME HeapInv PROVE HeapTiled
    <2>1. \A c \in Cpus : Cover(list[c]) = UNION {Span(b) : b \in Range(list[c])}
      BY DEF Cover, Range
    <2>2. ASSUME NEW x PROVE x \in UNION {Span(b) : b \in Blocks} <=> x \in Memory(list, held)
      <3>1. x \in UNION {Span(b) : b \in Blocks} <=> \E b \in Blocks : x \in Span(b)
        OBVIOUS
      <3>2. (\E b \in Blocks : x \in Span(b))
              <=> (\E b \in held : x \in Span(b)) \/ \E c \in Cpus : \E b \in Range(list[c]) : x \in Span(b)
        BY DEF Blocks, Free
      <3>3. \A c \in Cpus : x \in Cover(list[c]) <=> \E b \in Range(list[c]) : x \in Span(b)
        BY <2>1
      <3> QED BY <3>1, <3>2, <3>3, MemoryFacts
    <2>3. Memory(list, held) = UNION {r[1]..(r[1] + r[2] - 1) : r \in regions}
      BY <1>1 DEF HeapInv, Extent
    <2> QED BY <2>2, <2>3 DEF HeapTiled
  <1> QED BY <1>1, Inductive, PTL

(* Exactly the blocks that are held have a right canary, so kfree panics on
   every block that is not. *)
THEOREM CanariesExact == Spec => []CanariesMarkHeld
  <1>1. HeapInv => CanariesMarkHeld
    BY DEF HeapInv
  <1> QED BY <1>1, Inductive, PTL
=============================================================================
