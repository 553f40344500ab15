--------------------------- MODULE HashMap_proofs ---------------------------
(***************************************************************************)
(* For any keys, hashes, values and capacities: what map_get returns is    *)
(* what was stored last until the map grows, a step leaves the entries of  *)
(* other keys alone, the copying of map_grow included, and a map that has  *)
(* grown has room.                                                         *)
(***************************************************************************)
EXTENDS HashMap, FiniteSetTheorems, WellFoundedInduction, TLAPS

(* A nonempty set of numbers has a smallest one. *)
LEMMA LeastOf ==
  ASSUME NEW T \in SUBSET Nat, T # {}
  PROVE  \E m \in T : \A k \in T : m <= k
  <1>1. PICK m \in T : \A k \in T : ~(<<k, m>> \in OpToRel(<, Nat))
    BY NatLessThanWellFounded, WFMin
  <1>2. ASSUME NEW k \in T, k < m PROVE FALSE
    <2>1. <<k, m>> \in OpToRel(<, Nat)
      BY <1>2 DEF OpToRel
    <2> QED BY <1>1, <2>1, Zenon
  <1> QED BY <1>2

(* Induction over the numbers up to n, for a set of numbers. *)
LEMMA UpTo ==
  ASSUME NEW n \in Nat, NEW G, 0 \in G, \A i \in 0..(n - 1) : i \in G => i + 1 \in G
  PROVE  \A i \in 0..n : i \in G
  <1> DEFINE B == {i \in 0..n : i \notin G}
  <1> SUFFICES ASSUME B # {} PROVE FALSE
    OBVIOUS
  <1>0. B \in SUBSET Nat
    OBVIOUS
  <1>1. PICK m \in B : \A k \in B : m <= k
    <2> HIDE DEF B
    <2> QED BY <1>0, LeastOf
  <1>2. m # 0 /\ m - 1 \in 0..(n - 1) /\ m - 1 \notin B
    BY <1>1
  <1> QED BY <1>2

(* The remainder is unique. *)
LEMMA Remainder ==
  ASSUME NEW n \in Nat \ {0}, NEW j \in 0..(n - 1), NEW q \in Int
  PROVE  (n * q + j) % n = j
  OBVIOUS

LEMMA RemainderType ==
  ASSUME NEW n \in Nat \ {0}, NEW x \in Int
  PROVE  x % n \in 0..(n - 1)
  OBVIOUS

(* Going round n cells from any start meets every cell. *)
LEMMA Round ==
  ASSUME NEW n \in Nat \ {0}, NEW a \in Nat, NEW j \in 0..(n - 1)
  PROVE  \E d \in 1..n : (a + d) % n = j
  <1> DEFINE q == a \div n
             r == a % n
  <1>1. q \in Int /\ r \in 0..(n - 1) /\ a = n * q + r
    <2>1. q \in Int
      OBVIOUS
    <2>2. r \in 0..(n - 1)
      OBVIOUS
    <2>3. a = n * q + r
      OBVIOUS
    <2> QED BY <2>1, <2>2, <2>3
  <1> HIDE DEF q, r
  <1>2. CASE j > r
    <2>1. a + (j - r) = n * q + j
      <3>1. n * q \in Int
        BY <1>1
      <3> QED BY <1>1, <3>1
    <2>2. (a + (j - r)) % n = j
      BY <1>1, <2>1, Remainder
    <2>3. j - r \in 1..n
      BY <1>1, <1>2
    <2> QED BY <2>2, <2>3
  <1>3. CASE j <= r
    <2>1. a + (j - r + n) = n * (q + 1) + j
      <3>1. n * q \in Int /\ n * (q + 1) = n * q + n
        BY <1>1
      <3> QED BY <1>1, <3>1
    <2>2. (a + (j - r + n)) % n = j
      BY <1>1, <2>1, Remainder
    <2>3. j - r + n \in 1..n
      BY <1>1, <1>3
    <2> QED BY <2>2, <2>3
  <1>4. j > r \/ j <= r
    BY <1>1
  <1> QED BY <1>2, <1>3, <1>4
(* One round of less than n cells does not come back to where it started. *)
LEMMA NoEarlyReturn ==
  ASSUME NEW n \in Nat \ {0}, NEW a \in 0..(n - 1), NEW d \in 1..n, (a + d) % n = a
  PROVE  d = n
  <1> SUFFICES ASSUME d < n PROVE FALSE
    OBVIOUS
  <1>1. CASE a + d < n
    <2>1. (n * 0 + (a + d)) % n = a + d
      BY <1>1, Remainder
    <2> QED BY <2>1
  <1>2. CASE a + d >= n
    <2>1. (n * 1 + (a + d - n)) % n = a + d - n
      BY <1>2, Remainder
    <2> QED BY <2>1
  <1> QED BY <1>1, <1>2

-----------------------------------------------------------------------------
(* The probe of map_insert and map_grow. *)
Frees(c, idx, n) == {d \in 1..n : ~Used(c, (idx + d) % n)}
Nearest(c, idx, n) == CHOOSE d \in Frees(c, idx, n) : \A e \in Frees(c, idx, n) : d <= e

LEMMA ProbeNearest ==
  ASSUME NEW c, NEW n \in Nat \ {0}, NEW idx \in Nat
  PROVE  /\ Frees(c, idx, n) = {} => Probe(c, idx, n) = idx
         /\ Frees(c, idx, n) # {} =>
              /\ Nearest(c, idx, n) \in 1..n
              /\ \A e \in Frees(c, idx, n) : Nearest(c, idx, n) <= e
              /\ Probe(c, idx, n) = (idx + Nearest(c, idx, n)) % n
              /\ Probe(c, idx, n) \in 0..(n - 1)
              /\ ~Used(c, Probe(c, idx, n))
  <1>1. Frees(c, idx, n) = {} => Probe(c, idx, n) = idx
    BY DEF Probe, Frees
  <1>2. ASSUME Frees(c, idx, n) # {}
        PROVE  /\ Nearest(c, idx, n) \in Frees(c, idx, n)
               /\ \A e \in Frees(c, idx, n) : Nearest(c, idx, n) <= e
    <2>1. Frees(c, idx, n) \in SUBSET Nat
      BY DEF Frees
    <2>2. \E d \in Frees(c, idx, n) : \A e \in Frees(c, idx, n) : d <= e
      BY <1>2, <2>1, LeastOf
    <2> QED BY <2>2 DEF Nearest
  <1>3. Frees(c, idx, n) # {} => Probe(c, idx, n) = (idx + Nearest(c, idx, n)) % n
    BY DEF Probe, Frees, Nearest
  <1>4. ASSUME Frees(c, idx, n) # {}
        PROVE  Nearest(c, idx, n) \in 1..n /\ ~Used(c, (idx + Nearest(c, idx, n)) % n)
    BY <1>2, <1>4 DEF Frees
  <1>5. ASSUME Frees(c, idx, n) # {}
        PROVE  (idx + Nearest(c, idx, n)) % n \in 0..(n - 1)
    <2>1. idx + Nearest(c, idx, n) \in Int
      BY <1>4, <1>5
    <2> QED BY <2>1, RemainderType
  <1> QED BY <1>1, <1>2, <1>3, <1>4, <1>5

(* Whatever it finds, it stays in the map. *)
LEMMA ProbeType ==
  ASSUME NEW c, NEW n \in Nat \ {0}, NEW idx \in Nat
  PROVE  Probe(c, idx, n) \in (0..(n - 1)) \cup {idx}
  BY ProbeNearest

(* With a free cell among the n it goes round, it ends in a free one. *)
LEMMA ProbeFree ==
  ASSUME NEW c, NEW n \in Nat \ {0}, NEW idx \in Nat, NEW j \in 0..(n - 1), ~Used(c, j)
  PROVE  Probe(c, idx, n) \in 0..(n - 1) /\ ~Used(c, Probe(c, idx, n))
  <1>1. PICK d \in 1..n : (idx + d) % n = j
    BY Round
  <1>2. d \in Frees(c, idx, n)
    BY <1>1 DEF Frees
  <1> QED BY <1>2, ProbeNearest

(* With a free cell other than its start, it leaves its start. *)
LEMMA ProbeLeaves ==
  ASSUME NEW c, NEW n \in Nat \ {0}, NEW idx \in 0..(n - 1),
         NEW j \in 0..(n - 1), j # idx, ~Used(c, j)
  PROVE  Probe(c, idx, n) # idx
  <1> SUFFICES ASSUME Probe(c, idx, n) = idx PROVE FALSE
    OBVIOUS
  <1>0. idx \in Nat
    OBVIOUS
  <1>1. PICK d \in 1..n : (idx + d) % n = j
    BY <1>0, Round
  <1>2. d \in Frees(c, idx, n)
    BY <1>1 DEF Frees
  <1>3. /\ Nearest(c, idx, n) \in 1..n /\ Nearest(c, idx, n) <= d
        /\ (idx + Nearest(c, idx, n)) % n = idx
    BY <1>0, <1>2, ProbeNearest
  <1>4. Nearest(c, idx, n) = n
    BY <1>3, NoEarlyReturn
  <1>5. d = n
    BY <1>3, <1>4
  <1> QED BY <1>1, <1>3, <1>4, <1>5

-----------------------------------------------------------------------------
(* A recursive function over 0..n exists: a is its first value and F[i] takes
   the value at i - 1 to the value at i. *)
Steps(S, n) == [1..n -> [S -> S]]
Iterates(f, S, a, n, F) ==
  /\ f \in [0..n -> S]
  /\ f[0] = a
  /\ \A i \in 1..n : f[i] = F[i][f[i - 1]]

LEMMA PrimitiveRecursion ==
  ASSUME NEW S, NEW a \in S, NEW n \in Nat, NEW F \in Steps(S, n)
  PROVE  \E f : Iterates(f, S, a, n, F)
  <1> DEFINE P(m) == \E f \in [0..m -> S] : f[0] = a /\ \A i \in 1..m : f[i] = F[i][f[i - 1]]
             G == {m \in 0..n : P(m)}
  <1>1. 0 \in G
    <2> DEFINE g == [i \in 0..0 |-> a]
    <2>1. g \in [0..0 -> S] /\ g[0] = a /\ 1..0 = {}
      OBVIOUS
    <2> HIDE DEF g
    <2>2. P(0)
      BY <2>1
    <2>3. 0 \in 0..n
      OBVIOUS
    <2> HIDE DEF P
    <2> QED BY <2>2, <2>3
  <1>2. ASSUME NEW m \in 0..(n - 1), m \in G PROVE m + 1 \in G
    <2>1. PICK f \in [0..m -> S] : f[0] = a /\ \A i \in 1..m : f[i] = F[i][f[i - 1]]
      BY <1>2
    <2>2. F[m + 1] \in [S -> S] /\ F[m + 1][f[m]] \in S
      BY DEF Steps
    <2> DEFINE g == [i \in 0..(m + 1) |-> IF i = m + 1 THEN F[m + 1][f[m]] ELSE f[i]]
    <2>3. g \in [0..(m + 1) -> S]
      BY <2>2
    <2>4. g[0] = a /\ g[m + 1] = F[m + 1][f[m]] /\ \A i \in 0..m : g[i] = f[i]
      BY <2>1
    <2> HIDE DEF g
    <2>5. ASSUME NEW i \in 1..(m + 1) PROVE g[i] = F[i][g[i - 1]]
      BY <2>1, <2>4
    <2>6. P(m + 1)
      BY <2>3, <2>4, <2>5
    <2>7. m + 1 \in 0..n
      OBVIOUS
    <2> HIDE DEF P
    <2> QED BY <2>6, <2>7
  <1>3. n \in G
    <2> HIDE DEF G
    <2>1. \A m \in 0..(n - 1) : m \in G => m + 1 \in G
      BY <1>2
    <2>2. \A m \in 0..n : m \in G
      BY <1>1, <2>1, UpTo
    <2> QED BY <2>2
  <1> QED BY <1>3 DEF Iterates

-----------------------------------------------------------------------------
(* The copying of map_grow. *)
Cells(n) == [0..(n - 1) -> Entry]
UsedCells(c) == {i \in DOMAIN c : Used(c, i)}
In(c, e) == \E i \in DOMAIN c : c[i] = e

(* The shape of the map: its types, and a capacity that growing by half makes
   larger by two at least. *)
Shape == TypeOK /\ cap >= 4

LEMMA ShapeFacts ==
  ASSUME Shape
  PROVE  /\ cap \in Nat \ {0} /\ cap >= 4 /\ max \in Nat /\ max <= cap - 1
         /\ cell \in Cells(cap)
         /\ NewCap \in Nat /\ NewCap >= cap + 2
  <1>1. cap \in Nat /\ cap >= 4 /\ max \in 0..(cap - 1) /\ cell \in Cells(cap)
    BY DEF Shape, TypeOK, Cells
  <1>2. NewCap \in Nat /\ NewCap >= cap + 2
    BY <1>1 DEF NewCap
  <1> QED BY <1>1, <1>2

LEMMA EntryFacts ==
  ASSUME NEW n \in Nat, NEW c \in Cells(n), NEW i \in 0..(n - 1)
  PROVE  c[i] \in Entry /\ c[i].h \in Nat /\ DOMAIN c = 0..(n - 1)
  BY DEF Cells, Entry

LEMMA EmptyEntry == Empty \in Entry /\ Empty.key = NULL
  BY DEF Empty, Entry

(* One round of its loop. *)
LEMMA CopyCellType ==
  ASSUME Shape, NEW ncap \in Nat, ncap >= cap, NEW c \in Cells(ncap), NEW i \in 0..max
  PROVE  CopyCell(c, i, ncap) \in Cells(ncap)
  <1>1. cap \in Nat \ {0} /\ i \in 0..(cap - 1) /\ ncap \in Nat \ {0}
    BY ShapeFacts
  <1>2. cell[i] \in Entry /\ cell[i].h \in Int
    BY <1>1, ShapeFacts, EntryFacts
  <1>3. cell[i].h % ncap \in 0..(ncap - 1)
    BY <1>1, <1>2, RemainderType
  <1>4. GrowProbe(c, cell[i].h % ncap) \in 0..(ncap - 1)
    BY <1>1, <1>3, ProbeType DEF GrowProbe
  <1> QED BY <1>2, <1>4 DEF CopyCell, Cells

(* It finds an empty cell when one is left below the old capacity. *)
LEMMA CopyCellFree ==
  ASSUME Shape, NEW ncap \in Nat, ncap >= cap, NEW c \in Cells(ncap), NEW i \in 0..max,
         Used(cell, i), NEW j \in 0..(cap - 1), ~Used(c, j)
  PROVE  \E t \in 0..(ncap - 1) : ~Used(c, t) /\ CopyCell(c, i, ncap) = [c EXCEPT ![t] = cell[i]]
  <1>1. cap \in Nat \ {0} /\ i \in 0..(cap - 1) /\ ncap \in Nat \ {0}
    BY ShapeFacts
  <1>2. cell[i].h \in Nat
    BY <1>1, ShapeFacts, EntryFacts
  <1> DEFINE idx == cell[i].h % ncap
             t == GrowProbe(c, idx)
  <1>3. idx \in 0..(ncap - 1)
    BY <1>1, <1>2, RemainderType
  <1> HIDE DEF idx
  <1>4. t \in 0..(ncap - 1) /\ ~Used(c, t)
    <2>1. Probe(c, idx, cap) \in 0..(cap - 1) /\ ~Used(c, Probe(c, idx, cap))
      BY <1>1, <1>3, ProbeFree
    <2> QED BY <1>1, <1>3, <2>1 DEF GrowProbe
  <1>5. CopyCell(c, i, ncap) = [c EXCEPT ![t] = cell[i]]
    BY DEF CopyCell, idx
  <1> QED BY <1>4, <1>5

(* The recursive function of Regrown. *)
LEMMA Copying ==
  ASSUME Shape, NEW ncap \in Nat, ncap >= cap
  PROVE  \E f \in [0..(max + 1) -> Cells(ncap)] :
           /\ f[0] = [j \in 0..(ncap - 1) |-> Empty]
           /\ \A i \in 1..(max + 1) : f[i] = CopyCell(f[i - 1], i - 1, ncap)
           /\ Regrown(ncap) = f[max + 1]
  <1> DEFINE S == Cells(ncap)
             a == [j \in 0..(ncap - 1) |-> Empty]
             n == max + 1
             F == [i \in 1..n |-> [c \in S |-> CopyCell(c, i - 1, ncap)]]
             copy[i \in 0..n] == IF i = 0 THEN a ELSE CopyCell(copy[i - 1], i - 1, ncap)
  <1>0. Regrown(ncap) = copy[n]
    BY DEF Regrown
  <1>1. a \in S /\ n \in Nat /\ n > 0
    BY ShapeFacts, EmptyEntry DEF Cells
  <1>2. ASSUME NEW i \in 1..n PROVE i - 1 \in 0..max /\ i - 1 \in 0..n
    BY ShapeFacts
  <1>3. ASSUME NEW i \in 1..n, NEW c \in S PROVE CopyCell(c, i - 1, ncap) \in S
    BY <1>2, CopyCellType
  <1> HIDE DEF S, a, n
  <1>4. F \in [1..n -> [S -> S]]
    BY <1>3
  <1>5. PICK f \in [0..n -> S] : f[0] = a /\ \A i \in 1..n : f[i] = F[i][f[i - 1]]
    <2> HIDE DEF F
    <2>1. F \in Steps(S, n)
      BY <1>4 DEF Steps
    <2>2. PICK f : Iterates(f, S, a, n, F)
      BY <1>1, <2>1, PrimitiveRecursion
    <2> QED BY <2>2 DEF Iterates
  <1>6. \A i \in 1..n : f[i] = CopyCell(f[i - 1], i - 1, ncap)
    BY <1>2, <1>5
  <1> HIDE DEF F
  <1>7. f = [i \in 0..n |-> IF i = 0 THEN a ELSE CopyCell(f[i - 1], i - 1, ncap)]
    BY <1>1, <1>5, <1>6
  <1>8. copy = [i \in 0..n |-> IF i = 0 THEN a ELSE CopyCell(copy[i - 1], i - 1, ncap)]
    BY <1>7
  <1> HIDE DEF copy
  <1>9. copy[0] = a /\ \A i \in 1..n : copy[i] = CopyCell(copy[i - 1], i - 1, ncap)
    BY <1>1, <1>8
  <1>10. copy \in [0..n -> S]
    <2> DEFINE G == {i \in 0..n : copy[i] \in S}
    <2>1. 0 \in G
      BY <1>1, <1>9
    <2>2. ASSUME NEW i \in 0..(n - 1), i \in G PROVE i + 1 \in G
      <3>1. i + 1 \in 1..n /\ (i + 1) - 1 = i
        BY <1>1
      <3>2. copy[i + 1] = CopyCell(copy[i], i, ncap)
        BY <1>9, <3>1
      <3>3. CopyCell(copy[i], (i + 1) - 1, ncap) \in S
        BY <1>3, <2>2, <3>1
      <3> QED BY <1>1, <3>1, <3>2, <3>3
    <2>3. \A i \in 0..n : i \in G
      <3> HIDE DEF G
      <3> QED BY <1>1, <2>1, <2>2, UpTo
    <2> QED BY <1>8, <2>3
  <1> QED BY <1>0, <1>9, <1>10 DEF S, a, n

(* A map with fewer entries than cells has an empty one among the first m, and
   with two fewer one that is not idx. *)
LEMMA RoomBelow ==
  ASSUME NEW n \in Nat, NEW c \in Cells(n), NEW m \in Nat, m <= n,
         NEW U, U = UsedCells(c) \/ \E x : U = UsedCells(c) \cup {x},
         IsFiniteSet(U), Cardinality(U) < m
  PROVE  \E j \in 0..(m - 1) : j \notin U /\ ~Used(c, j)
  <1> SUFFICES ASSUME \A j \in 0..(m - 1) : j \in U \/ Used(c, j) PROVE FALSE
    OBVIOUS
  <1>1. DOMAIN c = 0..(n - 1)
    BY DEF Cells
  <1>2. 0..(m - 1) \subseteq U
    BY <1>1 DEF UsedCells
  <1>3. IsFiniteSet(0..(m - 1)) /\ Cardinality(0..(m - 1)) <= Cardinality(U)
    BY <1>2, FS_Subset
  <1>4. Cardinality(0..(m - 1)) = m
    <2>1. Cardinality(0..(m - 1)) = IF 0 > m - 1 THEN 0 ELSE m - 1 - 0 + 1
      BY FS_Interval
    <2> QED BY <2>1
  <1>5. Cardinality(U) \in Nat
    BY FS_CardinalityType
  <1> QED BY <1>3, <1>4, <1>5

(* Filling one cell. *)
Fill(c, t, e) == [c EXCEPT ![t] = e]

LEMMA FillFacts ==
  ASSUME NEW n \in Nat, NEW c \in Cells(n), NEW t \in 0..(n - 1), ~Used(c, t),
         NEW e \in Entry, e.key # NULL
  PROVE  /\ Fill(c, t, e) \in Cells(n)
         /\ UsedCells(Fill(c, t, e)) = UsedCells(c) \cup {t}
         /\ \A x : x.key # NULL => (In(Fill(c, t, e), x) <=> In(c, x) \/ x = e)
  <1> DEFINE d == Fill(c, t, e)
  <1>1. d \in Cells(n) /\ d[t] = e /\ \A i \in 0..(n - 1) : i # t => d[i] = c[i]
    BY DEF Cells, Fill
  <1>2. DOMAIN c = 0..(n - 1) /\ DOMAIN d = 0..(n - 1)
    BY <1>1 DEF Cells
  <1> HIDE DEF d
  <1>3. UsedCells(d) = UsedCells(c) \cup {t}
    BY <1>1, <1>2 DEF UsedCells, Used
  <1>4. ASSUME NEW x, x.key # NULL PROVE In(d, x) <=> In(c, x) \/ x = e
    <2>1. In(d, x) => In(c, x) \/ x = e
      BY <1>1, <1>2 DEF In
    <2>2. x = e => In(d, x)
      BY <1>1, <1>2 DEF In
    <2>3. ASSUME NEW i \in 0..(n - 1), c[i] = x PROVE In(d, x)
      <3>1. i # t
        BY <1>4, <2>3 DEF Used
      <3> QED BY <1>1, <1>2, <2>3, <3>1 DEF In
    <2> QED BY <1>2, <2>1, <2>2, <2>3 DEF In
  <1> QED BY <1>1, <1>3, <1>4 DEF d

(* What map_grow copies: every entry up to max, each into an empty cell. *)
LEMMA RegrownFacts ==
  ASSUME Shape, NEW ncap \in Nat, ncap >= cap
  PROVE  /\ Regrown(ncap) \in Cells(ncap)
         /\ IsFiniteSet(UsedCells(Regrown(ncap)))
         /\ Cardinality(UsedCells(Regrown(ncap))) <= max + 1
         /\ \A e : e.key # NULL => (In(Regrown(ncap), e) <=> \E j \in 0..max : cell[j] = e)
  <1> DEFINE n == max + 1
             Copied(c, i) ==
               /\ IsFiniteSet(UsedCells(c)) /\ Cardinality(UsedCells(c)) <= i
               /\ \A e : e.key # NULL => (In(c, e) <=> \E j \in 0..(i - 1) : cell[j] = e)
  <1>0. n \in Nat /\ n <= cap /\ cap \in Nat \ {0} /\ cell \in Cells(cap)
    BY ShapeFacts
  <1>1. PICK f \in [0..n -> Cells(ncap)] :
           /\ f[0] = [j \in 0..(ncap - 1) |-> Empty]
           /\ \A i \in 1..n : f[i] = CopyCell(f[i - 1], i - 1, ncap)
           /\ Regrown(ncap) = f[n]
    BY Copying
  <1> DEFINE G == {i \in 0..n : Copied(f[i], i)}
  <1>2. 0 \in G
    <2>1. DOMAIN f[0] = 0..(ncap - 1) /\ \A i \in DOMAIN f[0] : f[0][i].key = NULL
      BY <1>1, EmptyEntry
    <2>2. UsedCells(f[0]) = {}
      BY <2>1 DEF UsedCells, Used
    <2>3. IsFiniteSet(UsedCells(f[0])) /\ Cardinality(UsedCells(f[0])) <= 0
      BY <2>2, FS_EmptySet
    <2>4. \A e : e.key # NULL => ~In(f[0], e)
      BY <2>1 DEF In
    <2>5. 0..(0 - 1) = {}
      OBVIOUS
    <2>6. 0 \in 0..n
      BY <1>0
    <2> QED BY <2>3, <2>4, <2>5, <2>6
  <1>3. ASSUME NEW i \in 0..(n - 1), i \in G PROVE i + 1 \in G
    <2> DEFINE c == f[i]
    <2>1. i \in 0..max /\ i + 1 \in 1..n /\ i + 1 \in 0..n /\ i \in 0..n /\ i < cap
          /\ i \in 0..(cap - 1) /\ (i + 1) - 1 = i
      BY <1>0, ShapeFacts
    <2>2. c \in Cells(ncap) /\ f[i + 1] = CopyCell(c, i, ncap)
      BY <1>1, <2>1
    <2>3. Copied(c, i)
      BY <1>3
    <2>4. Cardinality(UsedCells(c)) \in Nat
      BY <2>3, FS_CardinalityType
    <2>5. \A e : (\E j \in 0..i : cell[j] = e) <=> (\E j \in 0..(i - 1) : cell[j] = e) \/ e = cell[i]
      <3>1. 0..i = 0..(i - 1) \cup {i}
        BY <2>1
      <3> QED BY <3>1, Zenon
    <2> HIDE DEF c
    <2>6. CASE ~Used(cell, i)
      <3>1. f[i + 1] = c
        BY <2>2, <2>6 DEF CopyCell
      <3>2. Copied(c, i + 1)
        BY <2>1, <2>3, <2>4, <2>5, <2>6 DEF Used
      <3> HIDE DEF Copied
      <3> QED BY <2>1, <3>1, <3>2
    <2>7. CASE Used(cell, i)
      <3>1. PICK z \in 0..(cap - 1) : ~Used(c, z)
        <4>1. Cardinality(UsedCells(c)) < cap /\ IsFiniteSet(UsedCells(c))
          BY <1>0, <2>1, <2>3, <2>4
        <4> QED BY <1>0, <2>2, <4>1, RoomBelow
      <3>2. PICK t \in 0..(ncap - 1) : ~Used(c, t) /\ f[i + 1] = [c EXCEPT ![t] = cell[i]]
        BY <2>1, <2>2, <2>7, <3>1, CopyCellFree
      <3>3. cell[i] \in Entry /\ cell[i].key # NULL
        BY <1>0, <2>1, <2>7, EntryFacts DEF Used
      <3>4. /\ UsedCells(f[i + 1]) = UsedCells(c) \cup {t}
            /\ \A x : x.key # NULL => (In(f[i + 1], x) <=> In(c, x) \/ x = cell[i])
        <4>1. f[i + 1] = Fill(c, t, cell[i])
          BY <3>2 DEF Fill
        <4>2. c \in Cells(ncap) /\ ~Used(c, t)
          BY <2>2, <3>2
        <4> QED BY <3>3, <4>1, <4>2, FillFacts
      <3>5. IsFiniteSet(UsedCells(f[i + 1])) /\ Cardinality(UsedCells(f[i + 1])) <= i + 1
        <4>1. t \notin UsedCells(c)
          BY <3>2 DEF UsedCells
        <4>2. Cardinality(UsedCells(c) \cup {t}) = Cardinality(UsedCells(c)) + 1
              /\ IsFiniteSet(UsedCells(c) \cup {t})
          BY <2>3, <4>1, FS_AddElement
        <4> QED BY <2>1, <2>3, <2>4, <3>4, <4>2
      <3>6. ASSUME NEW e, e.key # NULL PROVE In(f[i + 1], e) <=> \E j \in 0..i : cell[j] = e
        <4>1. In(f[i + 1], e) <=> In(c, e) \/ e = cell[i]
          BY <3>4, <3>6
        <4>2. In(c, e) <=> \E j \in 0..(i - 1) : cell[j] = e
          BY <2>3, <3>6
        <4> QED BY <2>5, <4>1, <4>2
      <3>7. Copied(f[i + 1], i + 1)
        BY <2>1, <3>5, <3>6
      <3> HIDE DEF Copied
      <3> QED BY <2>1, <3>7
    <2> QED BY <2>6, <2>7
  <1>4. Copied(f[n], n)
    <2>1. \A i \in 0..n : i \in G
      <3> HIDE DEF G, n
      <3> QED BY <1>0, <1>2, <1>3, UpTo
    <2>2. n \in G
      BY <1>0, <2>1
    <2> HIDE DEF Copied
    <2> QED BY <2>2
  <1>5. n - 1 = max /\ n \in 0..n
    BY <1>0, ShapeFacts
  <1> QED BY <1>1, <1>4, <1>5

(* The map that has grown keeps an empty cell besides any one of its cells. *)
LEMMA RoomAfterGrowth ==
  ASSUME Shape, NEW idx
  PROVE  \E j \in 0..(NewCap - 1) : j # idx /\ ~Used(Regrown(NewCap), j)
  <1> DEFINE R == Regrown(NewCap)
             U == UsedCells(R) \cup {idx}
  <1>1. /\ NewCap \in Nat /\ NewCap >= cap /\ NewCap >= max + 3 /\ max \in Nat
        /\ R \in Cells(NewCap) /\ IsFiniteSet(UsedCells(R))
        /\ Cardinality(UsedCells(R)) <= max + 1
    BY ShapeFacts, RegrownFacts
  <1>2. Cardinality(UsedCells(R)) \in Nat
    BY <1>1, FS_CardinalityType
  <1> HIDE DEF R
  <1>3. IsFiniteSet(U) /\ Cardinality(U) <= Cardinality(UsedCells(R)) + 1
    BY <1>1, <1>2, FS_AddElement
  <1>4. Cardinality(U) \in Nat
    BY <1>3, FS_CardinalityType
  <1>5. Cardinality(U) < NewCap
    BY <1>1, <1>2, <1>3, <1>4
  <1>6. \E j \in 0..(NewCap - 1) : j \notin U /\ ~Used(R, j)
    <2>1. \E x : U = UsedCells(R) \cup {x}
      OBVIOUS
    <2> HIDE DEF U
    <2> QED BY <1>1, <1>3, <1>5, <2>1, RoomBelow
  <1> QED BY <1>6 DEF R

(* map_insert's store into a map that has room. *)
LEMMA PutFacts ==
  ASSUME NEW n \in Nat \ {0}, NEW c \in Cells(n), NEW m \in 0..(n - 1), NEW k \in Keys,
         NEW e, NEW j \in 0..(n - 1), ~Used(c, j), PutIn(c, n, m, k, e)
  PROVE  /\ cap' = n /\ max' \in 0..(n - 1) /\ max' >= m
         /\ \E t \in 0..(n - 1) : ~Used(c, t) /\ t <= max' /\ cell' = Fill(c, t, e)
  <1> DEFINE t == Probe(c, Hash[k] % n, n)
  <1>1. Hash[k] % n \in Nat
    <2>1. Hash[k] \in Int
      BY MapAssumption
    <2>2. Hash[k] % n \in 0..(n - 1)
      BY <2>1, RemainderType
    <2> QED BY <2>2
  <1>2. t \in 0..(n - 1) /\ ~Used(c, t)
    BY <1>1, ProbeFree
  <1>3. cap' = n /\ cell' = Fill(c, t, e) /\ max' = IF t > m THEN t ELSE m
    BY DEF PutIn, Fill
  <1> HIDE DEF t
  <1>4. max' \in 0..(n - 1) /\ max' >= m /\ t <= max'
    BY <1>2, <1>3
  <1> QED BY <1>2, <1>3, <1>4

(* The search of map_get and map_del. *)
LEMMA FoundFacts ==
  ASSUME Shape, NEW k \in Keys
  PROVE  /\ Matches(k) # {} => Found(k) \in Matches(k)
         /\ Matches(k) \subseteq 0..max
         /\ \A i \in Matches(k) : cell[i].key = k
         /\ max # 0 => Matches(k) = {i \in 0..max : cell[i].key = k}
         /\ max = 0 => Matches(k) = {}
  <1>1. max \in Nat /\ max + 1 \in Nat \ {0}
    BY ShapeFacts
  <1>2. /\ Matches(k) \subseteq 0..max
        /\ \A i \in Matches(k) : cell[i].key = k
        /\ max # 0 => Matches(k) = {i \in 0..max : cell[i].key = k}
        /\ max = 0 => Matches(k) = {}
    BY DEF Matches
  <1>3. ASSUME Matches(k) # {} PROVE Found(k) \in Matches(k)
    <2>1. Clipped(k) \in Int
      <3>1. Hash[k] \in Int /\ cap \in Nat \ {0}
        BY MapAssumption, ShapeFacts
      <3>2. Hash[k] % cap \in Int
        BY <3>1, RemainderType
      <3> QED BY <1>1, <3>2 DEF Clipped
    <2>2. ASSUME NEW i \in Matches(k) PROVE Distance(k, i) \in Nat
      <3>1. i - Clipped(k) - 1 \in Int
        BY <1>1, <1>2, <2>1
      <3>2. (i - Clipped(k) - 1) % (max + 1) \in 0..((max + 1) - 1)
        BY <1>1, <3>1, RemainderType
      <3> QED BY <1>1, <3>2 DEF Distance
    <2> DEFINE T == {Distance(k, i) : i \in Matches(k)}
    <2>3. T \in SUBSET Nat /\ T # {}
      BY <1>3, <2>2
    <2>4. PICK d \in T : \A e \in T : d <= e
      <3> HIDE DEF T
      <3> QED BY <2>3, LeastOf
    <2>5. \E i \in Matches(k) : \A j \in Matches(k) : Distance(k, i) <= Distance(k, j)
      BY <2>4
    <2> QED BY <2>5 DEF Found
  <1> QED BY <1>2, <1>3

-----------------------------------------------------------------------------
(* The entry map_insert stores, and what it stores after map_grow. *)
Fresh(k, v) == [key |-> k, val |-> v, h |-> Hash[k]]
Spoiled(k) == [key |-> JUNK, val |-> JUNK, h |-> Hash[k]]

LEMMA NewEntries ==
  ASSUME NEW k \in Keys, NEW v \in Vals
  PROVE  /\ Fresh(k, v) \in Entry /\ Fresh(k, v).key = k /\ Fresh(k, v).val = v
         /\ Fresh(k, v).h = Hash[k]
         /\ Spoiled(k) \in Entry /\ Spoiled(k).key = JUNK
         /\ k # NULL /\ v # NULL /\ JUNK # NULL /\ JUNK \notin Keys
  <1>1. Hash[k] \in Nat
    BY MapAssumption
  <1>2. k # NULL /\ v # NULL /\ JUNK # NULL /\ JUNK \notin Keys
    BY MapAssumption
  <1> QED BY <1>1, <1>2 DEF Fresh, Spoiled, Entry

(* map_insert: into a free cell of the map, or into one of the map grown. *)
Stays(c, k, v) ==
  /\ HasRoom(c) /\ grown' = grown /\ cap' = cap /\ max' \in 0..(cap - 1) /\ max' >= max
  /\ \E t \in 0..(cap - 1) : ~Used(c, t) /\ t <= max' /\ cell' = Fill(c, t, Fresh(k, v))
Grows(c, k) ==
  /\ ~HasRoom(c) /\ grown' = TRUE /\ cap' = NewCap /\ max' \in 0..(NewCap - 1)
  /\ \E t \in 0..(NewCap - 1) : /\ ~Used(Regrown(NewCap), t)
                                /\ cell' = Fill(Regrown(NewCap), t, Spoiled(k))

LEMMA InsertFacts ==
  ASSUME Shape, NEW c \in Cells(cap), NEW k \in Keys, NEW v \in Vals, map_insert(c, k, v)
  PROVE  Stays(c, k, v) \/ Grows(c, k)
  <1>0. cap \in Nat \ {0} /\ max \in 0..(cap - 1) /\ NewCap \in Nat \ {0} /\ NewCap >= cap
    BY ShapeFacts
  <1>1. CASE HasRoom(c) /\ PutIn(c, cap, max, k, Fresh(k, v)) /\ grown' = grown
    <2>1. DOMAIN c = 0..(cap - 1)
      BY DEF Cells
    <2>2. PICK j \in 0..(cap - 1) : ~Used(c, j)
      BY <1>1, <2>1 DEF HasRoom
    <2>3. /\ cap' = cap /\ max' \in 0..(cap - 1) /\ max' >= max
          /\ \E t \in 0..(cap - 1) : ~Used(c, t) /\ t <= max' /\ cell' = Fill(c, t, Fresh(k, v))
      BY <1>0, <1>1, <2>2, PutFacts
    <2> QED BY <1>1, <2>3 DEF Stays
  <1>2. CASE /\ ~HasRoom(c) /\ PutIn(Regrown(NewCap), NewCap, 0, k, Spoiled(k)) /\ grown' = TRUE
    <2>1. PICK j \in 0..(NewCap - 1) : ~Used(Regrown(NewCap), j)
      BY RoomAfterGrowth
    <2>2. Regrown(NewCap) \in Cells(NewCap) /\ 0 \in 0..(NewCap - 1)
      BY <1>0, RegrownFacts
    <2>3. /\ cap' = NewCap /\ max' \in 0..(NewCap - 1)
          /\ \E t \in 0..(NewCap - 1) : /\ ~Used(Regrown(NewCap), t)
                                        /\ cell' = Fill(Regrown(NewCap), t, Spoiled(k))
      BY <1>0, <1>2, <2>1, <2>2, PutFacts
    <2> QED BY <1>2, <2>3 DEF Grows
  <1> QED BY <1>1, <1>2 DEF map_insert, Fresh, Spoiled

LEMMA InsertShape ==
  ASSUME Shape, NEW c \in Cells(cap), NEW k \in Keys, NEW v \in Vals,
         Stays(c, k, v) \/ Grows(c, k)
  PROVE  /\ cap' \in Nat /\ cap' >= 4 /\ max' \in 0..(cap' - 1) /\ cell' \in Cells(cap')
         /\ grown' \in BOOLEAN
  <1>0. cap \in Nat /\ cap >= 4 /\ NewCap \in Nat /\ NewCap >= cap
    BY ShapeFacts
  <1>1. CASE Stays(c, k, v)
    <2>1. PICK t \in 0..(cap - 1) : ~Used(c, t) /\ cell' = Fill(c, t, Fresh(k, v))
      BY <1>1 DEF Stays
    <2>2. cell' \in Cells(cap)
      BY <1>0, <2>1, NewEntries, FillFacts
    <2>3. cap' = cap /\ max' \in 0..(cap - 1) /\ grown' = grown
      BY <1>1 DEF Stays
    <2>4. grown' \in BOOLEAN
      BY <2>3, Zenon DEF Shape, TypeOK
    <2> QED BY <1>0, <2>2, <2>3, <2>4
  <1>2. CASE Grows(c, k)
    <2>1. PICK t \in 0..(NewCap - 1) : /\ ~Used(Regrown(NewCap), t)
                                       /\ cell' = Fill(Regrown(NewCap), t, Spoiled(k))
      BY <1>2 DEF Grows
    <2>2. cell' \in Cells(NewCap)
      BY <1>0, <2>1, NewEntries, RegrownFacts, FillFacts
    <2> QED BY <1>0, <1>2, <2>2 DEF Grows
  <1> QED BY <1>1, <1>2

(* map_del. *)
LEMMA DeletedFacts ==
  ASSUME Shape, NEW k \in Keys
  PROVE  /\ Deleted(k) \in Cells(cap)
         /\ \A i \in 0..(cap - 1) : Deleted(k)[i] = cell[i]
                                    \/ (cell[i].key = k /\ Deleted(k)[i] = Empty)
         /\ Matches(k) # {} => \E i \in 0..(cap - 1) : cell[i].key = k /\ ~Used(Deleted(k), i)
         /\ Matches(k) = {} => Deleted(k) = cell
  <1>0. cap \in Nat \ {0} /\ max \in 0..(cap - 1) /\ cell \in Cells(cap)
    BY ShapeFacts
  <1>1. CASE Matches(k) = {}
    <2>1. Deleted(k) = cell
      BY <1>1 DEF Deleted
    <2> QED BY <1>0, <1>1, <2>1, Zenon
  <1>2. CASE Matches(k) # {}
    <2> DEFINE t == Found(k)
    <2>1. t \in 0..(cap - 1) /\ cell[t].key = k
      BY <1>0, <1>2, FoundFacts
    <2>2. Deleted(k) = [cell EXCEPT ![t] = Empty]
      BY <1>2 DEF Deleted
    <2> HIDE DEF t
    <2>3. Deleted(k) \in Cells(cap) /\ Deleted(k)[t] = Empty
          /\ \A i \in 0..(cap - 1) : i # t => Deleted(k)[i] = cell[i]
      BY <1>0, <2>1, <2>2, EmptyEntry DEF Cells
    <2>4. ~Used(Deleted(k), t)
      BY <2>3, EmptyEntry DEF Used
    <2>5. \A i \in 0..(cap - 1) : Deleted(k)[i] = cell[i] \/ (cell[i].key = k /\ Deleted(k)[i] = Empty)
      BY <2>1, <2>3
    <2> QED BY <1>2, <2>1, <2>3, <2>4, <2>5, Zenon
  <1> QED BY <1>1, <1>2

-----------------------------------------------------------------------------
(* The map c, whose entries lie in the cells up to m, holds s: every entry has
   a key of its own, its hash and its value, and no key with a value is missing. *)
Holds(c, m, s) ==
  /\ \A i \in DOMAIN c : Used(c, i) =>
       /\ i <= m /\ c[i].key \in Keys
       /\ s[c[i].key] # NULL /\ c[i] = Fresh(c[i].key, s[c[i].key])
  /\ \A i, j \in DOMAIN c : Used(c, i) /\ c[i].key = c[j].key => i = j
  /\ \A k \in Keys : s[k] # NULL => \E i \in DOMAIN c : c[i].key = k

(* The inductive invariant. *)
MapInv == Shape /\ (~grown /\ ~blind => Holds(cell, max, stored))

LEMMA MapInit == Init => MapInv
  <1> SUFFICES ASSUME Init PROVE MapInv
    OBVIOUS
  <1>1. Shape
    <2>1. cell \in [0..(cap - 1) -> Entry]
      BY EmptyEntry DEF Init
    <2>2. cap \in Nat /\ cap >= 4 /\ max \in 0..(cap - 1)
      BY MapAssumption DEF Init
    <2>3. stored \in [Keys -> Vals \cup {NULL}] /\ grown \in BOOLEAN /\ blind \in BOOLEAN
      BY DEF Init
    <2> QED BY <2>1, <2>2, <2>3 DEF Shape, TypeOK
  <1>2. \A i \in DOMAIN cell : cell[i].key = NULL
    BY EmptyEntry DEF Init
  <1>3. \A k \in Keys : stored[k] = NULL
    BY DEF Init
  <1> QED BY <1>1, <1>2, <1>3 DEF MapInv, Holds, Used

(* Deleting an entry that the search can see. *)
LEMMA DeletedHolds ==
  ASSUME Shape, Holds(cell, max, stored), NEW k \in Keys, ~Overlooked(k)
  PROVE  Holds(Deleted(k), max, [stored EXCEPT ![k] = NULL])
  <1> DEFINE d == Deleted(k)
             s == [stored EXCEPT ![k] = NULL]
  <1>0. /\ cap \in Nat \ {0} /\ max \in 0..(cap - 1) /\ DOMAIN cell = 0..(cap - 1)
        /\ stored \in [Keys -> Vals \cup {NULL}]
    BY ShapeFacts DEF Shape, TypeOK, Cells
  <1>1. DOMAIN d = 0..(cap - 1)
    BY DeletedFacts DEF Cells
  <1>2. s[k] = NULL /\ \A j \in Keys : j # k => s[j] = stored[j]
    BY <1>0
  <1>3. \A i \in 0..(cap - 1) : d[i] = cell[i] \/ (cell[i].key = k /\ d[i] = Empty)
    BY DeletedFacts
  <1>4. ASSUME NEW i \in 0..(cap - 1), cell[i].key = k PROVE d[i] = Empty
    <2>1. k # NULL
      BY MapAssumption
    <2>2. Used(cell, i) /\ i <= max
      BY <1>0, <1>4, <2>1 DEF Holds, Used
    <2>3. max # 0
      BY <1>0, <1>4, <2>2 DEF Overlooked
    <2>4. i \in Matches(k)
      BY <1>0, <1>4, <2>2, <2>3, FoundFacts
    <2>5. PICK t \in 0..(cap - 1) : cell[t].key = k /\ ~Used(d, t)
      BY <2>4, DeletedFacts
    <2>6. t = i
      BY <1>0, <1>4, <2>2, <2>5 DEF Holds
    <2>7. d[i] # cell[i]
      BY <2>2, <2>5, <2>6 DEF Used
    <2> QED BY <1>3, <2>7
  <1> HIDE DEF d, s
  <1>5. ASSUME NEW i \in 0..(cap - 1), Used(d, i)
        PROVE  d[i] = cell[i] /\ Used(cell, i) /\ cell[i].key # k
    <2>1. d[i] # Empty
      BY <1>5, EmptyEntry DEF Used
    <2> QED BY <1>3, <1>4, <1>5, <2>1 DEF Used
  <1>6. ASSUME NEW i \in 0..(cap - 1), Used(d, i)
        PROVE  /\ i <= max /\ d[i].key \in Keys
               /\ s[d[i].key] # NULL /\ d[i] = Fresh(d[i].key, s[d[i].key])
    BY <1>0, <1>2, <1>5, <1>6 DEF Holds
  <1>7. ASSUME NEW i \in 0..(cap - 1), NEW j \in 0..(cap - 1), Used(d, i), d[i].key = d[j].key
        PROVE  i = j
    <2>1. Used(d, j)
      BY <1>7 DEF Used
    <2> QED BY <1>0, <1>5, <1>7, <2>1 DEF Holds
  <1>8. ASSUME NEW j \in Keys, s[j] # NULL PROVE \E i \in 0..(cap - 1) : d[i].key = j
    <2>1. j # k /\ stored[j] # NULL
      BY <1>2, <1>8
    <2>2. PICK i \in 0..(cap - 1) : cell[i].key = j
      BY <1>0, <2>1 DEF Holds
    <2>3. d[i] = cell[i]
      BY <1>3, <2>1, <2>2
    <2> QED BY <2>2, <2>3
  <1>9. Holds(d, max, s)
    BY <1>1, <1>6, <1>7, <1>8 DEF Holds
  <1> QED BY <1>9 DEF d, s

(* Storing under a key that has no value. *)
LEMMA FillHolds ==
  ASSUME NEW n \in Nat, NEW c \in Cells(n), NEW m \in Nat, NEW s \in [Keys -> Vals \cup {NULL}],
         Holds(c, m, s), NEW k \in Keys, NEW v \in Vals, s[k] = NULL,
         NEW t \in 0..(n - 1), ~Used(c, t), NEW l \in Nat, m <= l, t <= l
  PROVE  Holds(Fill(c, t, Fresh(k, v)), l, [s EXCEPT ![k] = v])
  <1> DEFINE d == Fill(c, t, Fresh(k, v))
             r == [s EXCEPT ![k] = v]
  <1>0. DOMAIN c = 0..(n - 1) /\ DOMAIN d = 0..(n - 1)
    BY DEF Cells, Fill
  <1>1. d[t] = Fresh(k, v) /\ \A i \in 0..(n - 1) : i # t => d[i] = c[i]
    BY <1>0 DEF Fill
  <1>2. r[k] = v /\ v # NULL /\ \A j \in Keys : j # k => r[j] = s[j]
    BY NewEntries
  <1>3. Fresh(k, v).key = k /\ k # NULL
    BY NewEntries
  <1> HIDE DEF d, r
  <1>4. ASSUME NEW i \in 0..(n - 1), Used(d, i), i # t
        PROVE  /\ d[i] = c[i] /\ Used(c, i) /\ i <= m /\ c[i].key \in Keys /\ c[i].key # k
               /\ s[c[i].key] # NULL /\ c[i] = Fresh(c[i].key, s[c[i].key])
    <2>1. d[i] = c[i] /\ Used(c, i)
      BY <1>1, <1>4 DEF Used
    <2> QED BY <1>0, <2>1 DEF Holds
  <1>5. ASSUME NEW i \in 0..(n - 1), Used(d, i)
        PROVE  /\ i <= l /\ d[i].key \in Keys
               /\ r[d[i].key] # NULL /\ d[i] = Fresh(d[i].key, r[d[i].key])
    <2>1. CASE i = t
      BY <1>1, <1>2, <1>3, <2>1
    <2>2. CASE i # t
      BY <1>2, <1>4, <1>5, <2>2
    <2> QED BY <2>1, <2>2
  <1>6. ASSUME NEW i \in 0..(n - 1), NEW j \in 0..(n - 1), Used(d, i), d[i].key = d[j].key
        PROVE  i = j
    <2>1. Used(d, j)
      BY <1>6 DEF Used
    <2>2. i = t <=> j = t
      BY <1>1, <1>3, <1>4, <1>6, <2>1
    <2>3. CASE i # t
      BY <1>0, <1>4, <1>6, <2>1, <2>2, <2>3 DEF Holds
    <2> QED BY <2>2, <2>3
  <1>7. ASSUME NEW j \in Keys, r[j] # NULL PROVE \E i \in 0..(n - 1) : d[i].key = j
    <2>1. CASE j = k
      BY <1>1, <1>3, <2>1
    <2>2. CASE j # k
      <3>1. PICK i \in 0..(n - 1) : c[i].key = j
        BY <1>0, <1>2, <1>7, <2>2 DEF Holds
      <3>2. i # t
        BY <3>1, MapAssumption DEF Used
      <3> QED BY <1>1, <3>1, <3>2
    <2> QED BY <2>1, <2>2
  <1>8. Holds(d, l, r)
    BY <1>0, <1>5, <1>6, <1>7 DEF Holds
  <1> QED BY <1>8 DEF d, r

(* An insertion into a map that stays, or one that grows. *)
LEMMA InsertHolds ==
  ASSUME Shape, NEW c \in Cells(cap), NEW k \in Keys, NEW v \in Vals,
         NEW s \in [Keys -> Vals \cup {NULL}], s[k] = NULL, Holds(c, max, s),
         Stays(c, k, v)
  PROVE  Holds(cell', max', [s EXCEPT ![k] = v])
  <1>0. cap \in Nat /\ max \in Nat
    BY ShapeFacts
  <1>1. PICK t \in 0..(cap - 1) : ~Used(c, t) /\ t <= max' /\ cell' = Fill(c, t, Fresh(k, v))
    BY DEF Stays
  <1>2. max' \in Nat /\ max <= max'
    BY <1>0 DEF Stays
  <1> QED BY <1>0, <1>1, <1>2, FillHolds

LEMMA MapNext == ASSUME MapInv, [Next]_vars PROVE MapInv'
  <1>0. Shape /\ cell \in Cells(cap) /\ stored \in [Keys -> Vals \cup {NULL}]
    BY ShapeFacts DEF MapInv, Shape, TypeOK
  <1>1. CASE UNCHANGED vars
    BY <1>1 DEF vars, MapInv, Shape, TypeOK, Holds, Used
  <1>2. ASSUME NEW k \in Keys, Delete(k) PROVE MapInv'
    <2>1. Shape'
      <3>1. cell' \in Cells(cap)
        BY <1>0, <1>2, DeletedFacts DEF Delete
      <3>2. stored' \in [Keys -> Vals \cup {NULL}]
        BY <1>0, <1>2 DEF Delete
      <3>3. blind' \in BOOLEAN /\ grown' \in BOOLEAN
        BY <1>0, <1>2, Zenon DEF Delete, Shape, TypeOK
      <3> QED BY <1>0, <1>2, <3>1, <3>2, <3>3 DEF Delete, Shape, TypeOK, Cells
    <2>2. ASSUME ~grown', ~blind' PROVE Holds(cell', max', stored')
      <3>1. ~grown /\ ~blind /\ ~Overlooked(k)
        BY <1>2, <2>2 DEF Delete
      <3>2. Holds(cell, max, stored)
        BY <3>1 DEF MapInv
      <3> QED BY <1>0, <1>2, <3>1, <3>2, DeletedHolds DEF Delete
    <2> QED BY <2>1, <2>2 DEF MapInv
  <1>3. ASSUME NEW k \in Keys, NEW v \in Vals, Insert(k, v) PROVE MapInv'
    <2>1. Stays(cell, k, v) \/ Grows(cell, k)
      BY <1>0, <1>3, InsertFacts DEF Insert
    <2>2. Shape'
      <3>1. stored' \in [Keys -> Vals \cup {NULL}]
        BY <1>0, <1>3 DEF Insert
      <3>2. blind' \in BOOLEAN
        BY <1>0, <1>3, Zenon DEF Insert, Shape, TypeOK
      <3> QED BY <1>0, <2>1, <3>1, <3>2, InsertShape DEF Shape, TypeOK, Cells
    <2>3. ASSUME ~grown', ~blind' PROVE Holds(cell', max', stored')
      <3>1. Stays(cell, k, v) /\ ~grown /\ ~blind
        BY <1>3, <2>1, <2>3 DEF Grows, Stays, Insert
      <3>2. Holds(cell, max, stored) /\ stored[k] = NULL /\ stored' = [stored EXCEPT ![k] = v]
        BY <1>3, <3>1 DEF MapInv, Insert
      <3> QED BY <1>0, <3>1, <3>2, InsertHolds
    <2> QED BY <2>2, <2>3 DEF MapInv
  <1>4. ASSUME NEW k \in Keys, NEW v \in Vals, Set(k, v) PROVE MapInv'
    <2> DEFINE c == Deleted(k)
               s == [stored EXCEPT ![k] = NULL]
    <2>0. c \in Cells(cap) /\ s \in [Keys -> Vals \cup {NULL}] /\ s[k] = NULL
          /\ [s EXCEPT ![k] = v] = [stored EXCEPT ![k] = v]
      BY <1>0, DeletedFacts
    <2>1. Stays(c, k, v) \/ Grows(c, k)
      BY <1>0, <1>4, <2>0, InsertFacts DEF Set
    <2>2. Shape'
      <3>1. stored' \in [Keys -> Vals \cup {NULL}]
        BY <1>0, <1>4 DEF Set
      <3>2. blind' \in BOOLEAN
        BY <1>0, <1>4, Zenon DEF Set, Shape, TypeOK
      <3> HIDE DEF c
      <3> QED BY <1>0, <2>0, <2>1, <3>1, <3>2, InsertShape DEF Shape, TypeOK, Cells
    <2>3. ASSUME ~grown', ~blind' PROVE Holds(cell', max', stored')
      <3>1. Stays(c, k, v) /\ ~grown /\ ~blind /\ ~Overlooked(k)
        <4> HIDE DEF c
        <4>1. ~blind /\ ~Overlooked(k)
          BY <1>4, <2>3, Zenon DEF Set
        <4>2. Stays(c, k, v) /\ ~grown
          BY <2>1, <2>3 DEF Grows, Stays
        <4> QED BY <4>1, <4>2
      <3>2. Holds(c, max, s)
        BY <1>0, <3>1, DeletedHolds DEF MapInv
      <3>3. stored' = [s EXCEPT ![k] = v]
        BY <1>4, <2>0 DEF Set
      <3> HIDE DEF c, s
      <3> QED BY <1>0, <2>0, <3>1, <3>2, <3>3, InsertHolds
    <2> QED BY <2>2, <2>3 DEF MapInv
  <1> QED BY <1>1, <1>2, <1>3, <1>4 DEF Next

THEOREM Inductive == Spec => []MapInv
  BY MapInit, MapNext, PTL DEF Spec

(* Type correctness: max stays inside the map and every cell keeps its shape,
   through the copying of map_grow with its probe at the old capacity too. *)
THEOREM TypeCorrect == Spec => []TypeOK
  <1>1. MapInv => TypeOK
    BY DEF MapInv, Shape
  <1> QED BY <1>1, Inductive, PTL

(* Until the map grows, map_get is a lookup: after any insertions, deletions and
   replacements it returns the value stored last, except for the one entry of a
   map whose max is 0. *)
THEOREM Lookup == Spec => []GetIsLookup
  <1>1. ASSUME MapInv PROVE GetIsLookup
    <2> SUFFICES ASSUME ~grown, ~blind, NEW k \in Keys, ~Overlooked(k)
                 PROVE  map_get(k) = stored[k]
      BY DEF GetIsLookup
    <2>1. /\ Shape /\ Holds(cell, max, stored) /\ DOMAIN cell = 0..(cap - 1)
          /\ cap \in Nat \ {0} /\ max \in 0..(cap - 1) /\ k # NULL
      BY <1>1, ShapeFacts, MapAssumption DEF MapInv, Cells
    <2>2. ASSUME NEW i \in 0..(cap - 1), cell[i].key = k
          PROVE  i \in Matches(k) /\ cell[i].val = stored[k]
      <3>1. Used(cell, i)
        BY <2>1, <2>2 DEF Used
      <3>2. i <= max /\ stored[k] # NULL /\ cell[i] = Fresh(k, stored[k])
        BY <2>1, <2>2, <3>1 DEF Holds
      <3>3. max # 0
        BY <2>1, <2>2, <3>2 DEF Overlooked
      <3>4. i \in Matches(k)
        BY <2>1, <2>2, <3>2, <3>3, FoundFacts
      <3>5. cell[i].val = stored[k]
        BY <3>2 DEF Fresh
      <3> QED BY <3>4, <3>5
    <2>3. CASE Matches(k) = {}
      <3>1. stored[k] = NULL
        BY <2>1, <2>2, <2>3 DEF Holds
      <3> QED BY <2>3, <3>1 DEF map_get
    <2>4. CASE Matches(k) # {}
      <3>1. Found(k) \in 0..(cap - 1) /\ cell[Found(k)].key = k
        BY <2>1, <2>4, FoundFacts
      <3> QED BY <2>2, <2>4, <3>1 DEF map_get
    <2> QED BY <2>3, <2>4
  <1> QED BY <1>1, Inductive, PTL

(* The unreachable statement of map_insert is unreachable: the map it has grown
   has an empty cell other than the one where the probe starts. *)
THEOREM RoomToGrow == Spec => []GrowthFindsRoom
  <1>1. ASSUME MapInv PROVE GrowthFindsRoom
    <2> SUFFICES ASSUME NEW k \in Keys
                 PROVE  Probe(Regrown(NewCap), Hash[k] % NewCap, NewCap) # Hash[k] % NewCap
      BY DEF GrowthFindsRoom
    <2>1. Shape /\ NewCap \in Nat \ {0}
      BY <1>1, ShapeFacts DEF MapInv
    <2>2. Hash[k] % NewCap \in 0..(NewCap - 1)
      <3>1. Hash[k] \in Int
        BY MapAssumption
      <3> QED BY <2>1, <3>1, RemainderType
    <2>3. PICK j \in 0..(NewCap - 1) : j # Hash[k] % NewCap /\ ~Used(Regrown(NewCap), j)
      BY <2>1, RoomAfterGrowth
    <2> QED BY <2>1, <2>2, <2>3, ProbeLeaves
  <1> QED BY <1>1, Inductive, PTL

-----------------------------------------------------------------------------
(* A key keeps its entries when the map keeps every entry with that key. *)
LEMMA SameEntries ==
  ASSUME NEW j \in Keys, \A e : e.key = j => (In(cell', e) <=> In(cell, e))
  PROVE  Entries(j)' = Entries(j)
  BY DEF Entries, In

(* An insertion into the map c adds one entry, or moves those of a full map to
   one that has grown. *)
LEMMA StaysKeeps ==
  ASSUME Shape, NEW c \in Cells(cap), NEW k \in Keys, NEW v \in Vals, Stays(c, k, v),
         NEW e, e.key \in Keys
  PROVE  In(cell', e) <=> In(c, e) \/ e = Fresh(k, v)
  <1>1. PICK t \in 0..(cap - 1) : ~Used(c, t) /\ cell' = Fill(c, t, Fresh(k, v))
    BY DEF Stays
  <1>2. e.key # NULL /\ cap \in Nat
    BY MapAssumption, ShapeFacts
  <1> QED BY <1>1, <1>2, NewEntries, FillFacts

LEMMA GrowsKeeps ==
  ASSUME Shape, NEW k \in Keys, NEW v \in Vals, Grows(cell, k), NEW e, e.key \in Keys,
         Holds(cell, max, stored)
  PROVE  In(cell', e) <=> In(cell, e)
  <1>0. /\ e.key # NULL /\ cap \in Nat /\ max \in 0..(cap - 1) /\ DOMAIN cell = 0..(cap - 1)
        /\ NewCap \in Nat /\ NewCap >= cap
    BY MapAssumption, ShapeFacts DEF Cells
  <1>1. PICK t \in 0..(NewCap - 1) : /\ ~Used(Regrown(NewCap), t)
                                     /\ cell' = Fill(Regrown(NewCap), t, Spoiled(k))
    BY DEF Grows
  <1>2. In(cell', e) <=> In(Regrown(NewCap), e) \/ e = Spoiled(k)
    <2>1. Regrown(NewCap) \in Cells(NewCap)
      BY <1>0, RegrownFacts
    <2>2. Spoiled(k) \in Entry /\ Spoiled(k).key # NULL
      BY NewEntries
    <2> QED BY <1>0, <1>1, <2>1, <2>2, FillFacts
  <1>3. e # Spoiled(k)
    BY NewEntries
  <1>4. In(Regrown(NewCap), e) <=> \E j \in 0..max : cell[j] = e
    BY <1>0, RegrownFacts
  <1>5. \A i \in 0..(cap - 1) : cell[i] = e => i \in 0..max
    BY <1>0 DEF Holds, Used
  <1>6. (\E j \in 0..max : cell[j] = e) <=> In(cell, e)
    BY <1>0, <1>5 DEF In
  <1> QED BY <1>2, <1>3, <1>4, <1>6

LEMMA DeletedKeeps ==
  ASSUME Shape, NEW k \in Keys, NEW e, e.key \in Keys
  PROVE  /\ In(Deleted(k), e) => In(cell, e)
         /\ e.key # k => (In(cell, e) => In(Deleted(k), e))
  <1>0. DOMAIN cell = 0..(cap - 1) /\ DOMAIN Deleted(k) = 0..(cap - 1) /\ e # Empty
    <2>1. e # Empty
      BY EmptyEntry, MapAssumption
    <2> QED BY <2>1, ShapeFacts, DeletedFacts DEF Cells
  <1>1. \A i \in 0..(cap - 1) : Deleted(k)[i] = cell[i] \/ (cell[i].key = k /\ Deleted(k)[i] = Empty)
    BY DeletedFacts
  <1> QED BY <1>0, <1>1 DEF In

(* No operation drops or changes the entry of a key that its caller did not
   name, and map_set of the value that is there leaves the entry as it was;
   that includes the operation that makes the map grow. *)
THEOREM OthersUntouched == Spec => OthersKept
  <1>1. ASSUME MapInv, [Next]_vars
        PROVE  [\A j \in Keys : ~grown /\ ~blind /\ stored[j] # NULL /\ stored'[j] = stored[j]
                                 => Entries(j)' = Entries(j)]_vars
    <2> SUFFICES ASSUME Next, NEW j \in Keys, ~grown, ~blind, stored[j] # NULL,
                        stored'[j] = stored[j]
                 PROVE  Entries(j)' = Entries(j)
      BY <1>1
    <2>0. /\ Shape /\ cell \in Cells(cap) /\ Holds(cell, max, stored)
          /\ stored \in [Keys -> Vals \cup {NULL}] /\ DOMAIN cell = 0..(cap - 1)
      BY <1>1, ShapeFacts DEF MapInv, Shape, TypeOK, Cells
    <2>1. ASSUME NEW k \in Keys, Delete(k) PROVE Entries(j)' = Entries(j)
      <3>1. j # k
        BY <2>0, <2>1 DEF Delete
      <3>2. \A e : e.key = j => (In(cell', e) <=> In(cell, e))
        BY <2>0, <2>1, <3>1, DeletedKeeps DEF Delete
      <3> QED BY <3>2, SameEntries
    <2>2. ASSUME NEW k \in Keys, NEW v \in Vals, Insert(k, v) PROVE Entries(j)' = Entries(j)
      <3>1. j # k /\ Fresh(k, v).key = k
        BY <2>2, NewEntries DEF Insert
      <3>2. CASE Stays(cell, k, v)
        <4>1. \A e : e.key = j => (In(cell', e) <=> In(cell, e))
          BY <2>0, <3>1, <3>2, StaysKeeps
        <4> QED BY <4>1, SameEntries
      <3>3. CASE Grows(cell, k)
        <4>1. \A e : e.key = j => (In(cell', e) <=> In(cell, e))
          BY <2>0, <3>3, GrowsKeeps
        <4> QED BY <4>1, SameEntries
      <3> QED BY <2>0, <2>2, <3>2, <3>3, InsertFacts DEF Insert
    <2>3. ASSUME NEW k \in Keys, NEW v \in Vals, Set(k, v) PROVE Entries(j)' = Entries(j)
      <3> DEFINE c == Deleted(k)
      <3>0. c \in Cells(cap)
        BY <2>0, DeletedFacts
      <3>1. CASE Stays(c, k, v) /\ j # k
        <4>1. Fresh(k, v).key = k
          BY NewEntries
        <4>2. \A e : e.key = j => (In(cell', e) <=> In(c, e))
          <5> HIDE DEF c
          <5> QED BY <2>0, <3>0, <3>1, <4>1, StaysKeeps
        <4>3. \A e : e.key = j => (In(c, e) <=> In(cell, e))
          BY <2>0, <3>1, DeletedKeeps
        <4>4. \A e : e.key = j => (In(cell', e) <=> In(cell, e))
          BY <4>2, <4>3, Zenon
        <4> QED BY <4>4, SameEntries
      <3>2. CASE Stays(c, k, v) /\ j = k
        <4>1. v = stored[k]
          BY <2>0, <2>3, <3>2 DEF Set
        <4>2. ASSUME NEW e, e.key = j PROVE In(cell, e) <=> e = Fresh(k, v)
          <5>1. ASSUME NEW i \in 0..(cap - 1), cell[i].key = k PROVE cell[i] = Fresh(k, v)
            <6>1. Used(cell, i)
              BY <5>1, MapAssumption DEF Used
            <6> QED BY <2>0, <4>1, <5>1, <6>1 DEF Holds
          <5>2. \E i \in 0..(cap - 1) : cell[i].key = k
            BY <2>0, <3>2 DEF Holds
          <5> QED BY <2>0, <3>2, <4>2, <5>1, <5>2 DEF In
        <4>3. ASSUME NEW e, e.key = j PROVE In(cell', e) <=> In(cell, e)
          <5>1. In(cell', e) <=> In(c, e) \/ e = Fresh(k, v)
            <6> HIDE DEF c
            <6> QED BY <2>0, <3>0, <3>2, <4>3, StaysKeeps
          <5>2. In(c, e) => In(cell, e)
            BY <2>0, <4>3, DeletedKeeps
          <5> QED BY <4>2, <4>3, <5>1, <5>2, Zenon
        <4> QED BY <4>3, SameEntries
      <3>3. CASE Grows(c, k)
        <4>1. c = cell
          <5>1. DOMAIN c = 0..(cap - 1)
            BY <3>0 DEF Cells
          <5>2. \A i \in 0..(cap - 1) : Used(c, i)
            BY <3>3, <5>1 DEF Grows, HasRoom
          <5>3. Matches(k) = {}
            BY <2>0, <5>2, DeletedFacts
          <5> QED BY <2>0, <5>3, DeletedFacts
        <4>2. \A e : e.key = j => (In(cell', e) <=> In(cell, e))
          <5>1. Grows(cell, k)
            BY <3>3, <4>1
          <5> QED BY <2>0, <5>1, GrowsKeeps, <2>3
        <4> QED BY <4>2, SameEntries
      <3> QED BY <2>0, <2>3, <3>0, <3>1, <3>2, <3>3, InsertFacts DEF Set
    <2> QED BY <2>1, <2>2, <2>3 DEF Next
  <1> QED BY <1>1, Inductive, PTL DEF Spec, OthersKept
=============================================================================
