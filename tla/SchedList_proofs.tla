-------------------------- MODULE SchedList_proofs --------------------------
(***************************************************************************)
(* The linked lists of sched.c for any number of nodes and priorities:     *)
(* end is always the last node reached from start, and the pointer code    *)
(* implements the queue operators of module RunQueue.                      *)
(* The argument keeps, beside the memory, the lists it stands for: Heap    *)
(* says that memory and lists agree, every operation keeps it with the     *)
(* lists changed as the operators say, and what a walk along next visits   *)
(* is the list.                                                            *)
(***************************************************************************)
EXTENDS SchedList, SequenceTheorems, FiniteSetTheorems, WellFoundedInduction, TLAPS

(* A nonempty set of numbers has a smallest one. *)
LEMMA LeastOf ==
  ASSUME NEW T \in SUBSET Nat, T # {}
  PROVE  \E m \in T : \A k \in T : m <= k
  <1>1. PICK m \in T : \A k \in T : ~(<<k, m>> \in OpToRel(<, Nat))
    BY NatLessThanWellFounded, WFMin
  <1>2. ASSUME NEW k \in T, k < m PROVE FALSE
    <2>1. <<k, m>> \in OpToRel(<, Nat)
      BY <1>2 DEF OpToRel
    <2> QED BY <1>1, <2>1, Zenon
  <1> QED BY <1>2

(* Induction over the numbers up to n, for a set of numbers. *)
LEMMA UpTo ==
  ASSUME NEW n \in Nat, NEW G, 0 \in G, \A i \in 0..(n - 1) : i \in G => i + 1 \in G
  PROVE  \A i \in 0..n : i \in G
  <1> DEFINE B == {i \in 0..n : i \notin G}
  <1> SUFFICES ASSUME B # {} PROVE FALSE
    OBVIOUS
  <1>0. B \in SUBSET Nat
    OBVIOUS
  <1>1. PICK m \in B : \A k \in B : m <= k
    <2> HIDE DEF B
    <2> QED BY <1>0, LeastOf
  <1>2. m # 0 /\ m - 1 \in 0..(n - 1) /\ m - 1 \notin B
    BY <1>1
  <1> QED BY <1>2

(* A recursive function over 0..n exists: a is its first value and F[i] takes
   the value at i - 1 to the value at i. *)
Steps(S, n) == [1..n -> [S -> S]]
Iterates(f, S, a, n, F) ==
  /\ f \in [0..n -> S]
  /\ f[0] = a
  /\ \A i \in 1..n : f[i] = F[i][f[i - 1]]

LEMMA PrimitiveRecursion ==
  ASSUME NEW S, NEW a \in S, NEW n \in Nat, NEW F \in Steps(S, n)
  PROVE  \E f : Iterates(f, S, a, n, F)
  <1> DEFINE P(m) == \E f \in [0..m -> S] : f[0] = a /\ \A i \in 1..m : f[i] = F[i][f[i - 1]]
             G == {m \in 0..n : P(m)}
  <1>1. 0 \in G
    <2> DEFINE g == [i \in 0..0 |-> a]
    <2>1. g \in [0..0 -> S] /\ g[0] = a /\ 1..0 = {}
      OBVIOUS
    <2> HIDE DEF g
    <2>2. P(0)
      BY <2>1
    <2>3. 0 \in 0..n
      OBVIOUS
    <2> HIDE DEF P
    <2> QED BY <2>2, <2>3
  <1>2. ASSUME NEW m \in 0..(n - 1), m \in G PROVE m + 1 \in G
    <2>1. PICK f \in [0..m -> S] : f[0] = a /\ \A i \in 1..m : f[i] = F[i][f[i - 1]]
      BY <1>2
    <2>2. F[m + 1] \in [S -> S] /\ F[m + 1][f[m]] \in S
      BY DEF Steps
    <2> DEFINE g == [i \in 0..(m + 1) |-> IF i = m + 1 THEN F[m + 1][f[m]] ELSE f[i]]
    <2>3. g \in [0..(m + 1) -> S]
      BY <2>2
    <2>4. g[0] = a /\ g[m + 1] = F[m + 1][f[m]] /\ \A i \in 0..m : g[i] = f[i]
      BY <2>1
    <2> HIDE DEF g
    <2>5. ASSUME NEW i \in 1..(m + 1) PROVE g[i] = F[i][g[i - 1]]
      BY <2>1, <2>4
    <2>6. P(m + 1)
      BY <2>3, <2>4, <2>5
    <2>7. m + 1 \in 0..n
      OBVIOUS
    <2> HIDE DEF P
    <2> QED BY <2>6, <2>7
  <1>3. n \in G
    <2> HIDE DEF G
    <2>1. \A m \in 0..(n - 1) : m \in G => m + 1 \in G
      BY <1>2
    <2>2. \A m \in 0..n : m \in G
      BY <1>1, <2>1, UpTo
    <2> QED BY <2>2
  <1> QED BY <1>3 DEF Iterates

-----------------------------------------------------------------------------
(* What a walk visits. *)
Mem == [Pids -> Ptr]
One(n) == <<n>>
Row(nx, f, k) == [n \in Ptr |-> IF n = NULL \/ k = 0 THEN <<>> ELSE <<n>> \o f[k - 1][nx[n]]]
Visit(nx, g, n) == IF n = NULL THEN <<>> ELSE One(n) \o g[nx[n]]

LEMMA VisitType ==
  ASSUME NEW nx \in Mem, NEW g \in [Ptr -> Seq(Pids)], NEW n \in Ptr
  PROVE  Visit(nx, g, n) \in Seq(Pids)
  <1>1. CASE n = NULL
    BY <1>1 DEF Visit
  <1>2. CASE n # NULL
    <2>1. n \in Pids /\ nx[n] \in Ptr /\ g[nx[n]] \in Seq(Pids)
      BY <1>2 DEF Ptr, Mem
    <2>2. One(n) \in Seq(Pids)
      BY <2>1 DEF One
    <2> QED BY <1>2, <2>1, <2>2, ConcatProperties DEF Visit
  <1> QED BY <1>1, <1>2

(* The recursive function of Walk exists and obeys its equation. *)
LEMMA Walking ==
  ASSUME NEW nx \in Mem, NEW limit \in Nat
  PROVE  \E from \in [0..limit -> [Ptr -> Seq(Pids)]] :
           /\ \A n \in Ptr : from[0][n] = <<>>
           /\ \A k \in 1..limit : \A n \in Ptr : from[k][n] = Visit(nx, from[k - 1], n)
           /\ Walk(nx, limit) = from[limit]
  <1> DEFINE S == [Ptr -> Seq(Pids)]
             a == [n \in Ptr |-> <<>>]
             F == [i \in 1..limit |-> [g \in S |-> [n \in Ptr |-> Visit(nx, g, n)]]]
             from[k \in 0..limit] ==
               [n \in Ptr |-> IF n = NULL \/ k = 0 THEN <<>> ELSE <<n>> \o from[k - 1][nx[n]]]
  <1>1. a \in S
    BY EmptySeq
  <1>2. ASSUME NEW g \in S PROVE [n \in Ptr |-> Visit(nx, g, n)] \in S
    BY <1>2, VisitType
  <1>3. F \in Steps(S, limit)
    BY <1>2 DEF Steps
  <1>4. PICK f : Iterates(f, S, a, limit, F)
    <2> HIDE DEF S, a, F
    <2> QED BY <1>1, <1>3, PrimitiveRecursion
  <1>5. /\ f \in [0..limit -> S] /\ f[0] = a
        /\ \A i \in 1..limit : f[i] = F[i][f[i - 1]]
    BY <1>4 DEF Iterates
  <1>6. ASSUME NEW i \in 1..limit PROVE f[i] = [n \in Ptr |-> Visit(nx, f[i - 1], n)]
    <2>1. i - 1 \in 0..limit /\ f[i - 1] \in S
      BY <1>5
    <2> QED BY <1>5, <2>1
  <1> HIDE DEF F
  <1>7. f = [k \in 0..limit |-> Row(nx, f, k)]
    <2>1. ASSUME NEW k \in 0..limit PROVE f[k] = Row(nx, f, k)
      <3>1. CASE k = 0
        BY <1>5, <3>1 DEF Row
      <3>2. CASE k # 0
        BY <1>6, <3>2 DEF Visit, One, Row
      <3> QED BY <3>1, <3>2
    <2> QED BY <1>5, <2>1
  <1>8. from = [k \in 0..limit |-> Row(nx, from, k)]
    BY <1>7 DEF Row
  <1>9. Walk(nx, limit) = from[limit]
    BY DEF Walk
  <1> HIDE DEF from
  <1>10. /\ \A n \in Ptr : from[0][n] = <<>>
         /\ \A k \in 1..limit : from[k] = [n \in Ptr |-> Visit(nx, from[k - 1], n)]
    <2>1. 0 \in 0..limit /\ \A k \in 1..limit : k \in 0..limit /\ k # 0
      OBVIOUS
    <2>2. from[0] = Row(nx, from, 0) /\ \A k \in 1..limit : from[k] = Row(nx, from, k)
      BY <1>8, <2>1
    <2> QED BY <2>1, <2>2 DEF Visit, One, Row
  <1>11. from \in [0..limit -> S]
    <2> DEFINE G == {k \in 0..limit : from[k] \in S}
    <2>1. 0 \in G
      <3>1. from[0] = a
        BY <1>8 DEF Row
      <3> HIDE DEF S, a
      <3> QED BY <1>1, <3>1
    <2>2. ASSUME NEW k \in 0..(limit - 1), k \in G PROVE k + 1 \in G
      <3>1. k + 1 \in 1..limit /\ (k + 1) - 1 = k
        OBVIOUS
      <3>2. from[k + 1] = [n \in Ptr |-> Visit(nx, from[k], n)]
        BY <1>10, <3>1
      <3> HIDE DEF S
      <3> QED BY <1>2, <2>2, <3>1, <3>2
    <2>3. \A k \in 0..limit : k \in G
      <3>1. \A i \in 0..(limit - 1) : i \in G => i + 1 \in G
        BY <2>2, Zenon
      <3> HIDE DEF G
      <3> QED BY <2>1, <3>1, UpTo, Zenon
    <2> QED BY <1>8, <2>3
  <1> QED BY <1>9, <1>10, <1>11

(* In the memory nx, the nodes of s hang together from first to last. *)
Strung(nx, s) ==
  /\ \A i \in 1..(Len(s) - 1) : nx[s[i]] = s[i + 1]
  /\ s # <<>> => nx[s[Len(s)]] = NULL
FirstOf(s) == IF s = <<>> THEN NULL ELSE s[1]
LastOf(s) == IF s = <<>> THEN NULL ELSE s[Len(s)]
NodeAt(s, j) == IF j <= Len(s) THEN s[j] ELSE NULL

LEMMA NodeFacts ==
  ASSUME NEW nx \in Mem, NEW s \in Seq(Pids), Strung(nx, s), NEW j \in 1..Len(s)
  PROVE  s[j] \in Pids /\ s[j] # NULL /\ s[j] \in Ptr /\ nx[s[j]] = NodeAt(s, j + 1)
  <1>1. Len(s) \in Nat /\ s[j] \in Pids
    BY LenProperties, ElementOfSeq
  <1>2. CASE j < Len(s)
    BY <1>1, <1>2, PidAssumption DEF Strung, NodeAt, Ptr
  <1>3. CASE j = Len(s)
    <2>1. s # <<>>
      BY <1>1, <1>3, EmptySeq
    <2> QED BY <1>1, <1>3, <2>1, PidAssumption DEF Strung, NodeAt, Ptr
  <1> QED BY <1>1, <1>2, <1>3

(* A walk that is not cut off visits the list. *)
LEMMA WalkIsList ==
  ASSUME NEW nx \in Mem, NEW s \in Seq(Pids), Strung(nx, s),
         NEW limit \in Nat, Len(s) <= limit
  PROVE  Walk(nx, limit)[FirstOf(s)] = s
  <1>0. Len(s) \in Nat /\ \A i \in 1..Len(s) : s[i] \in Pids
    BY LenProperties, ElementOfSeq
  <1>1. PICK from \in [0..limit -> [Ptr -> Seq(Pids)]] :
           /\ \A n \in Ptr : from[0][n] = <<>>
           /\ \A k \in 1..limit : \A n \in Ptr : from[k][n] = Visit(nx, from[k - 1], n)
           /\ Walk(nx, limit) = from[limit]
    BY Walking
  <1> DEFINE P(k) == \A j \in 1..(Len(s) + 1) :
                       Len(s) + 1 - j <= k => from[k][NodeAt(s, j)] = SubSeq(s, j, Len(s))
             G == {k \in 0..limit : P(k)}
  <1>2. NULL \in Ptr /\ SubSeq(s, Len(s) + 1, Len(s)) = <<>> /\ NodeAt(s, Len(s) + 1) = NULL
    BY <1>0, SubSeqEmpty DEF Ptr, NodeAt
  <1>3. 0 \in G
    <2>1. ASSUME NEW j \in 1..(Len(s) + 1), Len(s) + 1 - j <= 0
          PROVE  from[0][NodeAt(s, j)] = SubSeq(s, j, Len(s))
      <3>1. \A u \in Nat : \A v \in 1..(u + 1) : u + 1 - v <= 0 => v = u + 1
        OBVIOUS
      <3>2. j = Len(s) + 1
        BY <1>0, <2>1, <3>1
      <3> QED BY <1>1, <1>2, <3>2
    <2> QED BY <2>1
  <1>4. ASSUME NEW k \in 0..(limit - 1), k \in G PROVE k + 1 \in G
    <2>0. k + 1 \in 1..limit /\ (k + 1) - 1 = k /\ k + 1 \in 0..limit
      OBVIOUS
    <2>1. \A n \in Ptr : from[k + 1][n] = Visit(nx, from[k], n)
      BY <1>1, <2>0
    <2>2. ASSUME NEW j \in 1..(Len(s) + 1), Len(s) + 1 - j <= k + 1
          PROVE  from[k + 1][NodeAt(s, j)] = SubSeq(s, j, Len(s))
      <3>1. CASE j = Len(s) + 1
        <4>1. from[k + 1][NULL] = Visit(nx, from[k], NULL)
          BY <1>2, <2>1
        <4>2. Visit(nx, from[k], NULL) = <<>>
          BY DEF Visit
        <4> QED BY <1>2, <3>1, <4>1, <4>2
      <3>2. CASE j # Len(s) + 1
        <4>1. j \in 1..Len(s) /\ j + 1 \in 1..(Len(s) + 1) /\ Len(s) + 1 - (j + 1) <= k
              /\ Len(s) \in j..Len(s)
          BY <1>0, <2>2, <3>2
        <4>2. from[k][NodeAt(s, j + 1)] = SubSeq(s, j + 1, Len(s))
          BY <1>4, <4>1
        <4>3. NodeAt(s, j) = s[j]
          BY <4>1 DEF NodeAt
        <4>4. s[j] \in Ptr /\ s[j] # NULL /\ nx[s[j]] = NodeAt(s, j + 1)
          BY <4>1, NodeFacts
        <4>5. from[k + 1][s[j]] = <<s[j]>> \o SubSeq(s, j + 1, Len(s))
          BY <2>1, <4>2, <4>4 DEF Visit, One
        <4> QED BY <4>1, <4>3, <4>5, SubSeqRecursiveFirst
      <3> QED BY <3>1, <3>2
    <2> QED BY <2>0, <2>2
  <1>5. P(limit)
    <2>1. \A k \in 0..limit : k \in G
      <3> HIDE DEF G
      <3> QED BY <1>3, <1>4, UpTo
    <2> QED BY <2>1
  <1>6. FirstOf(s) = NodeAt(s, 1)
    <2>1. s = <<>> => Len(s) = 0
      BY EmptySeq
    <2>2. s # <<>> => Len(s) >= 1
      BY EmptySeq
    <2> QED BY <1>0, <2>1, <2>2 DEF FirstOf, NodeAt
  <1>7. 1 \in 1..(Len(s) + 1) /\ Len(s) + 1 - 1 <= limit
    BY <1>0
  <1>8. from[limit][NodeAt(s, 1)] = SubSeq(s, 1, Len(s))
    BY <1>5, <1>7
  <1> QED BY <1>1, <1>6, <1>8, SubSeqFull

-----------------------------------------------------------------------------
(* A memory and the lists it stands for.  On(s) is the nodes of a list. *)
On(s) == {s[i] : i \in 1..Len(s)}
Inj(s) == \A i, j \in 1..Len(s) : s[i] = s[j] => i = j
Carries(nx, f, e, s) == Strung(nx, s) /\ f = FirstOf(s) /\ e = LastOf(s)

Slots(V) == [Structs -> [Prios -> V]]
Lists == Slots(Seq(Pids))
Elsewhere(f, g, q, p) ==
  \A r \in Structs, o \in Prios : (r # q \/ o # p) => f[r][o] = g[r][o]
Put(f, q, p, v) == [f EXCEPT ![q][p] = v]
Free(L, x) == \A q \in Structs, p \in Prios : x \notin On(L[q][p])

Heap(nx, st, en, L) ==
  /\ nx \in Mem /\ st \in Slots(Ptr) /\ en \in Slots(Ptr) /\ L \in Lists
  /\ \A q \in Structs, p \in Prios : Carries(nx, st[q][p], en[q][p], L[q][p]) /\ Inj(L[q][p])
  /\ \A q, r \in Structs, p, o \in Prios :
       (q # r \/ p # o) => On(L[q][p]) \cap On(L[r][o]) = {}

LEMMA PutFacts ==
  ASSUME NEW V, NEW f \in Slots(V), NEW q \in Structs, NEW p \in Prios, NEW v \in V
  PROVE  /\ Put(f, q, p, v) \in Slots(V)
         /\ Put(f, q, p, v)[q][p] = v
         /\ Elsewhere(f, Put(f, q, p, v), q, p)
  BY DEF Slots, Put, Elsewhere

LEMMA ListShape ==
  ASSUME NEW s \in Seq(Pids)
  PROVE  /\ Len(s) \in Nat /\ DOMAIN s = 1..Len(s)
         /\ \A i \in 1..Len(s) : s[i] \in Pids /\ s[i] # NULL /\ s[i] \in On(s)
         /\ s = <<>> <=> Len(s) = 0
         /\ On(s) \in SUBSET Pids
  <1>1. Len(s) \in Nat /\ DOMAIN s = 1..Len(s) /\ \A i \in 1..Len(s) : s[i] \in Pids
    BY LenProperties, ElementOfSeq
  <1>2. s = <<>> <=> Len(s) = 0
    BY <1>1, EmptySeq
  <1> QED BY <1>1, <1>2, PidAssumption DEF On

LEMMA LooseEnds ==
  ASSUME NEW s \in Seq(Pids)
  PROVE  /\ FirstOf(s) \in Ptr /\ LastOf(s) \in Ptr
         /\ FirstOf(s) = NULL <=> s = <<>>
         /\ LastOf(s) = NULL <=> s = <<>>
         /\ s # <<>> => /\ FirstOf(s) = s[1] /\ LastOf(s) = s[Len(s)]
                        /\ 1 \in 1..Len(s) /\ Len(s) \in 1..Len(s)
  <1>1. s # <<>> => 1 \in 1..Len(s) /\ Len(s) \in 1..Len(s)
    BY ListShape
  <1> QED BY <1>1, ListShape DEF FirstOf, LastOf, Ptr

LEMMA SlotFacts ==
  ASSUME NEW nx, NEW st, NEW en, NEW L, Heap(nx, st, en, L), NEW q \in Structs, NEW p \in Prios
  PROVE  /\ L[q][p] \in Seq(Pids) /\ Inj(L[q][p]) /\ Strung(nx, L[q][p])
         /\ st[q][p] = FirstOf(L[q][p]) /\ en[q][p] = LastOf(L[q][p])
  BY DEF Heap, Lists, Slots, Carries

(* A list is not disturbed by writes to nodes that are not its own. *)
LEMMA StrungSame ==
  ASSUME NEW nx, NEW nx1, NEW s \in Seq(Pids), Strung(nx, s),
         \A n \in On(s) : nx1[n] = nx[n]
  PROVE  Strung(nx1, s)
  <1>1. \A i \in 1..Len(s) : nx1[s[i]] = nx[s[i]]
    BY ListShape
  <1>2. \A i \in 1..(Len(s) - 1) : i \in 1..Len(s)
    BY ListShape
  <1>3. s # <<>> => Len(s) \in 1..Len(s)
    BY LooseEnds
  <1> QED BY <1>1, <1>2, <1>3 DEF Strung

(* An operation replaces the list of one slot. *)
Relinked(nx, st, en, L, q, p, nx1, st1, en1, L1) ==
  /\ nx1 \in Mem /\ st1 \in Slots(Ptr) /\ en1 \in Slots(Ptr) /\ L1 \in Lists
  /\ Elsewhere(st, st1, q, p) /\ Elsewhere(en, en1, q, p) /\ Elsewhere(L, L1, q, p)
  /\ Carries(nx1, st1[q][p], en1[q][p], L1[q][p]) /\ Inj(L1[q][p])
  /\ \A r \in Structs, o \in Prios : (r # q \/ o # p) =>
       /\ On(L[r][o]) \cap On(L1[q][p]) = {}
       /\ \A n \in On(L[r][o]) : nx1[n] = nx[n]

LEMMA Relink ==
  ASSUME NEW nx, NEW st, NEW en, NEW L, Heap(nx, st, en, L),
         NEW q \in Structs, NEW p \in Prios, NEW nx1, NEW st1, NEW en1, NEW L1,
         Relinked(nx, st, en, L, q, p, nx1, st1, en1, L1)
  PROVE  Heap(nx1, st1, en1, L1)
  <1>0. /\ nx1 \in Mem /\ st1 \in Slots(Ptr) /\ en1 \in Slots(Ptr) /\ L1 \in Lists
        /\ Elsewhere(st, st1, q, p) /\ Elsewhere(en, en1, q, p) /\ Elsewhere(L, L1, q, p)
        /\ Carries(nx1, st1[q][p], en1[q][p], L1[q][p]) /\ Inj(L1[q][p])
        /\ \A r \in Structs, o \in Prios : (r # q \/ o # p) =>
             /\ On(L[r][o]) \cap On(L1[q][p]) = {}
             /\ \A n \in On(L[r][o]) : nx1[n] = nx[n]
    BY Zenon DEF Relinked
  <1>1. ASSUME NEW r \in Structs, NEW o \in Prios
        PROVE  Carries(nx1, st1[r][o], en1[r][o], L1[r][o]) /\ Inj(L1[r][o])
    <2>1. CASE r = q /\ o = p
      BY <1>0, <2>1
    <2>2. CASE r # q \/ o # p
      <3>1. st1[r][o] = st[r][o] /\ en1[r][o] = en[r][o] /\ L1[r][o] = L[r][o]
        BY <1>0, <2>2 DEF Elsewhere
      <3>2. Strung(nx1, L[r][o])
        BY <1>0, <2>2, SlotFacts, StrungSame
      <3> QED BY <3>1, <3>2, SlotFacts DEF Carries
    <2> QED BY <2>1, <2>2
  <1>2. ASSUME NEW r \in Structs, NEW t \in Structs, NEW o \in Prios, NEW w \in Prios,
               r # t \/ o # w
        PROVE  On(L1[r][o]) \cap On(L1[t][w]) = {}
    <2>1. CASE r = q /\ o = p
      <3>1. L1[t][w] = L[t][w] /\ On(L[t][w]) \cap On(L1[q][p]) = {}
        BY <1>0, <1>2, <2>1 DEF Elsewhere
      <3> QED BY <2>1, <3>1
    <2>2. CASE t = q /\ w = p
      <3>1. L1[r][o] = L[r][o] /\ On(L[r][o]) \cap On(L1[q][p]) = {}
        BY <1>0, <1>2, <2>2 DEF Elsewhere
      <3> QED BY <2>2, <3>1
    <2>3. CASE (r # q \/ o # p) /\ (t # q \/ w # p)
      <3>1. L1[r][o] = L[r][o] /\ L1[t][w] = L[t][w]
        BY <1>0, <2>3 DEF Elsewhere
      <3> QED BY <1>2, <3>1 DEF Heap
    <2> QED BY <2>1, <2>2, <2>3
  <1> QED BY <1>0, <1>1, <1>2 DEF Heap

-----------------------------------------------------------------------------
(* kfree and kalloc: a write to a node in no list. *)
LEMMA Cleared ==
  ASSUME NEW nx, NEW st, NEW en, NEW L, Heap(nx, st, en, L), NEW x \in Pids, Free(L, x)
  PROVE  /\ Heap([nx EXCEPT ![x] = NULL], st, en, L)
         /\ [nx EXCEPT ![x] = NULL][x] = NULL
  <1> DEFINE nx1 == [nx EXCEPT ![x] = NULL]
  <1>1. nx \in Mem /\ nx1 \in Mem /\ nx1[x] = NULL /\ \A n \in Pids : n # x => nx1[n] = nx[n]
    BY DEF Heap, Mem, Ptr
  <1> HIDE DEF nx1
  <1>2. ASSUME NEW q \in Structs, NEW p \in Prios
        PROVE  Carries(nx1, st[q][p], en[q][p], L[q][p])
    <2>1. L[q][p] \in Seq(Pids) /\ Strung(nx, L[q][p])
          /\ st[q][p] = FirstOf(L[q][p]) /\ en[q][p] = LastOf(L[q][p])
      BY SlotFacts
    <2>2. \A n \in On(L[q][p]) : nx1[n] = nx[n]
      BY <1>1, <2>1, ListShape DEF Free
    <2> QED BY <2>1, <2>2, StrungSame DEF Carries
  <1>3. Heap(nx1, st, en, L)
    BY <1>1, <1>2 DEF Heap
  <1> QED BY <1>1, <1>3 DEF nx1

(* push_unlocked: x is in no list and its next is NULL. *)
PushNext(nx, e, x) == IF e # NULL THEN [nx EXCEPT ![e] = x] ELSE nx

LEMMA Pushed ==
  ASSUME NEW nx, NEW st, NEW en, NEW L, Heap(nx, st, en, L),
         NEW q \in Structs, NEW p \in Prios, NEW x \in Pids, Free(L, x), nx[x] = NULL
  PROVE  Heap(PushNext(nx, en[q][p], x),
              Put(st, q, p, IF st[q][p] = NULL THEN x ELSE st[q][p]),
              Put(en, q, p, x),
              Put(L, q, p, Append(L[q][p], x)))
  <1> DEFINE s == L[q][p]
             t == Append(s, x)
             e == en[q][p]
             nx1 == PushNext(nx, e, x)
             f == IF st[q][p] = NULL THEN x ELSE st[q][p]
             st1 == Put(st, q, p, f)
             en1 == Put(en, q, p, x)
             L1 == Put(L, q, p, t)
  <1>1. /\ s \in Seq(Pids) /\ Inj(s) /\ Strung(nx, s) /\ st[q][p] = FirstOf(s) /\ e = LastOf(s)
        /\ x \notin On(s) /\ x # NULL /\ x \in Ptr
        /\ nx \in Mem /\ st \in Slots(Ptr) /\ en \in Slots(Ptr) /\ L \in Slots(Seq(Pids))
    <2>1. nx \in Mem /\ st \in Slots(Ptr) /\ en \in Slots(Ptr) /\ L \in Slots(Seq(Pids))
      BY DEF Heap, Lists
    <2>2. x \notin On(s) /\ x # NULL /\ x \in Ptr
      BY PidAssumption DEF Free, Ptr
    <2> QED BY <2>1, <2>2, SlotFacts
  <1>2. /\ Len(s) \in Nat /\ (s = <<>> <=> Len(s) = 0)
        /\ \A i \in 1..Len(s) : s[i] \in Pids /\ s[i] # NULL /\ s[i] \in On(s) /\ s[i] # x
    BY <1>1, ListShape
  <1>3. /\ t \in Seq(Pids) /\ t # <<>> /\ Len(t) = Len(s) + 1
        /\ \A i \in 1..Len(s) : t[i] = s[i]
        /\ t[Len(s) + 1] = x
    BY <1>1, AppendProperties
  <1>4. /\ e = NULL <=> s = <<>>
        /\ s # <<>> => e = s[Len(s)] /\ Len(s) \in 1..Len(s) /\ FirstOf(s) = s[1] /\ 1 \in 1..Len(s)
        /\ FirstOf(s) = NULL <=> s = <<>>
        /\ FirstOf(s) \in Ptr
    BY <1>1, LooseEnds
  <1>5. /\ nx1 \in Mem
        /\ \A n \in Pids : n # e => nx1[n] = nx[n]
        /\ s # <<>> => nx1[s[Len(s)]] = x
    <2>1. CASE s = <<>>
      BY <1>1, <1>4, <2>1 DEF PushNext
    <2>2. CASE s # <<>>
      <3>1. e \in Pids /\ nx1 = [nx EXCEPT ![e] = x]
        BY <1>2, <1>4, <2>2 DEF PushNext
      <3> QED BY <1>1, <1>4, <2>2, <3>1 DEF Mem
    <2> QED BY <2>1, <2>2
  <1> HIDE DEF s, t, e, nx1
  <1>6. Strung(nx1, t)
    <2>1. ASSUME NEW i \in 1..(Len(t) - 1) PROVE nx1[t[i]] = t[i + 1]
      <3>1. i \in 1..Len(s)
        BY <1>2, <1>3
      <3>2. CASE i = Len(s)
        BY <1>2, <1>3, <1>5, <3>1, <3>2
      <3>3. CASE i # Len(s)
        <4>1. i \in 1..(Len(s) - 1) /\ i + 1 \in 1..Len(s) /\ Len(s) \in 1..Len(s) /\ s # <<>>
          BY <1>2, <3>1, <3>3
        <4>2. nx[s[i]] = s[i + 1]
          BY <1>1, <4>1 DEF Strung
        <4>3. s[i] # e
          BY <1>1, <1>4, <3>1, <3>3, <4>1 DEF Inj
        <4> QED BY <1>2, <1>3, <1>5, <3>1, <4>1, <4>2, <4>3
      <3> QED BY <3>2, <3>3
    <2>2. nx1[t[Len(t)]] = NULL
      <3>1. x # e
        BY <1>1, <1>2, <1>4
      <3> QED BY <1>2, <1>3, <1>5, <3>1
    <2> QED BY <2>1, <2>2 DEF Strung
  <1>7. f = FirstOf(t) /\ x = LastOf(t) /\ f \in Ptr
    <2>1. LastOf(t) = x
      BY <1>3 DEF LastOf
    <2>2. FirstOf(t) = t[1]
      BY <1>3 DEF FirstOf
    <2>3. CASE s = <<>>
      BY <1>1, <1>2, <1>3, <1>4, <2>1, <2>2, <2>3
    <2>4. CASE s # <<>>
      BY <1>1, <1>2, <1>3, <1>4, <2>1, <2>2, <2>4
    <2> QED BY <2>3, <2>4
  <1>8. Inj(t)
    <2>1. ASSUME NEW i \in 1..Len(t), NEW j \in 1..Len(t), t[i] = t[j] PROVE i = j
      <3>1. CASE i \in 1..Len(s) /\ j \in 1..Len(s)
        BY <1>1, <1>3, <2>1, <3>1 DEF Inj
      <3>2. CASE i \notin 1..Len(s) \/ j \notin 1..Len(s)
        BY <1>2, <1>3, <2>1, <3>2
      <3> QED BY <3>1, <3>2
    <2> QED BY <2>1 DEF Inj
  <1>9. On(t) = On(s) \cup {x}
    <2>1. ASSUME NEW y \in On(t) PROVE y \in On(s) \cup {x}
      <3>1. PICK i \in 1..Len(t) : y = t[i]
        BY DEF On
      <3> QED BY <1>2, <1>3, <3>1
    <2>2. ASSUME NEW y \in On(s) PROVE y \in On(t)
      <3>1. PICK i \in 1..Len(s) : y = s[i]
        BY DEF On
      <3>2. i \in 1..Len(t) /\ y = t[i]
        BY <1>2, <1>3, <3>1
      <3> QED BY <3>2 DEF On
    <2>3. x \in On(t)
      <3>1. Len(s) + 1 \in 1..Len(t)
        BY <1>2, <1>3
      <3> QED BY <1>3, <3>1 DEF On
    <2> QED BY <2>1, <2>2, <2>3
  <1>10. ASSUME NEW r \in Structs, NEW o \in Prios, r # q \/ o # p
         PROVE  /\ On(L[r][o]) \cap On(t) = {}
                /\ \A n \in On(L[r][o]) : nx1[n] = nx[n]
    <2>1. On(L[r][o]) \cap On(s) = {} /\ x \notin On(L[r][o])
      BY <1>10 DEF Heap, Free, s
    <2>2. On(L[r][o]) \in SUBSET Pids
      BY SlotFacts, ListShape
    <2>3. e \notin On(L[r][o])
      BY <1>1, <1>2, <1>4, <2>1, <2>2, PidAssumption
    <2> QED BY <1>5, <1>9, <2>1, <2>2, <2>3
  <1>11. /\ st1 \in Slots(Ptr) /\ st1[q][p] = f /\ Elsewhere(st, st1, q, p)
         /\ en1 \in Slots(Ptr) /\ en1[q][p] = x /\ Elsewhere(en, en1, q, p)
         /\ L1 \in Lists /\ L1[q][p] = t /\ Elsewhere(L, L1, q, p)
    <2> HIDE DEF f
    <2> QED BY <1>1, <1>3, <1>7, PutFacts DEF Lists
  <1>12. Carries(nx1, st1[q][p], en1[q][p], L1[q][p]) /\ Inj(L1[q][p])
    BY <1>6, <1>7, <1>8, <1>11 DEF Carries
  <1> HIDE DEF st1, en1, L1
  <1>13. Heap(nx1, st1, en1, L1)
    <2>1. Relinked(nx, st, en, L, q, p, nx1, st1, en1, L1)
      BY <1>5, <1>10, <1>11, <1>12 DEF Relinked
    <2> QED BY <2>1, Relink
  <1> QED BY <1>13 DEF nx1, e, st1, en1, L1, t, s

-----------------------------------------------------------------------------
(* queue_tryremove: the node at position i of a list is unlinked. *)
Before(s, i) == IF i = 1 THEN NULL ELSE s[i - 1]
UnlinkNext(nx, prev, n) == IF prev # NULL THEN [nx EXCEPT ![prev] = nx[n]] ELSE nx

LEMMA UnlinkFacts ==
  ASSUME NEW s \in Seq(Pids), NEW i \in 1..Len(s)
  PROVE  /\ Unlink(s, i) \in Seq(Pids) /\ Len(Unlink(s, i)) = Len(s) - 1
         /\ \A j \in 1..(Len(s) - 1) : Unlink(s, i)[j] = IF j < i THEN s[j] ELSE s[j + 1]
  <1> DEFINE m == Len(s) - 1
             t == Unlink(s, i)
  <1>1. Len(s) \in Nat /\ m \in Nat /\ \A j \in 1..Len(s) : s[j] \in Pids
    BY ListShape
  <1>2. t = [j \in 1..m |-> IF j < i THEN s[j] ELSE s[j + 1]]
    BY DEF Unlink
  <1>3. \A j \in 1..m : j \in 1..Len(s) /\ j + 1 \in 1..Len(s)
    BY <1>1
  <1> HIDE DEF m, t
  <1>4. t \in [1..m -> Pids] /\ \A j \in 1..m : t[j] = IF j < i THEN s[j] ELSE s[j + 1]
    BY <1>1, <1>2, <1>3
  <1>5. t \in Seq(Pids) /\ Len(t) = m
    BY <1>1, <1>4
  <1> QED BY <1>4, <1>5 DEF m, t

UnlinkDone(nx, nx1, s, t, n, prev) ==
  /\ nx1 \in Mem /\ \A k \in Pids : k \notin On(s) => nx1[k] = nx[k]
  /\ Strung(nx1, t) /\ Inj(t) /\ On(t) = On(s) \ {n}
  /\ FirstOf(t) = IF prev = NULL THEN nx[n] ELSE FirstOf(s)
  /\ LastOf(t) = IF LastOf(s) = n THEN prev ELSE LastOf(s)

LEMMA UnlinkedList ==
  ASSUME NEW nx \in Mem, NEW s \in Seq(Pids), Inj(s), Strung(nx, s), NEW i \in 1..Len(s)
  PROVE  UnlinkDone(nx, UnlinkNext(nx, Before(s, i), s[i]), s, Unlink(s, i), s[i], Before(s, i))
  <1> DEFINE n == s[i]
             prev == Before(s, i)
             t == Unlink(s, i)
             nx1 == UnlinkNext(nx, prev, n)
  <1>1. /\ Len(s) \in Nat /\ Len(s) >= 1 /\ s # <<>>
        /\ \A j \in 1..Len(s) : s[j] \in Pids /\ s[j] # NULL /\ s[j] \in On(s)
    BY ListShape
  <1>2. /\ t \in Seq(Pids) /\ Len(t) = Len(s) - 1
        /\ \A j \in 1..(Len(s) - 1) : t[j] = IF j < i THEN s[j] ELSE s[j + 1]
    BY UnlinkFacts
  <1>3. /\ prev = NULL <=> i = 1
        /\ i # 1 => prev = s[i - 1] /\ i - 1 \in 1..Len(s) /\ prev \in Pids
    BY <1>1 DEF Before
  <1>4. \A j \in 1..Len(s) : nx[s[j]] = NodeAt(s, j + 1)
    BY NodeFacts
  <1>5. /\ nx1 \in Mem
        /\ \A k \in Pids : k # prev => nx1[k] = nx[k]
        /\ i # 1 => nx1[s[i - 1]] = NodeAt(s, i + 1)
    <2>1. CASE i = 1
      BY <1>3, <2>1 DEF UnlinkNext
    <2>2. CASE i # 1
      <3>1. nx1 = [nx EXCEPT ![prev] = nx[n]] /\ prev \in Pids
        BY <1>3, <2>2 DEF UnlinkNext
      <3>2. nx[n] \in Ptr /\ nx[n] = NodeAt(s, i + 1)
        BY <1>1, <1>4 DEF Mem
      <3> HIDE DEF n, nx1, prev
      <3> QED BY <1>3, <2>2, <3>1, <3>2 DEF Mem
    <2> QED BY <2>1, <2>2
  <1> HIDE DEF nx1, t, prev
  <1>6. \A j \in 1..Len(s) : j # i - 1 => nx1[s[j]] = NodeAt(s, j + 1)
    <2>1. ASSUME NEW j \in 1..Len(s), j # i - 1 PROVE s[j] # prev
      <3>1. CASE i = 1
        BY <1>1, <1>3, <3>1
      <3>2. CASE i # 1
        BY <1>3, <2>1, <3>2 DEF Inj
      <3> QED BY <3>1, <3>2
    <2> QED BY <1>1, <1>4, <1>5, <2>1
  <1>7. Strung(nx1, t)
    <2>1. ASSUME NEW j \in 1..(Len(t) - 1) PROVE nx1[t[j]] = t[j + 1]
      <3>0. j \in 1..(Len(s) - 1) /\ j + 1 \in 1..(Len(s) - 1) /\ j + 2 \in 1..Len(s)
            /\ j \in 1..Len(s) /\ j + 1 \in 1..Len(s)
        BY <1>1, <1>2
      <3>1. CASE j < i - 1
        <4>1. t[j] = s[j] /\ t[j + 1] = s[j + 1]
          BY <1>2, <3>0, <3>1
        <4> QED BY <1>6, <3>0, <3>1, <4>1 DEF NodeAt
      <3>2. CASE j = i - 1
        <4>1. t[j] = s[i - 1] /\ t[j + 1] = s[i + 1] /\ i # 1 /\ i + 1 <= Len(s)
          BY <1>2, <3>0, <3>2
        <4> QED BY <1>5, <4>1 DEF NodeAt
      <3>3. CASE j > i - 1
        <4>1. t[j] = s[j + 1] /\ t[j + 1] = s[j + 2] /\ j + 1 # i - 1 /\ (j + 1) + 1 = j + 2
          BY <1>2, <3>0, <3>3
        <4>2. nx1[s[j + 1]] = NodeAt(s, j + 2)
          BY <1>6, <3>0, <4>1
        <4> QED BY <3>0, <4>1, <4>2 DEF NodeAt
      <3> QED BY <3>0, <3>1, <3>2, <3>3
    <2>2. ASSUME t # <<>> PROVE nx1[t[Len(t)]] = NULL
      <3>0. Len(t) \in 1..(Len(s) - 1) /\ Len(t) = Len(s) - 1 /\ Len(s) \in 1..Len(s)
        BY <1>1, <1>2, <2>2, ListShape
      <3>1. CASE i = Len(s)
        <4>1. t[Len(t)] = s[i - 1] /\ i # 1 /\ ~(i + 1 <= Len(s))
          BY <1>1, <1>2, <3>0, <3>1
        <4> QED BY <1>5, <4>1 DEF NodeAt
      <3>2. CASE i # Len(s)
        <4>1. t[Len(t)] = s[Len(s)] /\ Len(s) # i - 1 /\ ~(Len(s) + 1 <= Len(s))
          BY <1>1, <1>2, <3>0, <3>2
        <4> QED BY <1>6, <3>0, <4>1 DEF NodeAt
      <3> QED BY <3>1, <3>2
    <2> QED BY <2>1, <2>2 DEF Strung
  <1>8. Inj(t)
    <2>1. ASSUME NEW j \in 1..Len(t), NEW k \in 1..Len(t), t[j] = t[k] PROVE j = k
      <3> DEFINE at(u) == IF u < i THEN u ELSE u + 1
      <3>1. at(j) \in 1..Len(s) /\ at(k) \in 1..Len(s) /\ t[j] = s[at(j)] /\ t[k] = s[at(k)]
        BY <1>1, <1>2
      <3>2. at(j) = at(k)
        BY <2>1, <3>1 DEF Inj
      <3> QED BY <1>1, <1>2, <3>2
    <2> QED BY <2>1 DEF Inj
  <1>9. On(t) = On(s) \ {n}
    <2>1. ASSUME NEW y \in On(t) PROVE y \in On(s) \ {n}
      <3>1. PICK j \in 1..Len(t) : y = t[j]
        BY DEF On
      <3> DEFINE a == IF j < i THEN j ELSE j + 1
      <3>2. a \in 1..Len(s) /\ y = s[a] /\ a # i
        BY <1>1, <1>2, <3>1
      <3> QED BY <1>1, <3>2 DEF Inj
    <2>2. ASSUME NEW y \in On(s) \ {n} PROVE y \in On(t)
      <3>1. PICK j \in 1..Len(s) : y = s[j]
        BY DEF On
      <3> DEFINE a == IF j < i THEN j ELSE j - 1
      <3>2. j # i
        BY <2>2, <3>1
      <3>3. a \in 1..Len(t) /\ a \in 1..(Len(s) - 1)
        BY <1>1, <1>2, <3>2
      <3>4. t[a] = s[j]
        BY <1>1, <1>2, <3>2, <3>3
      <3> QED BY <3>1, <3>3, <3>4 DEF On
    <2> QED BY <2>1, <2>2
  <1>10. FirstOf(t) = IF prev = NULL THEN nx[n] ELSE FirstOf(s)
    <2>1. FirstOf(t) = NodeAt(t, 1) /\ FirstOf(s) = NodeAt(s, 1)
      BY <1>1, <1>2, ListShape DEF FirstOf, NodeAt
    <2>2. CASE i = 1
      <3>1. nx[n] = NodeAt(s, 2)
        BY <1>4, <2>2
      <3>2. NodeAt(t, 1) = NodeAt(s, 2)
        BY <1>1, <1>2, <2>2 DEF NodeAt
      <3> QED BY <1>3, <2>1, <2>2, <3>1, <3>2
    <2>3. CASE i # 1
      <3>1. NodeAt(t, 1) = NodeAt(s, 1)
        BY <1>1, <1>2, <2>3 DEF NodeAt
      <3> QED BY <1>3, <2>1, <2>3, <3>1
    <2> QED BY <2>2, <2>3
  <1>11. LastOf(t) = IF LastOf(s) = n THEN prev ELSE LastOf(s)
    <2>1. LastOf(s) = s[Len(s)] /\ Len(s) \in 1..Len(s)
      BY <1>1 DEF LastOf
    <2>2. CASE i = Len(s)
      <3>1. LastOf(s) = n
        BY <2>1, <2>2
      <3>2. CASE i = 1
        <4>1. t = <<>>
          BY <1>2, <2>2, <3>2, ListShape
        <4> QED BY <1>3, <3>1, <3>2, <4>1 DEF LastOf
      <3>3. CASE i # 1
        <4>1. t # <<>> /\ t[Len(t)] = s[i - 1]
          BY <1>1, <1>2, <2>2, <3>3, ListShape
        <4> QED BY <1>3, <3>1, <3>3, <4>1 DEF LastOf
      <3> QED BY <3>2, <3>3
    <2>3. CASE i # Len(s)
      <3>1. LastOf(s) # n
        BY <2>1, <2>3 DEF Inj
      <3>2. t # <<>> /\ t[Len(t)] = s[Len(s)]
        BY <1>1, <1>2, <2>3, ListShape
      <3> QED BY <2>1, <3>1, <3>2 DEF LastOf
    <2> QED BY <2>2, <2>3
  <1>12. \A k \in Pids : k \notin On(s) => nx1[k] = nx[k]
    BY <1>1, <1>3, <1>5, PidAssumption
  <1>13. UnlinkDone(nx, nx1, s, t, s[i], prev)
    BY <1>5, <1>7, <1>8, <1>9, <1>10, <1>11, <1>12 DEF UnlinkDone
  <1> QED BY <1>13 DEF nx1, t, prev

UnlinkStart(nx, st, q, p, prev, n) == IF prev # NULL THEN st ELSE Put(st, q, p, nx[n])

RemovedFrom(nx, st, en, L, q, p, s, i) ==
  LET n == s[i]
      prev == Before(s, i)
      L1 == Put(L, q, p, Unlink(s, i))
  IN /\ Heap(UnlinkNext(nx, prev, n), UnlinkStart(nx, st, q, p, prev, n),
             Put(en, q, p, IF en[q][p] = n THEN prev ELSE en[q][p]), L1)
     /\ n \in Pids /\ Free(L1, n)

LEMMA Removed ==
  ASSUME NEW nx, NEW st, NEW en, NEW L, Heap(nx, st, en, L),
         NEW q \in Structs, NEW p \in Prios, NEW i \in 1..Len(L[q][p])
  PROVE  RemovedFrom(nx, st, en, L, q, p, L[q][p], i)
  <1> DEFINE s == L[q][p]
             n == s[i]
             prev == Before(s, i)
             t == Unlink(s, i)
             nx1 == UnlinkNext(nx, prev, n)
             e == IF en[q][p] = n THEN prev ELSE en[q][p]
             st1 == UnlinkStart(nx, st, q, p, prev, n)
             en1 == Put(en, q, p, e)
             L1 == Put(L, q, p, t)
  <1>1. /\ s \in Seq(Pids) /\ Inj(s) /\ Strung(nx, s) /\ st[q][p] = FirstOf(s)
        /\ en[q][p] = LastOf(s)
    BY SlotFacts
  <1>2. nx \in Mem /\ st \in Slots(Ptr) /\ en \in Slots(Ptr) /\ L \in Slots(Seq(Pids))
    BY DEF Heap, Lists
  <1>3. /\ nx1 \in Mem /\ \A k \in Pids : k \notin On(s) => nx1[k] = nx[k]
        /\ Strung(nx1, t) /\ Inj(t) /\ On(t) = On(s) \ {n}
        /\ FirstOf(t) = IF prev = NULL THEN nx[n] ELSE FirstOf(s)
        /\ LastOf(t) = IF LastOf(s) = n THEN prev ELSE LastOf(s)
    <2>1. UnlinkDone(nx, nx1, s, t, n, prev)
      <3> HIDE DEF s
      <3> QED BY <1>1, <1>2, UnlinkedList DEF s
    <2> HIDE DEF s, n, prev, t, nx1
    <2> QED BY <2>1, Zenon DEF UnlinkDone
  <1>4. n \in Pids /\ n \in On(s) /\ t \in Seq(Pids)
    BY <1>1, ListShape, UnlinkFacts
  <1> HIDE DEF s, n, prev, t, nx1
  <1>5. e = LastOf(t) /\ e \in Ptr /\ nx[n] \in Ptr
    BY <1>1, <1>2, <1>3, <1>4, LooseEnds DEF Mem
  <1> HIDE DEF e
  <1>6. /\ en1 \in Slots(Ptr) /\ en1[q][p] = e /\ Elsewhere(en, en1, q, p)
        /\ L1 \in Lists /\ L1[q][p] = t /\ Elsewhere(L, L1, q, p)
    BY <1>2, <1>4, <1>5, PutFacts DEF Lists
  <1>7. st1 \in Slots(Ptr) /\ st1[q][p] = FirstOf(t) /\ Elsewhere(st, st1, q, p)
    <2>1. CASE prev = NULL
      BY <1>2, <1>3, <1>5, <2>1, PutFacts DEF UnlinkStart
    <2>2. CASE prev # NULL
      BY <1>1, <1>2, <1>3, <2>2 DEF UnlinkStart, Elsewhere
    <2> QED BY <2>1, <2>2
  <1>8. ASSUME NEW r \in Structs, NEW o \in Prios, r # q \/ o # p
        PROVE  /\ On(L[r][o]) \cap On(t) = {} /\ n \notin On(L[r][o])
               /\ \A k \in On(L[r][o]) : nx1[k] = nx[k]
    <2>1. On(L[r][o]) \cap On(s) = {}
      BY <1>8 DEF Heap, s
    <2>2. On(L[r][o]) \in SUBSET Pids
      BY SlotFacts, ListShape
    <2> QED BY <1>3, <1>4, <2>1, <2>2
  <1> HIDE DEF st1, en1, L1
  <1>9. Carries(nx1, st1[q][p], en1[q][p], L1[q][p]) /\ Inj(L1[q][p])
    BY <1>3, <1>5, <1>6, <1>7 DEF Carries
  <1>10. Heap(nx1, st1, en1, L1)
    <2>1. Relinked(nx, st, en, L, q, p, nx1, st1, en1, L1)
      BY <1>3, <1>6, <1>7, <1>8, <1>9 DEF Relinked
    <2> QED BY <2>1, Relink
  <1>11. Free(L1, n)
    <2>1. ASSUME NEW r \in Structs, NEW o \in Prios PROVE n \notin On(L1[r][o])
      <3>1. CASE r = q /\ o = p
        BY <1>3, <1>6, <3>1
      <3>2. CASE r # q \/ o # p
        BY <1>6, <1>8, <3>2 DEF Elsewhere
      <3> QED BY <3>1, <3>2
    <2> QED BY <2>1 DEF Free
  <1> QED BY <1>4, <1>10, <1>11, Zenon DEF RemovedFrom, nx1, st1, en1, L1, e, t, prev, n, s

(* pop_unlocked, its first half: the head leaves its level. *)
PoppedFrom(nx, st, en, L, q, p, n) ==
  LET L1 == Put(L, q, p, Tail(L[q][p]))
      nx1 == [nx EXCEPT ![n] = NULL]
  IN /\ Heap(nx1, Put(st, q, p, nx[n]),
             Put(en, q, p, IF en[q][p] = n THEN NULL ELSE en[q][p]), L1)
     /\ n \in Pids /\ Free(L1, n) /\ nx1[n] = NULL
     /\ L[q][p] # <<>> /\ n = Head(L[q][p])

LEMMA Popped ==
  ASSUME NEW nx, NEW st, NEW en, NEW L, Heap(nx, st, en, L),
         NEW q \in Structs, NEW p \in Prios, st[q][p] # NULL
  PROVE  PoppedFrom(nx, st, en, L, q, p, st[q][p])
  <1> DEFINE s == L[q][p]
             n == st[q][p]
             L1 == Put(L, q, p, Tail(s))
             st1 == Put(st, q, p, nx[n])
             en1 == Put(en, q, p, IF en[q][p] = n THEN NULL ELSE en[q][p])
  <1>1. s \in Seq(Pids) /\ n = FirstOf(s)
    BY SlotFacts
  <1>2. s # <<>> /\ 1 \in 1..Len(s) /\ n = s[1]
    BY <1>1, LooseEnds
  <1>3. Head(s) = s[1]
    BY <1>1, <1>2
  <1>4. Unlink(s, 1) = Tail(s)
    <2>1. /\ Unlink(s, 1) \in Seq(Pids) /\ Len(Unlink(s, 1)) = Len(s) - 1
          /\ \A j \in 1..(Len(s) - 1) : Unlink(s, 1)[j] = IF j < 1 THEN s[j] ELSE s[j + 1]
      BY <1>1, <1>2, UnlinkFacts
    <2>2. /\ Tail(s) \in Seq(Pids) /\ Len(Tail(s)) = Len(s) - 1
          /\ \A j \in 1..Len(Tail(s)) : Tail(s)[j] = s[j + 1]
      BY <1>1, <1>2, HeadTailProperties
    <2>3. \A j \in 1..Len(Unlink(s, 1)) : Unlink(s, 1)[j] = Tail(s)[j]
      BY <2>1, <2>2
    <2> QED BY <2>1, <2>2, <2>3, SeqEqual
  <1>5. Before(s, 1) = NULL
    BY DEF Before
  <1> HIDE DEF s
  <1>6. Heap(UnlinkNext(nx, NULL, n), UnlinkStart(nx, st, q, p, NULL, n), en1, L1)
        /\ n \in Pids /\ Free(L1, n)
    <2>1. LET m == s[1]
              prev == Before(s, 1)
              K == Put(L, q, p, Unlink(s, 1))
          IN /\ Heap(UnlinkNext(nx, prev, m), UnlinkStart(nx, st, q, p, prev, m),
                     Put(en, q, p, IF en[q][p] = m THEN prev ELSE en[q][p]), K)
             /\ m \in Pids /\ Free(K, m)
      <3>1. RemovedFrom(nx, st, en, L, q, p, s, 1)
        BY <1>2, Removed DEF s
      <3> QED BY <3>1, Zenon DEF RemovedFrom
    <2> QED BY <1>2, <1>4, <1>5, <2>1
  <1>7. Heap(nx, st1, en1, L1) /\ n \in Pids /\ Free(L1, n)
    BY <1>6 DEF UnlinkNext, UnlinkStart
  <1> HIDE DEF st1, en1, L1
  <1>8. Heap([nx EXCEPT ![n] = NULL], st1, en1, L1) /\ [nx EXCEPT ![n] = NULL][n] = NULL
    BY <1>7, Cleared
  <1>9. s # <<>> /\ n = Head(s)
    BY <1>2, <1>3
  <1> QED BY <1>7, <1>8, <1>9, Zenon DEF PoppedFrom, st1, en1, L1, s

(* The chains of the model are the lists. *)
LEMMA Denotes ==
  ASSUME NEW nx, NEW st, NEW en, NEW L, Heap(nx, st, en, L), NEW q \in Structs, NEW p \in Prios
  PROVE  Walk(nx, Cardinality(Pids) + 1)[st[q][p]] = L[q][p]
  <1> DEFINE s == L[q][p]
  <1>1. s \in Seq(Pids) /\ Inj(s) /\ Strung(nx, s) /\ st[q][p] = FirstOf(s) /\ nx \in Mem
    <2>1. nx \in Mem
      BY DEF Heap
    <2> QED BY <2>1, SlotFacts
  <1> HIDE DEF s
  <1>2. Len(s) \in Nat /\ s \in [1..Len(s) -> Pids]
    BY <1>1, LenProperties
  <1>3. s \in Injection(1..Len(s), Pids)
    BY <1>1, <1>2 DEF Injection, IsInjective, Inj
  <1>4. Cardinality(1..Len(s)) <= Cardinality(Pids)
    BY <1>3, FS_Injection, PidAssumption
  <1>5. Cardinality(1..Len(s)) = Len(s)
    <2>1. Len(s) \in Int
      BY <1>2
    <2> QED BY <1>2, <2>1, FS_Interval
  <1>6. Cardinality(Pids) \in Nat
    BY FS_CardinalityType, PidAssumption
  <1>7. Cardinality(Pids) + 1 \in Nat /\ Len(s) <= Cardinality(Pids) + 1
    BY <1>2, <1>4, <1>5, <1>6
  <1> QED BY <1>1, <1>7, WalkIsList DEF s

LEMMA ChainsAre ==
  ASSUME NEW L, Heap(next, start, end, L), NEW q \in Structs
  PROVE  Chains(q) = L[q]
  <1>1. \A p \in Prios : Chain(q, p) = L[q][p]
    BY Denotes DEF Chain
  <1>2. L[q] \in [Prios -> Seq(Pids)]
    BY DEF Heap, Lists, Slots
  <1>3. L[q] = [p \in Prios |-> L[q][p]]
    BY <1>2
  <1> QED BY <1>1, <1>3 DEF Chains

LEMMA ChainsBecome ==
  ASSUME NEW L, Heap(next', start', end', L), act' \in Structs
  PROVE  Chains(act)' = L[act'] /\ Chains(Other(act))' = L[Other(act')]
  <1>1. ASSUME NEW q \in Structs
        PROVE  [p \in Prios |-> Walk(next', Cardinality(Pids) + 1)[start'[q][p]]] = L[q]
    <2>1. \A p \in Prios : Walk(next', Cardinality(Pids) + 1)[start'[q][p]] = L[q][p]
      BY Denotes
    <2>2. L[q] \in [Prios -> Seq(Pids)]
      BY DEF Heap, Lists, Slots
    <2>3. L[q] = [p \in Prios |-> L[q][p]]
      BY <2>2
    <2> QED BY <2>1, <2>3
  <1>2. Other(act') \in Structs
    BY DEF Other, Structs
  <1>3. Chains(act)' = [p \in Prios |-> Walk(next', Cardinality(Pids) + 1)[start'[act'][p]]]
    BY DEF Chains, Chain
  <1>4. Chains(Other(act))'
          = [p \in Prios |-> Walk(next', Cardinality(Pids) + 1)[start'[Other(act')][p]]]
    BY DEF Chains, Chain, Other
  <1> QED BY <1>1, <1>2, <1>3, <1>4

LEMMA Others ==
  ASSUME NEW q \in Structs
  PROVE  /\ Other(q) \in Structs /\ Other(q) # q /\ Other(Other(q)) = q
         /\ \A r \in Structs : r = q \/ r = Other(q)
  BY DEF Other, Structs

LEMMA PutRow ==
  ASSUME NEW L \in Lists, NEW q \in Structs, NEW p \in Prios, NEW v
  PROVE  /\ Put(L, q, p, v)[q] = [L[q] EXCEPT ![p] = v]
         /\ \A r \in Structs : r # q => Put(L, q, p, v)[r] = L[r]
  BY DEF Lists, Slots, Put

LEMMA OnList ==
  ASSUME NEW L \in Lists, NEW q \in Structs, NEW x
  PROVE  x \in Members(L[q]) <=> \E p \in Prios : x \in On(L[q][p])
  <1>1. ASSUME NEW p \in Prios PROVE On(L[q][p]) = {L[q][p][i] : i \in DOMAIN L[q][p]}
    <2>1. L[q][p] \in Seq(Pids)
      BY DEF Lists, Slots
    <2>2. DOMAIN L[q][p] = 1..Len(L[q][p])
      BY <2>1, ListShape
    <2> QED BY <2>2 DEF On
  <1> QED BY <1>1 DEF Members

-----------------------------------------------------------------------------
(* The operations. *)
LEMMA PushStep ==
  ASSUME NEW nx, NEW st, NEW en, NEW L, Heap(nx, st, en, L),
         NEW q \in Structs, NEW p \in Prios, NEW x \in Pids, Free(L, x), nx[x] = NULL,
         PushUnlocked(nx, st, en, q, x, p)
  PROVE  Heap(next', start', end', Put(L, q, p, Append(L[q][p], x)))
  <1>1. st \in Slots(Ptr)
    BY DEF Heap
  <1>2. next' = PushNext(nx, en[q][p], x) /\ end' = Put(en, q, p, x)
    BY DEF PushUnlocked, PushNext, Put
  <1>3. start' = Put(st, q, p, IF st[q][p] = NULL THEN x ELSE st[q][p])
    BY <1>1 DEF PushUnlocked, Put, Slots
  <1> QED BY <1>2, <1>3, Pushed

LEMMA ScheduleStep ==
  ASSUME NEW L, Heap(next, start, end, L), act \in Structs,
         NEW x \in Pids, NEW prio \in Prios, Schedule(x, prio)
  PROVE  LET o == Other(act)
         IN /\ Heap(next', start', end', Put(L, o, prio, Append(L[o][prio], x)))
            /\ x \notin Members(L[act]) \cup Members(L[o])
            /\ act' = act
  <1> DEFINE o == Other(act)
  <1>0. o \in Structs /\ "A" \in Structs /\ "B" \in Structs /\ L \in Lists /\ Structs = {"A", "B"}
    BY Others DEF Structs, Heap
  <1>1. x \notin Members(L["A"]) /\ x \notin Members(L["B"])
    BY <1>0, ChainsAre DEF Schedule, Linked
  <1>2. \A r \in Structs : x \notin Members(L[r])
    BY <1>0, <1>1
  <1>3. Free(L, x)
    BY <1>0, <1>2, OnList DEF Free
  <1>4. Heap([next EXCEPT ![x] = NULL], start, end, L) /\ [next EXCEPT ![x] = NULL][x] = NULL
    BY <1>3, Cleared
  <1>5. PushUnlocked([next EXCEPT ![x] = NULL], start, end, o, x, prio) /\ act' = act
    BY DEF Schedule
  <1> DEFINE nx == [next EXCEPT ![x] = NULL]
  <1> HIDE DEF nx, o
  <1>6. Heap(nx, start, end, L) /\ nx[x] = NULL /\ PushUnlocked(nx, start, end, o, x, prio)
    BY <1>4, <1>5 DEF nx
  <1>7. Heap(next', start', end', Put(L, o, prio, Append(L[o][prio], x)))
    BY <1>0, <1>3, <1>6, PushStep
  <1> QED BY <1>0, <1>2, <1>5, <1>7 DEF o

(* The level pop_unlocked finds is the first that is not empty. *)
LEMMA TopIs ==
  ASSUME NEW L, Heap(next, start, end, L), NEW q \in Structs, NEW p \in Prios,
         start[q][p] # NULL, \A r \in Prios : r < p => start[q][r] = NULL
  PROVE  p \in Levels(L[q]) /\ TopLevel(L[q]) = p
  <1>1. ASSUME NEW r \in Prios PROVE start[q][r] = NULL <=> L[q][r] = <<>>
    BY SlotFacts, LooseEnds
  <1>2. p \in Levels(L[q])
    BY <1>1 DEF Levels
  <1>3. ASSUME NEW r \in Levels(L[q]) PROVE r \in Prios /\ ~(r < p)
    BY <1>1 DEF Levels
  <1>4. Prios \in SUBSET Int
    BY NPriorAssumption DEF Prios
  <1>5. \A r \in Levels(L[q]) : r \in Int /\ p <= r
    <2>1. ASSUME NEW r \in Levels(L[q]) PROVE r \in Int /\ p \in Int /\ ~(r < p)
      BY <1>3, <1>4
    <2>2. \A u, v \in Int : ~(u < v) => v <= u
      OBVIOUS
    <2> QED BY <2>1, <2>2
  <1>6. \A w \in Levels(L[q]) : (\A r \in Levels(L[q]) : w <= r) => w = p
    BY <1>2, <1>5
  <1> QED BY <1>2, <1>5, <1>6 DEF TopLevel

LEMMA PopStep ==
  ASSUME NEW L, Heap(next, start, end, L), NEW q \in Structs, PopUnlocked(q)
  PROVE  \E L1 : /\ Heap(next', start', end', L1)
                 /\ Levels(L[q]) # {}
                 /\ L1[q] = Pop(L[q])
                 /\ L1[Other(q)] = Push(L[Other(q)], TopPid(L[q]), TopLevel(L[q]))
  <1>1. PICK p \in Prios :
          /\ start[q][p] # NULL
          /\ \A r \in Prios : r < p => start[q][r] = NULL
          /\ PushUnlocked([next EXCEPT ![start[q][p]] = NULL],
                          [start EXCEPT ![q][p] = next[start[q][p]]],
                          [end EXCEPT ![q][p] = IF @ = start[q][p] THEN NULL ELSE @],
                          Other(q), start[q][p], p)
    BY DEF PopUnlocked
  <1> DEFINE n == start[q][p]
             nx == [next EXCEPT ![n] = NULL]
             st == Put(start, q, p, next[n])
             en == Put(end, q, p, IF end[q][p] = n THEN NULL ELSE end[q][p])
             K == Put(L, q, p, Tail(L[q][p]))
             o == Other(q)
             L1 == Put(K, o, p, Append(K[o][p], n))
  <1>2. /\ Heap(nx, st, en, K) /\ n \in Pids /\ Free(K, n) /\ nx[n] = NULL
        /\ L[q][p] # <<>> /\ n = Head(L[q][p])
    <2>1. PoppedFrom(next, start, end, L, q, p, n)
      BY <1>1, Popped
    <2> HIDE DEF n
    <2> QED BY <2>1, Zenon DEF PoppedFrom
  <1>3. PushUnlocked(nx, st, en, o, n, p)
    <2>1. end \in Slots(Ptr)
      BY DEF Heap
    <2>2. en = [end EXCEPT ![q][p] = IF @ = n THEN NULL ELSE @]
      BY <2>1 DEF Put, Slots
    <2>3. st = [start EXCEPT ![q][p] = next[n]]
      BY DEF Put
    <2> QED BY <1>1, <2>2, <2>3
  <1>4. o \in Structs /\ o # q
    BY Others
  <1>5. L \in Lists /\ K \in Lists
    BY <1>2 DEF Heap
  <1>6. TopLevel(L[q]) = p /\ Levels(L[q]) # {}
    BY <1>1, TopIs
  <1>7. K[q] = [L[q] EXCEPT ![p] = Tail(L[q][p])] /\ K[o] = L[o]
    <2> DEFINE v == Tail(L[q][p])
    <2> HIDE DEF v
    <2>1. Put(L, q, p, v)[q] = [L[q] EXCEPT ![p] = v]
          /\ \A r \in Structs : r # q => Put(L, q, p, v)[r] = L[r]
      BY <1>5, PutRow
    <2> QED BY <1>4, <2>1 DEF v
  <1> HIDE DEF n, nx, st, en, K, o
  <1>8. Heap(next', start', end', L1)
    BY <1>2, <1>3, <1>4, PushStep
  <1>9. L1[q] = K[q] /\ L1[o] = [K[o] EXCEPT ![p] = Append(K[o][p], n)]
    <2> DEFINE v == Append(K[o][p], n)
    <2> HIDE DEF v
    <2>1. Put(K, o, p, v)[o] = [K[o] EXCEPT ![p] = v]
          /\ \A r \in Structs : r # o => Put(K, o, p, v)[r] = K[r]
      BY <1>4, <1>5, PutRow
    <2> QED BY <1>4, <2>1 DEF v
  <1>10. K[q] = Pop(L[q])
    BY <1>6, <1>7 DEF Pop
  <1>11. L1[o] = Push(L[o], TopPid(L[q]), TopLevel(L[q]))
    BY <1>2, <1>6, <1>7, <1>9 DEF Push, TopPid
  <1> QED BY <1>6, <1>8, <1>9, <1>10, <1>11 DEF o

(* What queue_tryremove finds is there. *)
Found(queue, n) ==
  LET p == FirstLevel(queue, n)
      i == FirstIndex(queue[p], n)
  IN p \in Prios /\ i \in 1..Len(queue[p]) /\ queue[p][i] = n

LEMMA FirstFound ==
  ASSUME NEW L \in Lists, NEW q \in Structs, NEW n, Holding(L[q], n) # {}
  PROVE  Found(L[q], n)
  <1> DEFINE p == FirstLevel(L[q], n)
             s == L[q][p]
             T == {i \in DOMAIN s : s[i] = n}
  <1>1. p \in Holding(L[q], n)
    <2>1. Holding(L[q], n) \in SUBSET Nat
      BY NPriorAssumption DEF Holding, Prios
    <2>2. \E m \in Holding(L[q], n) : \A k \in Holding(L[q], n) : m <= k
      BY <2>1, LeastOf
    <2> QED BY <2>2 DEF FirstLevel
  <1>2. p \in Prios /\ \E i \in DOMAIN s : s[i] = n
    BY <1>1 DEF Holding
  <1>3. s \in Seq(Pids)
    BY <1>2 DEF Lists, Slots
  <1> HIDE DEF s
  <1>4. DOMAIN s = 1..Len(s) /\ Len(s) \in Nat
    BY <1>3, ListShape
  <1>5. T \in SUBSET Nat /\ T # {}
    BY <1>2, <1>4
  <1>6. PICK m \in T : \A k \in T : m <= k
    <2> HIDE DEF T
    <2> QED BY <1>5, LeastOf
  <1>7. FirstIndex(s, n) \in DOMAIN s /\ s[FirstIndex(s, n)] = n
    <2>1. \E i \in DOMAIN s : s[i] = n /\ \A j \in DOMAIN s : s[j] = n => i <= j
      BY <1>6
    <2> QED BY <2>1 DEF FirstIndex
  <1> QED BY <1>2, <1>4, <1>7 DEF Found, s

LEMMA RemoveStep ==
  ASSUME NEW L, Heap(next, start, end, L), NEW q \in Structs, NEW n,
         Holding(L[q], n) # {}, Unlinked(q, FirstLevel(L[q], n), n)
  PROVE  \E L1 : /\ Heap(next', start', end', L1)
                 /\ L1[q] = TryRemove(L[q], n)
                 /\ L1[Other(q)] = L[Other(q)]
  <1> DEFINE p == FirstLevel(L[q], n)
             s == L[q][p]
             i == FirstIndex(s, n)
             prev == Before(s, i)
             t == Unlink(s, i)
             L1 == Put(L, q, p, t)
  <1>0. L \in Lists /\ end \in Slots(Ptr)
    BY DEF Heap
  <1>1. p \in Prios /\ i \in 1..Len(s) /\ s[i] = n
    <2>1. Found(L[q], n)
      BY <1>0, FirstFound
    <2> QED BY <2>1, Zenon DEF Found
  <1>2. Chain(q, p) = s
    <2> HIDE DEF p
    <2> QED BY <1>1, Denotes DEF Chain, s
  <1>3. /\ end' = [end EXCEPT ![q][p] = IF @ = n THEN prev ELSE @]
        /\ IF prev # NULL
             THEN next' = [next EXCEPT ![prev] = next[n]] /\ start' = start
             ELSE start' = [start EXCEPT ![q][p] = next[n]] /\ next' = next
    <2>1. Unlinked(q, p, n)
      OBVIOUS
    <2> HIDE DEF p, s
    <2> QED BY <1>2, <2>1, Zenon DEF Unlinked, Before
  <1>4. LET m == s[i]
            K == Put(L, q, p, Unlink(s, i))
        IN /\ Heap(UnlinkNext(next, prev, m), UnlinkStart(next, start, q, p, prev, m),
                   Put(end, q, p, IF end[q][p] = m THEN prev ELSE end[q][p]), K)
           /\ m \in Pids /\ Free(K, m)
    <2> HIDE DEF p, i
    <2>1. RemovedFrom(next, start, end, L, q, p, s, i)
      BY <1>1, Removed DEF s
    <2> HIDE DEF s
    <2> QED BY <2>1, Zenon DEF RemovedFrom, prev
  <1> HIDE DEF p, s, i, prev
  <1>5. /\ next' = UnlinkNext(next, prev, n)
        /\ start' = UnlinkStart(next, start, q, p, prev, n)
    BY <1>3 DEF UnlinkNext, UnlinkStart, Put
  <1>6. end' = Put(end, q, p, IF end[q][p] = n THEN prev ELSE end[q][p])
    BY <1>0, <1>1, <1>3 DEF Put, Slots
  <1>7. Heap(next', start', end', L1)
    BY <1>1, <1>4, <1>5, <1>6
  <1>8. Other(q) \in Structs /\ Other(q) # q
    BY Others
  <1> HIDE DEF t
  <1>9. L1[q] = [L[q] EXCEPT ![p] = t] /\ L1[Other(q)] = L[Other(q)]
    <2>1. Put(L, q, p, t)[q] = [L[q] EXCEPT ![p] = t]
          /\ \A r \in Structs : r # q => Put(L, q, p, t)[r] = L[r]
      <3>1. p \in Prios /\ L \in Lists
        BY <1>0, <1>1
      <3> HIDE DEF L1
      <3> QED BY <3>1, PutRow
    <2> QED BY <1>8, <2>1, Zenon
  <1>10. L1[q] = TryRemove(L[q], n)
    <2>1. TryRemove(L[q], n) = [L[q] EXCEPT ![FirstLevel(L[q], n)]
                                  = Unlink(L[q][FirstLevel(L[q], n)],
                                           FirstIndex(L[q][FirstLevel(L[q], n)], n))]
      BY Zenon DEF TryRemove
    <2>2. t = Unlink(L[q][FirstLevel(L[q], n)], FirstIndex(L[q][FirstLevel(L[q], n)], n))
      BY Zenon DEF t, i, s, p
    <2>3. L1[q] = [L[q] EXCEPT ![FirstLevel(L[q], n)] = t]
      BY <1>9, Zenon DEF p
    <2> QED BY <2>1, <2>2, <2>3, Zenon
  <1> QED BY <1>7, <1>9, <1>10

LEMMA NotHeld ==
  ASSUME NEW q, NEW n
  PROVE  Holding(q, n) = {} <=> n \notin Members(q)
  BY DEF Holding, Members

LEMMA UnscheduleStep ==
  ASSUME NEW L, Heap(next, start, end, L), act \in Structs, NEW n \in Pids, Unschedule(n)
  PROVE  \E L1 : /\ Heap(next', start', end', L1) /\ act' = act
                 /\ n \in Members(L[act]) \cup Members(L[Other(act)])
                 /\ L1[act] = TryRemove(L[act], n)
                 /\ L1[Other(act)] = IF Holding(L[act], n) # {} THEN L[Other(act)]
                                       ELSE TryRemove(L[Other(act)], n)
  <1> DEFINE o == Other(act)
             q == IF Holding(L[act], n) # {} THEN act ELSE o
  <1>0. o \in Structs /\ Other(o) = act /\ L \in Lists /\ \A r \in Structs : r = act \/ r = o
    BY Others DEF Heap
  <1>1. Chains(act) = L[act] /\ Chains(o) = L[o] /\ Chains("A") = L["A"] /\ Chains("B") = L["B"]
        /\ "A" \in Structs /\ "B" \in Structs
    BY <1>0, ChainsAre DEF Structs
  <1>2. n \in Linked /\ act' = act /\ Unlinked(q, FirstLevel(L[q], n), n)
    BY <1>0, <1>1 DEF Unschedule
  <1>3. n \in Members(L[act]) \cup Members(L[o])
    BY <1>0, <1>1, <1>2 DEF Linked
  <1>4. CASE Holding(L[act], n) # {}
    <2>1. PICK L1 : /\ Heap(next', start', end', L1)
                    /\ L1[act] = TryRemove(L[act], n) /\ L1[o] = L[o]
      BY <1>2, <1>4, RemoveStep
    <2> QED BY <1>2, <1>3, <1>4, <2>1
  <1>5. CASE Holding(L[act], n) = {}
    <2>1. Holding(L[o], n) # {}
      BY <1>3, <1>5, NotHeld
    <2>2. q = o
      BY <1>5
    <2> HIDE DEF o
    <2>3. PICK L1 : /\ Heap(next', start', end', L1)
                    /\ L1[o] = TryRemove(L[o], n) /\ L1[Other(o)] = L[Other(o)]
      BY <1>0, <1>2, <2>1, <2>2, RemoveStep
    <2>4. TryRemove(L[act], n) = L[act]
      BY <1>5 DEF TryRemove
    <2> QED BY <1>0, <1>2, <1>3, <1>5, <2>3, <2>4 DEF o
  <1> QED BY <1>4, <1>5

-----------------------------------------------------------------------------
(* The inductive invariant: there are lists that the memory stands for. *)
ListInv == act \in Structs /\ \E L : Heap(next, start, end, L)

LEMMA ListInit == Init => ListInv /\ Chains(act) = EmptyQueue /\ Chains(Other(act)) = EmptyQueue
  <1> SUFFICES ASSUME Init
               PROVE  ListInv /\ Chains(act) = EmptyQueue /\ Chains(Other(act)) = EmptyQueue
    OBVIOUS
  <1> DEFINE L == [q \in Structs |-> EmptyQueue]
  <1>1. /\ next \in Mem /\ start \in Slots(Ptr) /\ end \in Slots(Ptr) /\ act \in Structs
        /\ \A q \in Structs, p \in Prios : start[q][p] = NULL /\ end[q][p] = NULL
    BY DEF Init, Mem, Slots, Ptr, Structs
  <1>2. EmptyQueue \in [Prios -> Seq(Pids)] /\ \A p \in Prios : EmptyQueue[p] = <<>>
    BY EmptySeq DEF EmptyQueue
  <1>3. L \in Lists /\ \A q \in Structs : L[q] = EmptyQueue
    BY <1>2 DEF Lists, Slots
  <1>4. Strung(next, <<>>) /\ Inj(<<>>) /\ On(<<>>) = {}
    <2>1. Len(<<>>) = 0 /\ 1..0 = {} /\ 1..(0 - 1) = {}
      OBVIOUS
    <2> QED BY <2>1 DEF Strung, Inj, On
  <1>5. Carries(next, NULL, NULL, <<>>)
    BY <1>4 DEF Carries, FirstOf, LastOf
  <1> HIDE DEF L
  <1>6. \A q \in Structs, p \in Prios : L[q][p] = <<>>
    BY <1>2, <1>3
  <1>7. Heap(next, start, end, L)
    BY <1>1, <1>3, <1>4, <1>5, <1>6 DEF Heap
  <1>8. Chains(act) = L[act] /\ Chains(Other(act)) = L[Other(act)] /\ Other(act) \in Structs
    BY <1>1, <1>7, ChainsAre, Others
  <1> QED BY <1>1, <1>3, <1>7, <1>8 DEF ListInv

(* One step of module RunQueueSpec, or none, from the queues a and i to the
   queues b and j. *)
QueueStep(a, i, b, j) ==
  \/ b = a /\ j = i
  \/ \E x \in Pids, prio \in Prios :
       x \notin Members(a) \cup Members(i) /\ j = Push(i, x, prio) /\ b = a
  \/ Levels(a) # {} /\ b = Pop(a) /\ j = Push(i, TopPid(a), TopLevel(a))
  \/ Levels(a) = {} /\ Levels(i) # {} /\ b = Pop(i) /\ j = Push(a, TopPid(i), TopLevel(i))
  \/ \E x \in Pids :
       /\ x \in Members(a) \cup Members(i) /\ b = TryRemove(a, x)
       /\ j = IF Holding(a, x) # {} THEN i ELSE TryRemove(i, x)

LEMMA NoStartNoLevels ==
  ASSUME NEW L, Heap(next, start, end, L), NEW q \in Structs, NoStart(q)
  PROVE  Levels(L[q]) = {}
  <1>1. ASSUME NEW r \in Prios PROVE L[q][r] = <<>>
    <2>1. start[q][r] = NULL
      BY DEF NoStart
    <2>2. L[q][r] \in Seq(Pids) /\ start[q][r] = FirstOf(L[q][r])
      BY SlotFacts
    <2> QED BY <2>1, <2>2, LooseEnds
  <1> QED BY <1>1 DEF Levels

LEMMA ListNext ==
  ASSUME NEW L, Heap(next, start, end, L), act \in Structs, [Next]_vars
  PROVE  \E L1 : /\ Heap(next', start', end', L1) /\ act' \in Structs
                 /\ QueueStep(L[act], L[Other(act)], L1[act'], L1[Other(act')])
  <1> DEFINE o == Other(act)
  <1>0. o \in Structs /\ o # act /\ Other(o) = act /\ L \in Lists
    BY Others DEF Heap
  <1>1. ASSUME NEW x \in Pids, NEW prio \in Prios, Schedule(x, prio)
        PROVE  \E L1 : /\ Heap(next', start', end', L1) /\ act' \in Structs
                       /\ QueueStep(L[act], L[o], L1[act'], L1[Other(act')])
    <2> DEFINE v == Append(L[o][prio], x)
               L1 == Put(L, o, prio, v)
    <2>1. Heap(next', start', end', L1) /\ x \notin Members(L[act]) \cup Members(L[o]) /\ act' = act
      BY <1>1, ScheduleStep
    <2> HIDE DEF v, o
    <2>2. L1[o] = [L[o] EXCEPT ![prio] = v] /\ L1[act] = L[act]
      BY <1>0, PutRow
    <2>3. L1[o] = Push(L[o], x, prio)
      BY <2>2 DEF Push, v
    <2> HIDE DEF L1
    <2>4. QueueStep(L[act], L[o], L1[act], L1[o])
      BY <2>1, <2>2, <2>3 DEF QueueStep
    <2> QED BY <2>1, <2>4 DEF o
  <1>2. ASSUME ProcNext
        PROVE  \E L1 : /\ Heap(next', start', end', L1) /\ act' \in Structs
                       /\ QueueStep(L[act], L[o], L1[act'], L1[Other(act')])
    <2>1. PopUnlocked(act) /\ act' = act
      BY <1>2 DEF ProcNext
    <2>2. PICK L1 : /\ Heap(next', start', end', L1)
                    /\ Levels(L[act]) # {}
                    /\ L1[act] = Pop(L[act])
                    /\ L1[o] = Push(L[o], TopPid(L[act]), TopLevel(L[act]))
      BY <2>1, PopStep
    <2> HIDE DEF o
    <2>3. QueueStep(L[act], L[o], L1[act], L1[o])
      BY <2>2 DEF QueueStep
    <2> QED BY <2>1, <2>2, <2>3 DEF o
  <1>3. ASSUME ProcNextSwap
        PROVE  \E L1 : /\ Heap(next', start', end', L1) /\ act' \in Structs
                       /\ QueueStep(L[act], L[o], L1[act'], L1[Other(act')])
    <2>1. PopUnlocked(o) /\ act' = o /\ NoStart(act)
      BY <1>3 DEF ProcNextSwap
    <2>2. Levels(L[act]) = {}
      BY <2>1, NoStartNoLevels
    <2> HIDE DEF o
    <2>3. PICK L1 : /\ Heap(next', start', end', L1)
                    /\ Levels(L[o]) # {}
                    /\ L1[o] = Pop(L[o])
                    /\ L1[Other(o)] = Push(L[Other(o)], TopPid(L[o]), TopLevel(L[o]))
      BY <1>0, <2>1, PopStep
    <2>4. QueueStep(L[act], L[o], L1[o], L1[act])
      BY <1>0, <2>2, <2>3 DEF QueueStep
    <2> QED BY <1>0, <2>1, <2>3, <2>4
  <1>4. ASSUME NEW n \in Pids, Unschedule(n)
        PROVE  \E L1 : /\ Heap(next', start', end', L1) /\ act' \in Structs
                       /\ QueueStep(L[act], L[o], L1[act'], L1[Other(act')])
    <2>1. PICK L1 : /\ Heap(next', start', end', L1) /\ act' = act
                    /\ n \in Members(L[act]) \cup Members(L[o])
                    /\ L1[act] = TryRemove(L[act], n)
                    /\ L1[o] = IF Holding(L[act], n) # {} THEN L[o] ELSE TryRemove(L[o], n)
      BY <1>4, UnscheduleStep
    <2> HIDE DEF o
    <2>2. QueueStep(L[act], L[o], L1[act], L1[o])
      BY <2>1 DEF QueueStep
    <2> QED BY <2>1, <2>2 DEF o
  <1>5. CASE UNCHANGED vars
    <2>1. Heap(next', start', end', L) /\ act' = act
      BY <1>5 DEF vars
    <2>2. QueueStep(L[act], L[o], L[act], L[o])
      BY DEF QueueStep
    <2> QED BY <2>1, <2>2
  <1> QED BY <1>1, <1>2, <1>3, <1>4, <1>5 DEF Next

LEMMA ListStep == ListInv /\ [Next]_vars => ListInv'
  BY ListNext DEF ListInv

THEOREM Inductive == Spec => []ListInv
  BY ListInit, ListStep, PTL DEF Spec

(* The end pointers that push_unlocked appends through are never stale, with
   any number of nodes and levels and after any operations. *)
THEOREM EndsExact == Spec => []EndIsLast
  <1>1. ASSUME ListInv PROVE EndIsLast
    <2>1. PICK L : Heap(next, start, end, L)
      BY <1>1 DEF ListInv
    <2>2. ASSUME NEW q \in Structs, NEW p \in Prios
          PROVE  LET c == Chain(q, p)
                 IN IF c = <<>> THEN end[q][p] = NULL
                                ELSE end[q][p] = c[Len(c)] /\ next[c[Len(c)]] = NULL
      <3>1. Chain(q, p) = L[q][p]
        BY <2>1, Denotes DEF Chain
      <3>2. Strung(next, L[q][p]) /\ end[q][p] = LastOf(L[q][p])
        BY <2>1, SlotFacts
      <3> QED BY <3>1, <3>2 DEF Strung, LastOf
    <2> QED BY <2>2 DEF EndIsLast
  <1> QED BY <1>1, Inductive, PTL

(* The pointer code implements the queue operators that the model of the
   scheduler is built from: nodes are appended, taken and unlinked where the
   sequences say, and nothing else hangs off the queues. *)
THEOREM Implements == Spec => ImplementsQueues
  <1>1. Init => Queues!Init
    BY ListInit DEF Queues!Init, Queues!EmptyQueue, EmptyQueue, Queues!Prios, Prios
  <1>2. ASSUME ListInv, [Next]_vars PROVE [Queues!Next]_(Queues!vars)
    <2>1. PICK L : Heap(next, start, end, L)
      BY <1>2 DEF ListInv
    <2>2. act \in Structs /\ Other(act) \in Structs
      BY <1>2, Others DEF ListInv
    <2>3. PICK L1 : /\ Heap(next', start', end', L1) /\ act' \in Structs
                    /\ QueueStep(L[act], L[Other(act)], L1[act'], L1[Other(act')])
      BY <1>2, <2>1, <2>2, ListNext
    <2>4. Chains(act) = L[act] /\ Chains(Other(act)) = L[Other(act)]
      BY <2>1, <2>2, ChainsAre
    <2>5. Chains(act)' = L1[act'] /\ Chains(Other(act))' = L1[Other(act')]
      BY <2>3, ChainsBecome
    <2>6. QueueStep(Chains(act), Chains(Other(act)), Chains(act)', Chains(Other(act))')
      BY <2>3, <2>4, <2>5
    <2> QED BY <2>6
         DEF QueueStep, Queues!Next, Queues!vars, Queues!Enter, Queues!Rotate, Queues!Remove,
             Queues!Queued, Queues!Members, Members, Queues!Push, Push, Queues!Pop, Pop,
             Queues!Levels, Levels, Queues!TopLevel, TopLevel, Queues!TopPid, TopPid,
             Queues!Holding, Holding, Queues!TryRemove, TryRemove, Queues!FirstLevel, FirstLevel,
             Queues!FirstIndex, FirstIndex, Queues!Unlink, Unlink, Queues!Prios, Prios
  <1> QED BY <1>1, <1>2, Inductive, PTL DEF Spec, ImplementsQueues, Queues!Spec
=============================================================================
