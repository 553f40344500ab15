-------------------------- MODULE PageFree_proofs --------------------------
(***************************************************************************)
(* What the page allocator keeps as long as single pages are freed, for    *)
(* every memory map and every sequence of requests: page_alloc splits, and *)
(* page_free merges, inserts or faults; PageInv survives all of them.      *)
(***************************************************************************)
EXTENDS PageAlloc_proofs

(* A step that changes the free list of one pool. *)
Only(i, q) ==
  /\ DOMAIN pools' = DOMAIN pools /\ Len(pools') = Len(pools)
  /\ \A j \in DOMAIN pools : pools'[j].base = pools[j].base /\ pools'[j].end = pools[j].end
  /\ \A j \in DOMAIN pools : j # i => pools'[j] = pools[j]
  /\ pools'[i].free = q

LEMMA BlockInts ==
  ASSUME NEW b \in BlockType
  PROVE  /\ b.addr \in Int /\ b.size \in Nat \ {0} /\ Past(b) \in Int
         /\ Past(b) = b.addr + b.size /\ b.addr < Past(b)
  BY DEF BlockType, Past

LEMMA PoolInts ==
  ASSUME Typed, NEW i \in DOMAIN pools
  PROVE  /\ pools[i] \in PoolType /\ pools[i].base \in Nat /\ pools[i].end \in Nat
         /\ pools[i].free \in Seq(BlockType) /\ DOMAIN pools[i].free = 1..Len(pools[i].free)
         /\ Len(pools[i].free) \in Nat
         /\ \A k \in DOMAIN pools[i].free : pools[i].free[k] \in BlockType
         /\ i \in 1..Len(pools) /\ Len(pools) \in Nat
  <1>1. pools[i] \in PoolType
    BY DEF Typed
  <1>2. pools[i].base \in Nat /\ pools[i].end \in Nat /\ pools[i].free \in Seq(BlockType)
    BY <1>1 DEF PoolType
  <1>3. i \in 1..Len(pools) /\ Len(pools) \in Nat
    BY DEF Typed
  <1> QED BY <1>1, <1>2, <1>3

LEMMA ListChanged ==
  ASSUME Typed, NEW i \in DOMAIN pools, NEW q \in Seq(BlockType), SetFree(i, q),
         \A k \in DOMAIN q : Lies(q[k], pools[i])
  PROVE  Only(i, q)
  <1>1. pools[i].end \in Int
    BY PoolInts
  <1>2. ASSUME NEW k \in DOMAIN q PROVE q[k].addr < pools[i].end
    <2>1. q[k] \in BlockType /\ Past(q[k]) <= pools[i].end
      BY DEF Lies
    <2> QED BY <1>1, <2>1, BlockInts
  <1>3. Upto(q, pools[i].end) = q
    BY <1>1, <1>2, UptoFacts
  <1> QED BY <1>3, FreeSet DEF Typed, Only

(* The pools stay where they are, and their lists are sound if the new one is. *)
LEMMA PoolsSettled ==
  ASSUME Typed, NEW i \in DOMAIN pools, NEW q, Only(i, q), PoolsApart, FreeSound,
         Scattered(q), \A k \in DOMAIN q : Lies(q[k], pools[i])
  PROVE  PoolsApart' /\ FreeSound' /\ BoundaryPages' = BoundaryPages
  <1>1. PoolsApart'
    <2>1. DOMAIN pools' = DOMAIN pools
      BY DEF Only
    <2>2. \A j \in DOMAIN pools : pools'[j].base = pools[j].base /\ pools'[j].end = pools[j].end
      BY DEF Only
    <2> QED BY <2>1, <2>2 DEF PoolsApart
  <1>2. BoundaryPages' = BoundaryPages
    <2>1. \A j \in 2..Len(pools) : pools'[j].base = pools[j].base
      <3> SUFFICES ASSUME NEW j \in 2..Len(pools) PROVE pools'[j].base = pools[j].base
        OBVIOUS
      <3>1. j \in DOMAIN pools
        BY DEF Typed
      <3> QED BY <3>1 DEF Only
    <2>2. Len(pools') = Len(pools)
      BY DEF Only
    <2> QED BY <2>1, <2>2 DEF BoundaryPages
  <1>3. ASSUME NEW j \in DOMAIN pools
        PROVE  /\ Scattered(pools'[j].free)
               /\ \A k \in DOMAIN pools'[j].free : Lies(pools'[j].free[k], pools'[j])
    <2>1. CASE j = i
      <3>1. pools'[j].free = q /\ pools'[j].base = pools[i].base /\ pools'[j].end = pools[i].end
        BY <2>1 DEF Only
      <3>2. \A k \in DOMAIN q : Lies(q[k], pools'[j])
        BY <3>1 DEF Lies
      <3> QED BY <3>1, <3>2
    <2>2. CASE j # i
      <3>1. pools'[j] = pools[j]
        BY <2>2 DEF Only
      <3> QED BY <3>1 DEF FreeSound
    <2> QED BY <2>1, <2>2
  <1>4. DOMAIN pools' = DOMAIN pools
    BY DEF Only
  <1>5. FreeSound'
    BY <1>3, <1>4 DEF FreeSound
  <1> QED BY <1>1, <1>2, <1>5

LEMMA HeldSettled ==
  ASSUME Typed, NEW i \in DOMAIN pools, NEW q, Only(i, q),
         \A b \in held' : \E j \in DOMAIN pools : Lies(b, pools[j]),
         \A b, c \in held' : b # c => Apart(b, c),
         \A b \in held' : \A k \in DOMAIN q : Apart(b, q[k]),
         \A b \in held' : \A j \in DOMAIN pools : j # i =>
           \A k \in DOMAIN pools[j].free : Apart(b, pools[j].free[k])
  PROVE  HeldSound'
  <1>1. DOMAIN pools' = DOMAIN pools
    BY DEF Only
  <1>2. ASSUME NEW b \in held' PROVE \E j \in DOMAIN pools' : Lies(b, pools'[j])
    <2>1. PICK j \in DOMAIN pools : Lies(b, pools[j])
      OBVIOUS
    <2>2. pools'[j].base = pools[j].base /\ pools'[j].end = pools[j].end
      BY DEF Only
    <2>3. Lies(b, pools'[j])
      BY <2>1, <2>2 DEF Lies
    <2> QED BY <1>1, <2>3
  <1>3. ASSUME NEW b \in held', NEW j \in DOMAIN pools, NEW k \in DOMAIN pools'[j].free
        PROVE  Apart(b, pools'[j].free[k])
    <2>1. CASE j = i
      BY <2>1 DEF Only
    <2>2. CASE j # i
      <3>1. pools'[j] = pools[j]
        BY <2>2 DEF Only
      <3> QED BY <2>2, <3>1
    <2> QED BY <2>1, <2>2
  <1> QED BY <1>1, <1>2, <1>3 DEF HeldSound

(* A page is free or held after the step if it is in a block of another pool, of
   the new list or of a caller. *)
LEMMA OwnedSettled ==
  ASSUME NEW i \in DOMAIN pools, NEW q, Only(i, q), NEW page,
         \/ \E b \in held' : Has(b, page)
         \/ \E z \in DOMAIN q : Has(q[z], page)
         \/ \E j \in DOMAIN pools : j # i /\ \E z \in DOMAIN pools[j].free : Has(pools[j].free[z], page)
  PROVE  Owned(page)'
  <1>1. DOMAIN pools' = DOMAIN pools /\ pools'[i].free = q
    BY DEF Only
  <1>2. \A j \in DOMAIN pools : j # i => pools'[j] = pools[j]
    BY DEF Only
  <1>3. CASE \E b \in held' : Has(b, page)
    BY <1>3 DEF Owned
  <1>4. CASE \E z \in DOMAIN q : Has(q[z], page)
    BY <1>1, <1>4 DEF Owned
  <1>5. CASE \E j \in DOMAIN pools : j # i /\ \E z \in DOMAIN pools[j].free : Has(pools[j].free[z], page)
    BY <1>1, <1>2, <1>5 DEF Owned
  <1> QED BY <1>3, <1>4, <1>5

(* Blocks of two pools have no page in common. *)
LEMMA OtherPool ==
  ASSUME Typed, PoolsApart, NEW i \in DOMAIN pools, NEW j \in DOMAIN pools, i # j,
         NEW b \in BlockType, NEW c \in BlockType, Lies(b, pools[i]), Lies(c, pools[j])
  PROVE  Apart(b, c)
  <1>1. /\ i \in Nat /\ j \in Nat /\ pools[i].base \in Nat /\ pools[i].end \in Nat
        /\ pools[j].base \in Nat /\ pools[j].end \in Nat
    BY PoolInts
  <1>2. b.addr \in Int /\ Past(b) \in Int /\ c.addr \in Int /\ Past(c) \in Int
    BY BlockInts
  <1>3. /\ pools[i].base <= b.addr /\ Past(b) <= pools[i].end
        /\ pools[j].base <= c.addr /\ Past(c) <= pools[j].end
    BY DEF Lies
  <1>4. CASE i < j
    <2>1. pools[i].end <= pools[j].base
      BY <1>4 DEF PoolsApart
    <2> QED BY <1>1, <1>2, <1>3, <2>1 DEF Apart
  <1>5. CASE j < i
    <2>1. pools[j].end <= pools[i].base
      BY <1>5 DEF PoolsApart
    <2> QED BY <1>1, <1>2, <1>3, <2>1 DEF Apart
  <1> QED BY <1>1, <1>4, <1>5

(* A part of a block is apart from what the block is apart from. *)
LEMMA PartApart ==
  ASSUME NEW b \in BlockType, NEW c \in BlockType, NEW d \in BlockType,
         c.addr <= d.addr, Past(d) <= Past(c), Apart(b, c)
  PROVE  Apart(b, d)
  <1>1. /\ b.addr \in Int /\ Past(b) \in Int /\ c.addr \in Int /\ Past(c) \in Int
        /\ d.addr \in Int /\ Past(d) \in Int
    BY BlockInts
  <1> QED BY <1>1 DEF Apart

-----------------------------------------------------------------------------
(* page_alloc.  The list of the pool after the chosen block c was split and its
   lowest part e taken. *)
Cut(q, e, c, fl, k, u, sz, base) ==
  /\ fl \in Seq(BlockType) /\ k \in DOMAIN fl /\ fl[k] = c /\ c \in BlockType
  /\ sz \in Nat \ {0} /\ IsPow2(sz) /\ sz <= c.size /\ IsPow2(c.size)
  /\ base \in Nat /\ base <= c.addr /\ (c.addr - base) % c.size = 0
  /\ e = Block(c.addr, sz)
  /\ Halving(u, c, sz, base)
  /\ Spliced(q, fl, k, u, k + 1)
  /\ Scattered(fl)

LEMMA CutBlocks ==
  ASSUME NEW q, NEW e, NEW c, NEW fl, NEW k, NEW u, NEW sz, NEW base,
         Cut(q, e, c, fl, k, u, sz, base)
  PROVE  /\ e \in BlockType /\ e.addr = c.addr /\ e.size = sz /\ Past(e) = c.addr + sz
         /\ Past(e) <= Past(c) /\ (e.addr - base) % e.size = 0
         /\ u \in Seq(BlockType) /\ q \in Seq(BlockType)
         /\ k \in 1..(Len(fl) + 1) /\ k + 1 \in k..(Len(fl) + 1) /\ k \in Nat
  <1>1. /\ c \in BlockType /\ sz \in Nat \ {0} /\ sz <= c.size /\ e = Block(c.addr, sz)
        /\ base \in Nat /\ base <= c.addr /\ fl \in Seq(BlockType) /\ k \in DOMAIN fl
    BY DEF Cut
  <1>2. c.addr \in Int /\ c.size \in Nat /\ Past(c) = c.addr + c.size
    BY <1>1, BlockInts
  <1>3. e \in BlockType /\ e.addr = c.addr /\ e.size = sz
    BY <1>1, <1>2 DEF Block, BlockType
  <1>4. Past(e) = c.addr + sz /\ Past(e) <= Past(c)
    BY <1>1, <1>2, <1>3 DEF Past
  <1>5. (e.addr - base) % e.size = 0
    <2> DEFINE d == c.addr - base
    <2>1. d \in Nat
      BY <1>1, <1>2
    <2>2. d % c.size = 0 /\ IsPow2(sz) /\ IsPow2(c.size)
      BY DEF Cut
    <2> HIDE DEF d
    <2>3. c.size \in Nat \ {0}
      BY <1>1, BlockInts
    <2>4. Multiple(d, c.size)
      BY <2>1, <2>2, <2>3, NoRemainder
    <2>5. Multiple(d, sz)
      BY <1>1, <1>2, <2>1, <2>2, <2>4, MultipleOf
    <2>6. d % sz = 0
      BY <1>1, <2>1, <2>5, NoRemainder
    <2> QED BY <1>3, <2>6 DEF d
  <1>6. u \in Seq(BlockType) /\ q \in Seq(BlockType)
    BY DEF Cut, Halving, Spliced
  <1>7. k \in 1..(Len(fl) + 1) /\ k + 1 \in k..(Len(fl) + 1) /\ k \in Nat
    BY <1>1
  <1> QED BY <1>3, <1>4, <1>5, <1>6, <1>7

(* A block of the new list is an upper half or another block of the old one. *)
LEMMA CutElements ==
  ASSUME NEW q, NEW e, NEW c, NEW fl, NEW k, NEW u, NEW sz, NEW base,
         Cut(q, e, c, fl, k, u, sz, base)
  PROVE  /\ \A j \in DOMAIN q : \/ \E x \in DOMAIN u : q[j] = u[x]
                                \/ \E y \in DOMAIN fl : y # k /\ q[j] = fl[y]
         /\ \A x \in DOMAIN u : \E j \in DOMAIN q : q[j] = u[x]
         /\ \A y \in DOMAIN fl : y # k => \E j \in DOMAIN q : q[j] = fl[y]
  <1>1. /\ fl \in Seq(BlockType) /\ u \in Seq(BlockType) /\ k \in 1..(Len(fl) + 1)
        /\ k + 1 \in k..(Len(fl) + 1) /\ Spliced(q, fl, k, u, k + 1) /\ k \in Nat
    BY CutBlocks DEF Cut
  <1>2. /\ \A j \in DOMAIN q : \/ \E x \in DOMAIN u : q[j] = u[x]
                               \/ \E y \in DOMAIN fl : (y < k \/ k + 1 <= y) /\ q[j] = fl[y]
        /\ \A x \in DOMAIN u : \E j \in DOMAIN q : q[j] = u[x]
        /\ \A y \in DOMAIN fl : (y < k \/ k + 1 <= y) => \E j \in DOMAIN q : q[j] = fl[y]
    <2>1. Rearranged(q, fl, k, u, k + 1)
      BY <1>1, SplicedElements
    <2> QED BY <2>1, Zenon DEF Rearranged
  <1>3. \A y \in DOMAIN fl : (y < k \/ k + 1 <= y) <=> y # k
    BY <1>1
  <1> QED BY <1>2, <1>3

LEMMA CutScattered ==
  ASSUME NEW q, NEW e, NEW c, NEW fl, NEW k, NEW u, NEW sz, NEW base,
         Cut(q, e, c, fl, k, u, sz, base)
  PROVE  Scattered(q)
  <1>1. /\ fl \in Seq(BlockType) /\ u \in Seq(BlockType) /\ k \in 1..(Len(fl) + 1)
        /\ k + 1 \in k..(Len(fl) + 1) /\ Spliced(q, fl, k, u, k + 1) /\ k \in Nat
        /\ Scattered(fl) /\ Scattered(u) /\ k \in DOMAIN fl /\ fl[k] = c /\ c \in BlockType
        /\ sz \in Nat
    BY CutBlocks DEF Cut, Halving
  <1>2. ASSUME NEW y \in DOMAIN fl, NEW x \in DOMAIN u, y < k \/ k + 1 <= y
        PROVE  Apart(u[x], fl[y])
    <2>1. fl[y] \in BlockType /\ u[x] \in BlockType /\ y # k
      BY <1>1, <1>2
    <2>2. Apart(fl[y], c)
      BY <1>1, <2>1 DEF Scattered
    <2>3. c.addr + sz <= u[x].addr /\ Past(u[x]) <= Past(c)
      BY DEF Cut, Halving
    <2>4. c.addr <= u[x].addr
      <3>1. c.addr \in Int /\ u[x].addr \in Int
        BY <1>1, <2>1, BlockInts
      <3> QED BY <1>1, <2>3, <3>1
    <2>5. Apart(fl[y], u[x])
      BY <1>1, <2>1, <2>2, <2>3, <2>4, PartApart
    <2> QED BY <2>5, Mirrored
  <1>3. Foreign(u, fl, k, k + 1)
    BY <1>2 DEF Foreign
  <1> QED BY <1>1, <1>3, SplicedScattered

(* What is taken has no page in common with what is left. *)
LEMMA CutApart ==
  ASSUME NEW q, NEW e, NEW c, NEW fl, NEW k, NEW u, NEW sz, NEW base,
         Cut(q, e, c, fl, k, u, sz, base), NEW j \in DOMAIN q
  PROVE  q[j] \in BlockType /\ Apart(e, q[j])
  <1>1. /\ e \in BlockType /\ e.addr = c.addr /\ Past(e) = c.addr + sz /\ Past(e) <= Past(c)
        /\ q \in Seq(BlockType) /\ u \in Seq(BlockType) /\ k \in Nat
    BY CutBlocks
  <1>2. q[j] \in BlockType
    BY <1>1
  <1>3. ASSUME NEW x \in DOMAIN u, q[j] = u[x] PROVE Apart(e, q[j])
    <2>1. c.addr + sz <= u[x].addr
      BY DEF Cut, Halving
    <2> QED BY <1>1, <1>3, <2>1 DEF Apart
  <1>4. ASSUME NEW y \in DOMAIN fl, y # k, q[j] = fl[y] PROVE Apart(e, q[j])
    <2>1. /\ fl \in Seq(BlockType) /\ k \in DOMAIN fl /\ fl[k] = c /\ c \in BlockType /\ Scattered(fl)
      BY DEF Cut
    <2>2. fl[y] \in BlockType
      BY <2>1
    <2>3. Apart(fl[y], c)
      BY <1>4, <2>1 DEF Scattered
    <2>4. e.addr \in Int /\ c.addr <= e.addr
      BY <1>1, BlockInts
    <2>5. Apart(fl[y], e)
      BY <1>1, <2>1, <2>2, <2>3, <2>4, PartApart
    <2> QED BY <1>4, <2>5, Mirrored
  <1> QED BY <1>2, <1>3, <1>4, CutElements

(* What is left lies in the pool as before. *)
LEMMA CutLies ==
  ASSUME NEW q, NEW e, NEW c, NEW fl, NEW k, NEW u, NEW sz, NEW p \in PoolType,
         Cut(q, e, c, fl, k, u, sz, p.base), \A y \in DOMAIN fl : Lies(fl[y], p),
         NEW j \in DOMAIN q
  PROVE  Lies(q[j], p)
  <1>1. ASSUME NEW x \in DOMAIN u, q[j] = u[x] PROVE Lies(u[x], p)
    <2>1. /\ c.addr + sz <= u[x].addr /\ Past(u[x]) <= Past(c)
          /\ IsPow2(u[x].size) /\ (u[x].addr - p.base) % u[x].size = 0
          /\ u \in Seq(BlockType) /\ c \in BlockType /\ sz \in Nat /\ k \in DOMAIN fl /\ fl[k] = c
      BY DEF Cut, Halving
    <2>2. p.base <= c.addr /\ Past(c) <= p.end
      BY <2>1 DEF Lies
    <2>3. /\ u[x].addr \in Int /\ Past(u[x]) \in Int /\ c.addr \in Int /\ Past(c) \in Int
      <3>1. u[x] \in BlockType
        BY <2>1
      <3> QED BY <2>1, <3>1, BlockInts
    <2>4. p.base \in Int /\ p.end \in Int
      BY DEF PoolType
    <2>5. p.base <= u[x].addr /\ Past(u[x]) <= p.end
      BY <2>1, <2>2, <2>3, <2>4
    <2> QED BY <2>1, <2>5 DEF Lies
  <1> QED BY <1>1, CutElements

(* Every page of the chosen block is taken or left. *)
LEMMA CutCovers ==
  ASSUME NEW q, NEW e, NEW c, NEW fl, NEW k, NEW u, NEW sz, NEW base,
         Cut(q, e, c, fl, k, u, sz, base), NEW page \in Int, NEW y \in DOMAIN fl, Has(fl[y], page)
  PROVE  Has(e, page) \/ \E j \in DOMAIN q : Has(q[j], page)
  <1>1. CASE y # k
    <2>1. PICK j \in DOMAIN q : q[j] = fl[y]
      BY <1>1, CutElements
    <2> QED BY <2>1
  <1>2. CASE y = k
    <2>1. e.addr = c.addr /\ Past(e) = c.addr + sz /\ c \in BlockType /\ fl[y] = c /\ sz \in Nat
      BY <1>2, CutBlocks DEF Cut
    <2>2. c.addr <= page /\ page < Past(c) /\ c.addr \in Int /\ Past(c) \in Int
      BY <2>1, BlockInts DEF Has
    <2>3. CASE page < c.addr + sz
      BY <2>1, <2>2, <2>3 DEF Has
    <2>4. CASE ~(page < c.addr + sz)
      <3>1. c.addr + sz <= page
        BY <2>1, <2>2, <2>4
      <3>2. PICK x \in DOMAIN u : Has(u[x], page)
        BY <2>2, <3>1 DEF Cut, Halving
      <3>3. PICK j \in DOMAIN q : q[j] = u[x]
        BY CutElements
      <3> QED BY <3>2, <3>3
    <2> QED BY <2>3, <2>4
  <1> QED BY <1>1, <1>2

LEMMA AllocKeeps ==
  ASSUME Typed, Sound, NEW req \in AllocSizes, PageAlloc(req)
  PROVE  Sound' /\ BoundaryPages' = BoundaryPages /\ \A page \in Int : Owned(page) => Owned(page)'
  <1> DEFINE sz == RoundUp(req)
  <1>1. sz \in Nat \ {0} /\ IsPow2(sz)
    BY AllocSize
  <1>2. PICK i \in FirstPool(sz) :
           /\ SetFree(i, Taken(i, sz))
           /\ held' = held \cup {Block(pools[i].free[Chosen(i, sz)].addr, sz)}
           /\ status = "ok" /\ UNCHANGED <<memmap, n_pools, status, last>>
    BY AllocStep
  <1> HIDE DEF sz
  <1> DEFINE p == pools[i]
             fl == p.free
             k == Chosen(i, sz)
             c == fl[k]
             u == UpperHalves(c, sz, p.base)
             q == Taken(i, sz)
             e == Block(c.addr, sz)
  <1>3. /\ i \in DOMAIN pools /\ p \in PoolType /\ fl \in Seq(BlockType)
        /\ p.base \in Nat /\ p.end \in Nat /\ k \in DOMAIN fl /\ c \in BlockType /\ c.size >= sz
    BY <1>1, ChosenBlock
  <1>4. Spliced(q, fl, k, u, k + 1)
    BY <1>1, TakenList
  <1>5. held' = held \cup {e} /\ SetFree(i, q)
    BY <1>2
  <1>6. Scattered(fl) /\ \A y \in DOMAIN fl : Lies(fl[y], p)
    BY <1>3 DEF Sound, FreeSound
  <1> HIDE DEF p, fl, k, u, q, e
  <1>7. p.base <= c.addr /\ Past(c) <= p.end /\ IsPow2(c.size) /\ (c.addr - p.base) % c.size = 0
    BY <1>3, <1>6 DEF Lies
  <1>8. sz <= c.size
    BY <1>1, <1>3, BlockInts
  <1> HIDE DEF c
  <1>9. Halving(u, c, sz, p.base)
    BY <1>1, <1>3, <1>7, <1>8, HalvesFacts DEF u
  <1>10. Cut(q, e, c, fl, k, u, sz, p.base)
    <2>1. fl[k] = c /\ e = Block(c.addr, sz)
      BY DEF c, e
    <2> QED BY <1>1, <1>3, <1>4, <1>6, <1>7, <1>8, <1>9, <2>1 DEF Cut
  <1>11. /\ e \in BlockType /\ e.addr = c.addr /\ e.size = sz /\ Past(e) <= Past(c)
         /\ (e.addr - p.base) % e.size = 0 /\ q \in Seq(BlockType)
    BY <1>10, CutBlocks
  <1>12. \A j \in DOMAIN q : Lies(q[j], p)
    BY <1>3, <1>6, <1>10, CutLies
  <1>13. Scattered(q)
    BY <1>10, CutScattered
  <1>15. Lies(e, p)
    <2>1. Past(e) \in Int /\ Past(c) \in Int
      BY <1>3, <1>11, BlockInts
    <2> QED BY <1>1, <1>3, <1>7, <1>11, <2>1 DEF Lies
  <1>16. Only(i, q)
    BY <1>3, <1>5, <1>11, <1>12, ListChanged DEF p
  <1>17. PoolsApart' /\ FreeSound' /\ BoundaryPages' = BoundaryPages
    BY <1>3, <1>12, <1>13, <1>16, PoolsSettled DEF p, Sound
  <1>18. c = pools[i].free[k] /\ k \in DOMAIN pools[i].free
    BY <1>3 DEF c, fl, p
  <1>19. ASSUME NEW b \in held PROVE b \in BlockType /\ Apart(b, c) /\ Apart(b, e) /\ Apart(e, b)
    <2>1. b \in BlockType
      BY DEF Typed
    <2>2. Apart(b, c)
      BY <1>3, <1>18 DEF Sound, HeldSound
    <2>3. Apart(b, e)
      BY <1>3, <1>11, <2>1, <2>2, BlockInts, PartApart
    <2> QED BY <2>1, <2>2, <2>3 DEF Apart
  <1>20. HeldSound'
    <2>1. ASSUME NEW b \in held' PROVE \E j \in DOMAIN pools : Lies(b, pools[j])
      <3>1. CASE b \in held
        BY <3>1 DEF Sound, HeldSound
      <3>2. CASE b = e
        BY <1>3, <1>15, <3>2 DEF p
      <3> QED BY <1>5, <3>1, <3>2
    <2>2. ASSUME NEW b \in held', NEW d \in held', b # d PROVE Apart(b, d)
      <3>1. CASE b \in held /\ d \in held
        BY <2>2, <3>1 DEF Sound, HeldSound
      <3>2. CASE b = e \/ d = e
        BY <1>5, <1>19, <2>2, <3>2
      <3> QED BY <1>5, <3>1, <3>2
    <2>3. ASSUME NEW b \in held', NEW j \in DOMAIN q PROVE Apart(b, q[j])
      <3>1. CASE b = e
        BY <1>10, <3>1, CutApart
      <3>2. CASE b \in held
        <4>1. CASE \E y \in DOMAIN fl : q[j] = fl[y]
          <5>1. \A y \in DOMAIN fl : Apart(b, fl[y])
            BY <1>3, <3>2 DEF Sound, HeldSound, fl, p
          <5> QED BY <4>1, <5>1
        <4>2. CASE \E x \in DOMAIN u : q[j] = u[x]
          <5>1. PICK x \in DOMAIN u : q[j] = u[x]
            BY <4>2
          <5>2. /\ c.addr + sz <= u[x].addr /\ Past(u[x]) <= Past(c) /\ u \in Seq(BlockType)
            BY <1>9 DEF Halving
          <5>3. u[x] \in BlockType
            BY <5>2
          <5>4. c.addr <= u[x].addr
            <6>1. c.addr \in Int /\ u[x].addr \in Int
              BY <1>3, <5>3, BlockInts
            <6> QED BY <1>1, <5>2, <6>1
          <5>5. b \in BlockType /\ Apart(b, c)
            BY <1>19, <3>2
          <5> QED BY <1>3, <5>1, <5>2, <5>3, <5>4, <5>5, PartApart
        <4> QED BY <1>10, <4>1, <4>2, CutElements
      <3> QED BY <1>5, <3>1, <3>2
    <2>4. ASSUME NEW b \in held', NEW j \in DOMAIN pools, j # i, NEW z \in DOMAIN pools[j].free
          PROVE  Apart(b, pools[j].free[z])
      <3>1. CASE b \in held
        BY <3>1 DEF Sound, HeldSound
      <3>2. CASE b = e
        <4>1. pools[j].free[z] \in BlockType
          BY PoolInts
        <4>2. Lies(pools[j].free[z], pools[j]) /\ PoolsApart
          BY DEF Sound, FreeSound
        <4>3. Lies(e, pools[i])
          BY <1>15 DEF p
        <4> QED BY <1>3, <1>11, <2>4, <3>2, <4>1, <4>2, <4>3, OtherPool
      <3> QED BY <1>5, <3>1, <3>2
    <2> QED BY <1>3, <1>16, <2>1, <2>2, <2>3, <2>4, HeldSettled
  <1>21. ASSUME NEW page \in Int, Owned(page) PROVE Owned(page)'
    <2>1. held \subseteq held' /\ e \in held'
      BY <1>5
    <2>2. CASE \E b \in held : Has(b, page)
      BY <1>3, <1>16, <2>1, <2>2, OwnedSettled
    <2>3. ASSUME NEW j \in DOMAIN pools, NEW z \in DOMAIN pools[j].free, Has(pools[j].free[z], page)
          PROVE  Owned(page)'
      <3>1. CASE j # i
        BY <1>3, <1>16, <2>3, <3>1, OwnedSettled
      <3>2. CASE j = i
        <4>1. z \in DOMAIN fl /\ Has(fl[z], page)
          BY <2>3, <3>2 DEF fl, p
        <4>2. Has(e, page) \/ \E z1 \in DOMAIN q : Has(q[z1], page)
          BY <1>10, <4>1, CutCovers
        <4> QED BY <1>3, <1>16, <2>1, <4>2, OwnedSettled
      <3> QED BY <3>1, <3>2
    <2> QED BY <1>21, <2>2, <2>3 DEF Owned
  <1> QED BY <1>17, <1>20, <1>21 DEF Sound

-----------------------------------------------------------------------------
(* page_free, when it finds the pool the block lies in: block e becomes the
   first of the list, before the blocks from m on. *)
Clear(e, fl, m) == \A y \in DOMAIN fl : m <= y => Apart(e, fl[y])
Alone(e, b) == \A d \in held : d # b => Apart(d, e)
Fronted(q, e, fl, m) ==
  /\ \E j \in DOMAIN q : q[j] = e
  /\ \A y \in DOMAIN fl : m <= y => \E j \in DOMAIN q : q[j] = fl[y]

LEMMA FreeSettles ==
  ASSUME Typed, Sound, NEW b \in held, NEW i \in DOMAIN pools, NEW q, NEW e \in BlockType,
         NEW fl, fl = pools[i].free, NEW m \in 1..(Len(fl) + 1), Spliced(q, fl, 1, <<e>>, m),
         SetFree(i, q), held' = held \ {b}, Lies(e, pools[i]), Clear(e, fl, m), Alone(e, b)
  PROVE  Sound' /\ BoundaryPages' = BoundaryPages /\ Only(i, q) /\ Fronted(q, e, fl, m)
  <1> DEFINE u == <<e>>
  <1>1. /\ fl \in Seq(BlockType) /\ DOMAIN fl = 1..Len(fl) /\ Len(fl) \in Nat
        /\ 1 \in 1..(Len(fl) + 1)
    BY PoolInts
  <1>2. u \in Seq(BlockType) /\ DOMAIN u = {1} /\ u[1] = e
    OBVIOUS
  <1>3. Spliced(q, fl, 1, u, m) /\ q \in Seq(BlockType)
    BY DEF Spliced
  <1> HIDE DEF u
  <1>4. Rearranged(q, fl, 1, u, m)
    BY <1>1, <1>2, <1>3, SplicedElements
  <1>5. ASSUME NEW j \in DOMAIN q PROVE q[j] = e \/ \E y \in DOMAIN fl : q[j] = fl[y]
    BY <1>2, <1>4 DEF Rearranged
  <1>6. Fronted(q, e, fl, m)
    BY <1>2, <1>4 DEF Rearranged, Fronted
  <1>7. Scattered(fl) /\ \A y \in DOMAIN fl : Lies(fl[y], pools[i])
    BY DEF Sound, FreeSound
  <1>8. Scattered(q)
    <2>1. Scattered(u)
      BY <1>2 DEF Scattered
    <2>2. ASSUME NEW y \in DOMAIN fl, NEW x \in DOMAIN u, y < 1 \/ m <= y PROVE Apart(u[x], fl[y])
      <3>1. m <= y
        BY <1>1, <2>2
      <3> QED BY <1>2, <3>1 DEF Clear
    <2>3. Foreign(u, fl, 1, m)
      BY <2>2 DEF Foreign
    <2> QED BY <1>1, <1>2, <1>3, <1>7, <2>1, <2>3, SplicedScattered
  <1>9. \A j \in DOMAIN q : Lies(q[j], pools[i])
    BY <1>5, <1>7
  <1>10. Only(i, q)
    BY <1>3, <1>9, ListChanged
  <1>11. PoolsApart' /\ FreeSound' /\ BoundaryPages' = BoundaryPages
    BY <1>8, <1>9, <1>10, PoolsSettled DEF Sound
  <1>12. HeldSound'
    <2>1. \A d \in held' : \E j \in DOMAIN pools : Lies(d, pools[j])
      BY DEF Sound, HeldSound
    <2>2. \A d, c \in held' : d # c => Apart(d, c)
      BY DEF Sound, HeldSound
    <2>3. ASSUME NEW d \in held', NEW j \in DOMAIN q PROVE Apart(d, q[j])
      <3>1. d \in held /\ d # b
        OBVIOUS
      <3>2. CASE q[j] = e
        BY <3>1, <3>2 DEF Alone
      <3>3. CASE \E y \in DOMAIN fl : q[j] = fl[y]
        BY <3>1, <3>3 DEF Sound, HeldSound
      <3> QED BY <1>5, <3>2, <3>3
    <2>4. \A d \in held' : \A j \in DOMAIN pools : j # i =>
            \A z \in DOMAIN pools[j].free : Apart(d, pools[j].free[z])
      BY DEF Sound, HeldSound
    <2> QED BY <1>10, <2>1, <2>2, <2>3, <2>4, HeldSettled
  <1> QED BY <1>6, <1>10, <1>11, <1>12 DEF Sound

(* A block at an odd offset is a single page. *)
LEMMA OddOffset ==
  ASSUME NEW d \in Nat, NEW s \in Nat, IsPow2(s), d % 2 # 0, d % s = 0
  PROVE  s = 1
  <1> SUFFICES ASSUME s # 1 PROVE FALSE
    OBVIOUS
  <1>1. s \in Nat \ {0} /\ 2 <= s
    BY DEF IsPow2
  <1>2. IsPow2(2)
    <2>1. IsPow2(2 * 1)
      BY One, Twice
    <2> QED BY <2>1
  <1>3. Multiple(d, s)
    BY <1>1, NoRemainder
  <1>4. Multiple(d, 2)
    BY <1>1, <1>2, <1>3, MultipleOf
  <1> QED BY <1>4, NoRemainder

(* A page that is freed, in its pool. *)
InPool(i, b) ==
  /\ b \in held /\ b \in BlockType /\ b.size = 1 /\ i \in DOMAIN pools /\ Lies(b, pools[i])

LEMMA PageInPool ==
  ASSUME Typed, Sound, NEW i, NEW b, InPool(i, b)
  PROVE  LET page == b.addr
             base == pools[i].base
             end == pools[i].end
         IN /\ base \in Nat /\ end \in Nat /\ page \in Nat /\ base <= page /\ page < end
            /\ Past(b) = page + 1 /\ (end - base) % 2 = 0
            /\ BuddyOf(i, b) = IF (page - base) % 2 = 0 THEN page + 1 ELSE page - 1
  <1> DEFINE page == b.addr
             base == pools[i].base
             end == pools[i].end
  <1>1. base \in Nat /\ end \in Nat /\ page \in Int /\ Past(b) = page + 1
    BY PoolInts, BlockInts DEF InPool
  <1>2. base <= page /\ Past(b) <= end
    BY DEF InPool, Lies
  <1>3. (end - base) % 2 = 0
    BY DEF InPool, Sound, PoolsApart
  <1>4. BuddyOf(i, b) = Buddy(page, 1, base)
    BY DEF BuddyOf, InPool
  <1> HIDE DEF page, base, end
  <1>5. page \in Nat /\ page < end
    BY <1>1, <1>2
  <1>6. Buddy(page, 1, base) = IF (page - base) % 2 = 0 THEN page + 1 ELSE page - 1
    BY <1>1, <1>2, <1>5, PageBuddy
  <1> QED BY <1>1, <1>2, <1>3, <1>4, <1>5, <1>6 DEF page, base, end

(* The blocks of the list, seen from a page that is freed. *)
LEMMA ListAround ==
  ASSUME Typed, Sound, NEW i, NEW b, InPool(i, b), NEW y \in DOMAIN pools[i].free
  PROVE  LET c == pools[i].free[y] IN
         /\ c \in BlockType /\ c.addr \in Int /\ c.size \in Nat \ {0} /\ Past(c) = c.addr + c.size
         /\ Past(c) <= b.addr \/ b.addr + 1 <= c.addr
         /\ Lies(c, pools[i])
  <1> DEFINE c == pools[i].free[y]
  <1>1. c \in BlockType
    BY PoolInts DEF InPool
  <1>2. Apart(b, c) /\ Lies(c, pools[i])
    BY DEF InPool, Sound, HeldSound, FreeSound
  <1>3. Past(b) = b.addr + 1
    BY PageInPool
  <1> HIDE DEF c
  <1>4. c.addr \in Int /\ c.size \in Nat \ {0} /\ Past(c) = c.addr + c.size
    BY <1>1, BlockInts
  <1> QED BY <1>1, <1>2, <1>3, <1>4 DEF Apart, c

(* It does not read a header at the end of the pool, nor take the page for the end. *)
LEMMA NotWild ==
  ASSUME Typed, Sound, NEW i, NEW b, InPool(i, b)
  PROVE  ~Wild(i, b) /\ ~Faults(i, b)
  <1> DEFINE page == b.addr
             base == pools[i].base
             end == pools[i].end
             fl == pools[i].free
             k == StopAt(i, b)
  <1>1. /\ base \in Nat /\ end \in Nat /\ page \in Nat /\ base <= page /\ page < end
        /\ (end - base) % 2 = 0
        /\ BuddyOf(i, b) = IF (page - base) % 2 = 0 THEN page + 1 ELSE page - 1
    BY PageInPool
  <1>2. k \in 1..(Len(fl) + 1) /\ Len(fl) \in Nat /\ DOMAIN fl = 1..Len(fl)
    BY StopFacts, PoolInts DEF InPool
  <1>3. end # BuddyOf(i, b)
    <2> DEFINE bd == BuddyOf(i, b)
    <2>1. bd = IF (page - base) % 2 = 0 THEN page + 1 ELSE page - 1
      BY <1>1
    <2> HIDE DEF page, base, end, bd
    <2>2. CASE (page - base) % 2 = 0
      <3> SUFFICES ASSUME end = page + 1 PROVE FALSE
        BY <2>1, <2>2 DEF bd
      <3> QED BY <1>1, <2>2
    <2>3. CASE (page - base) % 2 # 0
      BY <1>1, <2>1, <2>3 DEF bd
    <2> QED BY <2>2, <2>3
  <1>4. ~Wild(i, b)
    <2> SUFFICES ASSUME Wild(i, b) PROVE FALSE
      OBVIOUS
    <2>1. Met(i, b) = BuddyOf(i, b) /\ k > Len(fl)
      BY DEF Wild
    <2>2. Met(i, b) = end
      BY <1>2, <2>1 DEF Met
    <2> QED BY <1>3, <2>1, <2>2
  <1>5. ~Faults(i, b)
    <2> SUFFICES ASSUME Faults(i, b) PROVE FALSE
      OBVIOUS
    <2>1. Met(i, b) = page
      BY DEF Faults
    <2>2. CASE k <= Len(fl)
      <3>1. fl[k].addr = page /\ k \in DOMAIN fl
        BY <1>2, <2>1, <2>2 DEF Met
      <3>2. /\ fl[k].addr \in Int /\ fl[k].size \in Nat \ {0} /\ Past(fl[k]) = fl[k].addr + fl[k].size
            /\ Past(fl[k]) <= page \/ page + 1 <= fl[k].addr
        BY <3>1, ListAround
      <3> HIDE DEF fl, k, page
      <3> QED BY <1>1, <3>1, <3>2
    <2>3. CASE ~(k <= Len(fl))
      <3>1. end = page
        BY <2>1, <2>3 DEF Met
      <3> QED BY <1>1, <3>1
    <2> QED BY <2>2, <2>3
  <1> QED BY <1>4, <1>5

LEMMA InsertKeeps ==
  ASSUME Typed, Sound, NEW i, NEW b, InPool(i, b), Inserts(i, b), held' = held \ {b}
  PROVE  /\ Sound' /\ BoundaryPages' = BoundaryPages
         /\ \A page \in Int : Owned(page) => Owned(page)'
  <1> DEFINE fl == pools[i].free
             q == <<b>> \o fl
  <1>0. i \in DOMAIN pools /\ b \in held /\ b \in BlockType /\ Lies(b, pools[i])
    BY DEF InPool
  <1>1. fl \in Seq(BlockType) /\ Len(fl) \in Nat /\ 1 \in 1..(Len(fl) + 1) /\ DOMAIN fl = 1..Len(fl)
    BY <1>0, PoolInts
  <1>2. Block(b.addr, b.size) = b
    BY <1>0 DEF Block, BlockType
  <1>3. SetFree(i, q)
    BY <1>2 DEF Inserts
  <1>4. Clear(b, fl, 1)
    BY <1>0 DEF Sound, HeldSound, Clear
  <1>5. Alone(b, b)
    BY <1>0 DEF Sound, HeldSound, Alone
  <1>6. fl = pools[i].free
    OBVIOUS
  <1> HIDE DEF fl
  <1>7. Spliced(q, fl, 1, <<b>>, 1)
    BY <1>0, <1>1, Inserted
  <1> HIDE DEF q
  <1>8. Sound' /\ BoundaryPages' = BoundaryPages /\ Only(i, q) /\ Fronted(q, b, fl, 1)
    BY <1>0, <1>1, <1>3, <1>4, <1>5, <1>6, <1>7, FreeSettles
  <1>9. ASSUME NEW page \in Int, Owned(page) PROVE Owned(page)'
    <2>1. CASE \E d \in held : d # b /\ Has(d, page)
      BY <1>0, <1>8, <2>1, OwnedSettled
    <2>2. CASE Has(b, page)
      BY <1>0, <1>8, <2>2, OwnedSettled DEF Fronted
    <2>3. ASSUME NEW j \in DOMAIN pools, NEW z \in DOMAIN pools[j].free, Has(pools[j].free[z], page)
          PROVE  Owned(page)'
      <3>1. CASE j # i
        BY <1>0, <1>8, <2>3, <3>1, OwnedSettled
      <3>2. CASE j = i
        <4>1. z \in DOMAIN fl /\ 1 <= z /\ Has(fl[z], page)
          BY <1>1, <1>6, <2>3, <3>2
        <4>2. \E x \in DOMAIN q : Has(q[x], page)
          BY <1>8, <4>1 DEF Fronted
        <4> QED BY <1>0, <1>8, <4>2, OwnedSettled
      <3> QED BY <3>1, <3>2
    <2> QED BY <1>9, <2>1, <2>2, <2>3 DEF Owned
  <1> QED BY <1>8, <1>9

(* A block that page_free merges with is a single page too. *)
LEMMA MergedWith ==
  ASSUME Typed, Sound, NEW i, NEW b, InPool(i, b), Merges(i, b)
  PROVE  LET page == b.addr
             base == pools[i].base
             fl == pools[i].free
             k == StopAt(i, b)
             e == Merged(i, b)
         IN /\ k \in DOMAIN fl /\ fl[k].size = 1 /\ fl[k].addr = BuddyOf(i, b)
            /\ e \in BlockType /\ e.size = 2 /\ Past(e) = e.addr + 2 /\ (e.addr - base) % 2 = 0
            /\ \/ fl[k].addr = page + 1 /\ e.addr = page
               \/ fl[k].addr = page - 1 /\ e.addr = page - 1
  <1> DEFINE page == b.addr
             base == pools[i].base
             fl == pools[i].free
             k == StopAt(i, b)
             c == fl[k]
             e == Merged(i, b)
             off == c.addr - base
  <1>1. /\ base \in Nat /\ page \in Nat /\ base <= page
        /\ BuddyOf(i, b) = IF (page - base) % 2 = 0 THEN page + 1 ELSE page - 1
    BY PageInPool
  <1>2. k \in 1..(Len(fl) + 1) /\ Len(fl) \in Nat /\ DOMAIN fl = 1..Len(fl)
    BY StopFacts, PoolInts DEF InPool
  <1>3. Met(i, b) = BuddyOf(i, b) /\ k <= Len(fl) /\ b.size = 1
    BY DEF Merges, InPool
  <1>4. k \in DOMAIN fl /\ Met(i, b) = c.addr
    BY <1>2, <1>3 DEF Met
  <1>5. /\ c.addr \in Int /\ c.size \in Nat \ {0} /\ Past(c) = c.addr + c.size
        /\ Past(c) <= page \/ page + 1 <= c.addr
        /\ IsPow2(c.size) /\ base <= c.addr /\ off % c.size = 0
    <2>1. /\ c.addr \in Int /\ c.size \in Nat \ {0} /\ Past(c) = c.addr + c.size
          /\ Past(c) <= page \/ page + 1 <= c.addr
          /\ Lies(c, pools[i])
      BY <1>4, ListAround
    <2> QED BY <2>1 DEF Lies
  <1>6. e = Block(IF c.addr < page THEN c.addr ELSE page, c.size + 1)
    BY <1>3, <1>4 DEF Merged
  <1> HIDE DEF page, base, fl, k, c, e
  <1>7. off \in Nat /\ c.addr = IF (page - base) % 2 = 0 THEN page + 1 ELSE page - 1
    <2>1. c.addr = IF (page - base) % 2 = 0 THEN page + 1 ELSE page - 1
      BY <1>1, <1>3, <1>4, Zenon
    <2>2. base \in Nat /\ c.addr \in Int /\ base <= c.addr
      BY <1>1, <1>5, Zenon
    <2>3. off \in Nat
      BY <2>2
    <2> QED BY <2>1, <2>3
  <1>8. CASE (page - base) % 2 = 0
    <2>1. c.addr = page + 1
      BY <1>7, <1>8
    <2>2. off = (page - base) + 1 /\ page - base \in Nat
      BY <1>1, <2>1
    <2>3. off % 2 # 0
      BY <1>8, <2>2
    <2> HIDE DEF off
    <2>4. c.size = 1
      BY <1>5, <1>7, <2>3, OddOffset
    <2>5. e = Block(page, 2)
      BY <1>1, <1>5, <1>6, <2>1, <2>4
    <2>6. e \in BlockType /\ e.size = 2 /\ e.addr = page /\ Past(e) = page + 2
      BY <1>1, <2>5 DEF Block, BlockType, Past
    <2> QED BY <1>3, <1>4, <1>8, <2>1, <2>4, <2>6 DEF page, base, fl, k, c, e
  <1>9. CASE (page - base) % 2 # 0
    <2>1. c.addr = page - 1
      BY <1>7, <1>9
    <2>2. c.size = 1
      BY <1>1, <1>5, <2>1
    <2>3. e = Block(page - 1, 2)
      BY <1>1, <1>5, <1>6, <2>1, <2>2
    <2>4. e \in BlockType /\ e.size = 2 /\ e.addr = page - 1 /\ Past(e) = e.addr + 2
      BY <1>1, <2>3 DEF Block, BlockType, Past
    <2>5. page - base = off + 1
      BY <1>1, <1>7, <2>1
    <2>6. off % 2 = 0
      BY <1>7, <1>9, <2>5
    <2>7. (e.addr - base) % 2 = 0
      BY <2>1, <2>4, <2>6
    <2> QED BY <1>3, <1>4, <2>1, <2>2, <2>4, <2>7 DEF page, base, fl, k, c, e
  <1> QED BY <1>8, <1>9

LEMMA MergeKeeps ==
  ASSUME Typed, Sound, NEW i, NEW b, InPool(i, b), Merges(i, b), held' = held \ {b}
  PROVE  /\ Sound' /\ BoundaryPages' = BoundaryPages /\ i \in DOMAIN pools'
         /\ \E j \in DOMAIN pools'[i].free : pools'[i].free[j] = Merged(i, b)
         /\ \A page \in Int : Owned(page) =>
              \/ Owned(page)'
              \/ \E y \in 1..(StopAt(i, b) - 1) : Has(pools[i].free[y], page)
  <1> DEFINE page == b.addr
             base == pools[i].base
             end == pools[i].end
             fl == pools[i].free
             k == StopAt(i, b)
             e == Merged(i, b)
             q == <<e>> \o SubSeq(fl, k + 1, Len(fl))
  <1>0. i \in DOMAIN pools /\ b \in held /\ b \in BlockType /\ b.size = 1 /\ Lies(b, pools[i])
    BY DEF InPool
  <1>1. /\ base \in Nat /\ end \in Nat /\ page \in Nat /\ base <= page /\ page < end
        /\ Past(b) = page + 1
    BY PageInPool
  <1>2. Len(fl) \in Nat /\ DOMAIN fl = 1..Len(fl) /\ fl \in Seq(BlockType)
    BY <1>0, PoolInts
  <1>3. /\ k \in DOMAIN fl /\ fl[k].size = 1
        /\ e \in BlockType /\ e.size = 2 /\ Past(e) = e.addr + 2 /\ (e.addr - base) % 2 = 0
        /\ \/ fl[k].addr = page + 1 /\ e.addr = page
           \/ fl[k].addr = page - 1 /\ e.addr = page - 1
    BY MergedWith
  <1>4. SetFree(i, q)
    BY DEF Merges, Joined
  <1>5. ASSUME NEW y \in DOMAIN fl
        PROVE  /\ fl[y] \in BlockType /\ fl[y].addr \in Int /\ Past(fl[y]) \in Int
               /\ fl[y].addr < Past(fl[y])
               /\ Past(fl[y]) = fl[y].addr + fl[y].size
               /\ Past(fl[y]) <= page \/ page + 1 <= fl[y].addr
               /\ base <= fl[y].addr /\ Past(fl[y]) <= end
    <2>1. /\ fl[y] \in BlockType
          /\ Past(fl[y]) <= page \/ page + 1 <= fl[y].addr
          /\ Lies(fl[y], pools[i])
      BY ListAround
    <2>2. base <= fl[y].addr /\ Past(fl[y]) <= end
      BY <2>1 DEF Lies
    <2> QED BY <2>1, <2>2, BlockInts
  <1>6. Scattered(fl)
    BY <1>0 DEF Sound, FreeSound
  <1>7. ASSUME NEW d \in held, d # b
        PROVE  /\ d.addr \in Int /\ Past(d) \in Int /\ d.addr < Past(d)
               /\ Past(d) <= page \/ page + 1 <= d.addr
               /\ Past(d) <= fl[k].addr \/ Past(fl[k]) <= d.addr
    <2>1. d \in BlockType /\ Apart(d, b) /\ Apart(d, fl[k])
      BY <1>0, <1>3, <1>7 DEF Typed, Sound, HeldSound
    <2> QED BY <1>1, <2>1, BlockInts DEF Apart
  <1>8. fl = pools[i].free
    OBVIOUS
  <1> HIDE DEF fl, k, page, base, end, e
  <1>9. /\ fl[k].addr \in Int /\ Past(fl[k]) = fl[k].addr + 1 /\ base <= fl[k].addr /\ Past(fl[k]) <= end
        /\ e.addr \in Int
    BY <1>1, <1>3, <1>5
  <1>10. k + 1 \in 1..(Len(fl) + 1) /\ k \in Nat
    BY <1>2, <1>3
  <1>11. Spliced(q, fl, 1, <<e>>, k + 1)
    <2> DEFINE m == k + 1
    <2>1. m \in 1..(Len(fl) + 1)
      BY <1>10
    <2> HIDE DEF m
    <2>2. Spliced(<<e>> \o SubSeq(fl, m, Len(fl)), fl, 1, <<e>>, m)
      BY <1>2, <1>3, <2>1, Headed
    <2> QED BY <2>2 DEF m
  <1>12. ASSUME NEW y \in DOMAIN fl, k + 1 <= y PROVE Apart(e, fl[y])
    <2>1. k # y
      BY <1>2, <1>3, <1>12
    <2>2. Apart(fl[k], fl[y])
      BY <1>3, <1>6, <2>1 DEF Scattered
    <2> DEFINE a == fl[y].addr
               z == Past(fl[y])
               c == fl[k].addr
    <2>3. /\ a \in Int /\ z \in Int /\ a < z /\ c \in Int /\ page \in Nat /\ e.addr \in Int
          /\ (z <= page \/ page + 1 <= a)
          /\ (c + 1 <= a \/ z <= c)
          /\ (c = page + 1 /\ e.addr = page) \/ (c = page - 1 /\ e.addr = page - 1)
      BY <1>1, <1>3, <1>5, <1>9, <2>2 DEF Apart
    <2> HIDE DEF a, z, c
    <2>4. e.addr + 2 <= a \/ z <= e.addr
      BY <2>3
    <2> QED BY <1>3, <2>4 DEF Apart, a, z
  <1>13. Lies(e, pools[i])
    <2>1. IsPow2(2)
      <3>1. IsPow2(2 * 1)
        BY One, Twice
      <3> QED BY <3>1
    <2>2. base <= e.addr /\ Past(e) <= end
      BY <1>1, <1>3, <1>9
    <2> QED BY <1>3, <2>1, <2>2 DEF Lies, base, end
  <1>14. ASSUME NEW d \in held, d # b PROVE Apart(d, e)
    <2>1. /\ d.addr \in Int /\ Past(d) \in Int /\ d.addr < Past(d)
          /\ Past(d) <= page \/ page + 1 <= d.addr
          /\ Past(d) <= fl[k].addr \/ Past(fl[k]) <= d.addr
      BY <1>7, <1>14
    <2>2. Past(d) <= e.addr \/ e.addr + 2 <= d.addr
      BY <1>1, <1>3, <1>9, <2>1
    <2> QED BY <1>3, <2>2 DEF Apart
  <1> HIDE DEF q
  <1>15. Sound' /\ BoundaryPages' = BoundaryPages /\ Only(i, q) /\ Fronted(q, e, fl, k + 1)
    <2> DEFINE m == k + 1
    <2>1. m \in 1..(Len(fl) + 1) /\ Spliced(q, fl, 1, <<e>>, m) /\ Clear(e, fl, m)
      BY <1>10, <1>11, <1>12 DEF Clear
    <2> HIDE DEF m
    <2>2. Alone(e, b)
      BY <1>14 DEF Alone
    <2>3. Sound' /\ BoundaryPages' = BoundaryPages /\ Only(i, q) /\ Fronted(q, e, fl, m)
      BY <1>0, <1>3, <1>4, <1>8, <1>13, <2>1, <2>2, FreeSettles
    <2> QED BY <2>3 DEF m
  <1>16. i \in DOMAIN pools' /\ \E j \in DOMAIN pools'[i].free : pools'[i].free[j] = e
    BY <1>0, <1>15 DEF Only, Fronted
  <1>17. ASSUME NEW x \in Int, Owned(x)
         PROVE  Owned(x)' \/ \E y \in 1..(k - 1) : Has(fl[y], x)
    <2>1. CASE \E d \in held : d # b /\ Has(d, x)
      BY <1>0, <1>15, <2>1, OwnedSettled
    <2>2. ASSUME Has(e, x) PROVE Owned(x)'
      BY <1>0, <1>15, <2>2, OwnedSettled DEF Fronted
    <2>3. CASE Has(b, x)
      <3>1. page <= x /\ x < page + 1
        BY <1>1, <2>3 DEF Has, page
      <3>2. Has(e, x)
        BY <1>1, <1>3, <3>1 DEF Has
      <3> QED BY <2>2, <3>2
    <2>4. ASSUME NEW j \in DOMAIN pools, NEW z \in DOMAIN pools[j].free, Has(pools[j].free[z], x)
          PROVE  Owned(x)' \/ \E y \in 1..(k - 1) : Has(fl[y], x)
      <3>1. CASE j # i
        BY <1>0, <1>15, <2>4, <3>1, OwnedSettled
      <3>2. CASE j = i
        <4>1. z \in DOMAIN fl /\ Has(fl[z], x)
          BY <1>8, <2>4, <3>2
        <4>2. CASE k + 1 <= z
          <5>1. \E y \in DOMAIN q : Has(q[y], x)
            BY <1>15, <4>1, <4>2 DEF Fronted
          <5> QED BY <1>0, <1>15, <5>1, OwnedSettled
        <4>3. CASE z = k
          <5>1. fl[k].addr <= x /\ x < fl[k].addr + 1
            BY <1>9, <4>1, <4>3 DEF Has
          <5>2. Has(e, x)
            BY <1>1, <1>3, <5>1 DEF Has
          <5> QED BY <2>2, <5>2
        <4>4. CASE z \in 1..(k - 1)
          BY <4>1, <4>4
        <4> QED BY <1>2, <1>10, <4>1, <4>2, <4>3, <4>4
      <3> QED BY <3>1, <3>2
    <2> QED BY <1>17, <2>1, <2>3, <2>4 DEF Owned
  <1> QED BY <1>15, <1>16, <1>17 DEF fl, k, e

-----------------------------------------------------------------------------
(* The pool page_free takes is the one the block lies in, or the one before,
   whose end is the block. *)
AtEnd(i, b) ==
  /\ b \in held /\ b \in BlockType /\ b.size = 1
  /\ i \in DOMAIN pools /\ i + 1 \in DOMAIN pools
  /\ b.addr = pools[i].end /\ b.addr = pools[i + 1].base

LEMMA WhichPool ==
  ASSUME Typed, Sound, NEW b \in held, b.size = 1, PoolOf(b.addr) # {}
  PROVE  LET i == Least(PoolOf(b.addr)) IN InPool(i, b) \/ AtEnd(i, b)
  <1> DEFINE i == Least(PoolOf(b.addr))
             page == b.addr
  <1>1. b \in BlockType /\ page \in Int /\ Past(b) = page + 1
    <2>1. b \in BlockType
      BY DEF Typed
    <2> QED BY <2>1, BlockInts
  <1>2. /\ i \in DOMAIN pools /\ pools[i].base <= page /\ page <= pools[i].end
        /\ \A j \in DOMAIN pools : pools[j].base <= page /\ page <= pools[j].end => i <= j
    BY <1>1, PoolFound
  <1>3. PICK j \in DOMAIN pools : Lies(b, pools[j])
    BY DEF Sound, HeldSound
  <1> HIDE DEF i
  <1>4. /\ pools[i].base \in Nat /\ pools[i].end \in Nat /\ pools[j].base \in Nat /\ pools[j].end \in Nat
        /\ i \in 1..Len(pools) /\ j \in 1..Len(pools) /\ Len(pools) \in Nat /\ DOMAIN pools = 1..Len(pools)
    BY <1>2, PoolInts DEF Typed
  <1>5. pools[j].base <= page /\ Past(b) <= pools[j].end
    BY <1>3 DEF Lies
  <1>6. i <= j
    BY <1>1, <1>2, <1>4, <1>5
  <1>7. CASE i = j
    BY <1>1, <1>2, <1>3, <1>7 DEF InPool, i
  <1>8. CASE i # j
    <2>1. i < j /\ i + 1 \in DOMAIN pools
      BY <1>4, <1>6, <1>8
    <2>2. pools[i].end <= pools[j].base
      BY <1>2, <2>1 DEF Sound, PoolsApart
    <2>3. page = pools[i].end /\ page = pools[j].base
      BY <1>1, <1>2, <1>4, <1>5, <2>2
    <2>4. i + 1 = j
      <3> SUFFICES ASSUME i + 1 # j PROVE FALSE
        OBVIOUS
      <3>1. i < i + 1 /\ i + 1 < j
        BY <1>4, <2>1
      <3>2. /\ pools[i].end <= pools[i + 1].base /\ pools[i + 1].base < pools[i + 1].end
            /\ pools[i + 1].end <= pools[j].base
        BY <1>2, <2>1, <3>1 DEF Sound, PoolsApart
      <3>3. pools[i + 1].base \in Nat /\ pools[i + 1].end \in Nat
        BY <2>1, PoolInts
      <3> QED BY <1>4, <2>3, <3>2, <3>3
    <2> QED BY <1>1, <1>2, <2>1, <2>3, <2>4 DEF AtEnd, i
  <1> QED BY <1>7, <1>8

LEMMA EndFaults ==
  ASSUME Typed, Sound, NEW i, NEW b, AtEnd(i, b)
  PROVE  /\ ~Merges(i, b) /\ ~Inserts(i, b) /\ ~Wild(i, b)
         /\ StopAt(i, b) = Len(pools[i].free) + 1
  <1> DEFINE page == b.addr
             base == pools[i].base
             end == pools[i].end
             fl == pools[i].free
             k == StopAt(i, b)
  <1>1. /\ base \in Nat /\ end \in Nat /\ page = end /\ i \in DOMAIN pools /\ b \in BlockType /\ b.size = 1
        /\ base < end /\ (end - base) % 2 = 0
    BY PoolInts DEF AtEnd, Sound, PoolsApart
  <1>2. k \in 1..(Len(fl) + 1) /\ Len(fl) \in Nat /\ DOMAIN fl = 1..Len(fl)
        /\ (k <= Len(fl) => fl[k].addr = BuddyOf(i, b) \/ fl[k].addr > page)
    BY <1>1, StopFacts, PoolInts
  <1>3. BuddyOf(i, b) = page + 1
    <2>1. BuddyOf(i, b) = Buddy(page, 1, base)
      BY <1>1 DEF BuddyOf
    <2> HIDE DEF page, base, end
    <2>2. Buddy(page, 1, base) = IF (page - base) % 2 = 0 THEN page + 1 ELSE page - 1
      BY <1>1, PageBuddy
    <2> QED BY <1>1, <2>1, <2>2
  <1>4. ASSUME k <= Len(fl) PROVE FALSE
    <2>1. k \in DOMAIN fl
      BY <1>2, <1>4
    <2>2. fl[k] \in BlockType /\ Past(fl[k]) <= end
      BY <1>1, <2>1, PoolInts DEF Sound, FreeSound, Lies
    <2>3. fl[k].addr \in Int /\ Past(fl[k]) \in Int /\ fl[k].addr < Past(fl[k])
      BY <2>2, BlockInts
    <2> HIDE DEF fl, k, page, end
    <2> QED BY <1>1, <1>2, <1>3, <1>4, <2>2, <2>3
  <1>5. k = Len(fl) + 1 /\ Met(i, b) = page
    <2>1. k = Len(fl) + 1
      BY <1>2, <1>4
    <2> QED BY <1>1, <1>4 , <2>1 DEF Met
  <1>6. ~Merges(i, b)
    BY <1>4 DEF Merges
  <1>7. ~Inserts(i, b)
    BY <1>1, <1>5 DEF Inserts
  <1>8. ~Wild(i, b)
    BY <1>1, <1>3, <1>5 DEF Wild
  <1> QED BY <1>5, <1>6, <1>7, <1>8

(* It is the pool before if the page is the first of its pool, and only then. *)
LEMMA FirstPage ==
  ASSUME Typed, Sound, NEW b \in held, PoolOf(b.addr) # {}
  PROVE  LET i == Least(PoolOf(b.addr)) IN
         /\ InPool(i, b) => b.addr \notin BoundaryPages
         /\ AtEnd(i, b) => b.addr \in BoundaryPages
  <1> DEFINE i == Least(PoolOf(b.addr))
             page == b.addr
  <1>1. b \in BlockType /\ page \in Int /\ Past(b) \in Int /\ page < Past(b)
    <2>1. b \in BlockType
      BY DEF Typed
    <2> QED BY <2>1, BlockInts
  <1>2. /\ i \in DOMAIN pools
        /\ \A j \in DOMAIN pools : pools[j].base <= page /\ page <= pools[j].end => i <= j
    BY <1>1, PoolFound
  <1> HIDE DEF i
  <1>3. Len(pools) \in Nat /\ DOMAIN pools = 1..Len(pools)
    BY DEF Typed
  <1>4. ASSUME AtEnd(i, b) PROVE page \in BoundaryPages
    <2>1. i + 1 \in 2..Len(pools)
      BY <1>2, <1>3, <1>4 DEF AtEnd
    <2> QED BY <1>4, <2>1 DEF AtEnd, BoundaryPages
  <1>5. ASSUME InPool(i, b), page \in BoundaryPages PROVE FALSE
    <2>1. PICK j \in 2..Len(pools) : page = pools[j].base
      BY <1>5 DEF BoundaryPages
    <2> DEFINE h == j - 1
    <2>2. h \in DOMAIN pools /\ j \in DOMAIN pools /\ h < j
      BY <1>3
    <2>3. page = pools[h].end /\ pools[h].base < pools[h].end
      BY <2>1, <2>2 DEF Sound, PoolsApart
    <2> HIDE DEF h
    <2>4. pools[h].base \in Nat /\ pools[h].end \in Nat /\ pools[i].end \in Nat
      BY <1>2, <2>2, PoolInts
    <2>5. i <= h
      BY <1>1, <1>2, <2>2, <2>3, <2>4
    <2>6. i < j
      BY <1>2, <1>3, <2>2, <2>5
    <2>7. pools[i].end <= page
      BY <1>2, <2>1, <2>2, <2>6 DEF Sound, PoolsApart
    <2>8. Past(b) <= pools[i].end
      BY <1>5 DEF InPool, Lies
    <2> QED BY <1>1, <2>4, <2>7, <2>8
  <1> QED BY <1>4, <1>5 DEF i

LEMMA FaultKeeps ==
  ASSUME Sound, NEW b, pools' = pools, held' = held \ {b}
  PROVE  Sound' /\ BoundaryPages' = BoundaryPages
  <1>1. PoolsApart' /\ FreeSound' /\ BoundaryPages' = BoundaryPages
    BY DEF Sound, PoolsApart, FreeSound, BoundaryPages
  <1>2. HeldSound'
    BY DEF Sound, HeldSound
  <1> QED BY <1>1, <1>2 DEF Sound

-----------------------------------------------------------------------------
(* Blocks are apart, free or held. *)
LEMMA FreeBlock ==
  ASSUME Typed, NEW b
  PROVE  b \in FreeBlocks <=> \E i \in DOMAIN pools : \E k \in DOMAIN pools[i].free : b = pools[i].free[k]
  BY DEF FreeBlocks, Range

LEMMA ApartPages ==
  ASSUME NEW b \in BlockType, NEW c \in BlockType, Apart(b, c)
  PROVE  Pages(b) \cap Pages(c) = {} /\ b # c
  <1>1. /\ b.addr \in Int /\ b.size \in Nat \ {0} /\ Past(b) = b.addr + b.size
        /\ c.addr \in Int /\ c.size \in Nat \ {0} /\ Past(c) = c.addr + c.size
    BY BlockInts
  <1>2. Past(b) <= c.addr \/ Past(c) <= b.addr
    BY DEF Apart
  <1>3. ASSUME NEW x \in Pages(b), x \in Pages(c) PROVE FALSE
    <2>1. /\ x \in Int /\ b.addr <= x /\ x <= b.addr + b.size - 1
          /\ c.addr <= x /\ x <= c.addr + c.size - 1
      BY <1>1, <1>3 DEF Pages
    <2> QED BY <1>1, <1>2, <2>1
  <1>4. b # c
    BY <1>1, <1>2
  <1> QED BY <1>3, <1>4

LEMMA BlocksApart ==
  ASSUME Typed, Sound, NEW b \in Blocks, NEW c \in Blocks, b # c
  PROVE  b \in BlockType /\ c \in BlockType /\ Apart(b, c)
  <1>1. ASSUME NEW d \in FreeBlocks
        PROVE  \E i \in DOMAIN pools : \E k \in DOMAIN pools[i].free :
                 d = pools[i].free[k] /\ d \in BlockType /\ Lies(d, pools[i])
    <2>1. PICK i \in DOMAIN pools : \E k \in DOMAIN pools[i].free : d = pools[i].free[k]
      BY FreeBlock
    <2>2. PICK k \in DOMAIN pools[i].free : d = pools[i].free[k]
      BY <2>1
    <2>3. pools[i].free[k] \in BlockType /\ Lies(pools[i].free[k], pools[i])
      BY PoolInts DEF Sound, FreeSound
    <2> QED BY <2>2, <2>3
  <1>2. b \in BlockType /\ c \in BlockType
    BY <1>1 DEF Blocks, Typed
  <1>3. ASSUME NEW h \in held, NEW f \in FreeBlocks PROVE Apart(h, f) /\ Apart(f, h)
    <2>1. Apart(h, f)
      BY <1>1 DEF Sound, HeldSound
    <2> QED BY <2>1, Mirrored
  <1>4. CASE b \in held /\ c \in held
    BY <1>2, <1>4 DEF Sound, HeldSound
  <1>5. CASE b \in FreeBlocks /\ c \in FreeBlocks
    <2>1. PICK i \in DOMAIN pools : \E k \in DOMAIN pools[i].free : b = pools[i].free[k] /\ Lies(b, pools[i])
      BY <1>1, <1>5
    <2>2. PICK k \in DOMAIN pools[i].free : b = pools[i].free[k] /\ Lies(b, pools[i])
      BY <2>1
    <2>3. PICK j \in DOMAIN pools : \E l \in DOMAIN pools[j].free : c = pools[j].free[l] /\ Lies(c, pools[j])
      BY <1>1, <1>5
    <2>4. PICK l \in DOMAIN pools[j].free : c = pools[j].free[l] /\ Lies(c, pools[j])
      BY <2>3
    <2>5. CASE i = j
      <3>1. k # l
        BY <2>2, <2>4, <2>5
      <3>2. Scattered(pools[i].free)
        BY DEF Sound, FreeSound
      <3> QED BY <1>2, <2>2, <2>4, <2>5, <3>1, <3>2 DEF Scattered
    <2>6. CASE i # j
      BY <1>2, <2>2, <2>4, <2>6, OtherPool DEF Sound
    <2> QED BY <2>5, <2>6
  <1> QED BY <1>2, <1>3, <1>4, <1>5 DEF Blocks

Separate == \A b, c \in Blocks : b # c => Pages(b) \cap Pages(c) = {}

LEMMA SeparateHolds == Typed /\ Sound => Separate
  <1> SUFFICES ASSUME Typed, Sound, NEW b \in Blocks, NEW c \in Blocks, b # c
               PROVE  Pages(b) \cap Pages(c) = {}
    BY DEF Separate
  <1> QED BY BlocksApart, ApartPages

LEMMA SeparateNext == Typed' /\ Sound' => Separate'
  BY SeparateHolds, PTL

(* The pages of the blocks. *)
Counted == \A page : page \in Covered <=> page \in Int /\ Owned(page)

LEMMA CountedHolds == Typed => Counted
  <1> SUFFICES ASSUME Typed, NEW page PROVE page \in Covered <=> page \in Int /\ Owned(page)
    BY DEF Counted
  <1>1. ASSUME NEW b \in BlockType PROVE page \in Pages(b) <=> page \in Int /\ Has(b, page)
    <2>1. b.addr \in Int /\ b.size \in Nat /\ Past(b) = b.addr + b.size
      BY BlockInts
    <2> QED BY <2>1 DEF Pages, Has
  <1>2. held \subseteq BlockType
    BY DEF Typed
  <1>3. \A i \in DOMAIN pools : \A k \in DOMAIN pools[i].free : pools[i].free[k] \in BlockType
    BY PoolInts
  <1>4. page \in Covered <=> \E b \in Blocks : page \in Pages(b)
    BY DEF Covered
  <1>5. (\E b \in held : page \in Pages(b)) <=> page \in Int /\ \E b \in held : Has(b, page)
    BY <1>1, <1>2
  <1>6. (\E b \in FreeBlocks : page \in Pages(b)) <=>
          page \in Int /\ \E i \in DOMAIN pools : \E k \in DOMAIN pools[i].free : Has(pools[i].free[k], page)
    BY <1>1, <1>3, FreeBlock
  <1> QED BY <1>4, <1>5, <1>6 DEF Blocks, Owned

LEMMA CountedNext == Typed' => Counted'
  BY CountedHolds, PTL

-----------------------------------------------------------------------------
(* page_alloc_init: every pool is one block. *)
LEMMA StartSound ==
  ASSUME GenInv, OnlyPagesFreed, PageAllocInit
  PROVE  Sound' /\ 0 \notin BoundaryPages'
  <1> DEFINE lens == memmap.lens
             sizes == AllSizes(lens)
             n == AllCounted(lens)
  <1>0. Typed /\ held = {} /\ held' = {}
    BY DEF GenInv, PageAllocInit
  <1>1. Laid(pools', sizes, n) /\ sizes \in Seq(PoolSize) /\ n \in Nat /\ n = Len(pools')
        /\ pools' \in Seq(PoolType)
    BY <1>0, Started
  <1>2. lens \in Seq(Nat) /\ \A i \in DOMAIN lens : lens[i] # 1
    BY <1>0, PageAllocAssumption, OnePagePoolsAssumption DEF Typed, OnlyPagesFreed
  <1> HIDE DEF lens
  <1>3. Len(sizes) = n /\ \A i \in DOMAIN sizes : sizes[i] # 1
    BY <1>2, AllPools
  <1> HIDE DEF sizes, n
  <1>4. DOMAIN pools' = 1..n
    BY <1>1
  <1>5. ASSUME NEW i \in DOMAIN pools'
        PROVE  LET p == pools'[i]
                   s == sizes[i]
               IN /\ p.base \in Nat /\ s \in Nat \ {0} /\ IsPow2(s) /\ s # 1
                  /\ p.end = p.base + s /\ p.free = <<Block(p.base, s)>>
    <2> DEFINE p == pools'[i]
               s == sizes[i]
    <2>1. p \in PoolType /\ p = Pool(p.base, s)
      BY <1>1, <1>4 DEF Laid
    <2>2. i \in DOMAIN sizes
      BY <1>1, <1>3, <1>4
    <2>3. s \in PoolSize /\ s # 1
      BY <1>1, <1>3, <2>2
    <2>4. s \in Nat \ {0} /\ IsPow2(s)
      BY <2>3 DEF PoolSize, IsPow2
    <2>5. p.base \in Nat
      BY <2>1 DEF PoolType
    <2> HIDE DEF p, s
    <2>6. p.end = p.base + s /\ p.free = <<Block(p.base, s)>>
      BY <2>1, <2>4, <2>5, PoolTyped
    <2> QED BY <2>3, <2>4, <2>5, <2>6 DEF p, s
  <1>6. PoolsApart'
    <2>1. \A i, j \in DOMAIN pools' : i < j => pools'[i].end <= pools'[j].base
      BY <1>1, <1>4 DEF Laid
    <2>2. ASSUME NEW i \in DOMAIN pools'
          PROVE  pools'[i].base < pools'[i].end /\ (pools'[i].end - pools'[i].base) % 2 = 0
      <3> DEFINE a == pools'[i].base
                 z == pools'[i].end
                 s == sizes[i]
      <3>1. a \in Nat /\ s \in Nat \ {0} /\ IsPow2(s) /\ s # 1 /\ z = a + s
        BY <1>5
      <3> HIDE DEF a, z, s
      <3>2. PICK h \in Nat : s = 2 * h
        BY <3>1, Halved
      <3>3. z - a = 2 * h /\ a < z
        BY <3>1, <3>2
      <3>4. (z - a) % 2 = 0
        BY <3>3
      <3> QED BY <3>3, <3>4 DEF a, z
    <2>3. ASSUME NEW i \in DOMAIN pools', i - 1 \in DOMAIN pools' PROVE pools'[i].base = pools'[i - 1].end
      <3>1. i \in 2..n
        BY <1>1, <1>4, <2>3
      <3> QED BY <1>1, <3>1 DEF Laid
    <2> QED BY <2>1, <2>2, <2>3 DEF PoolsApart
  <1>7. ASSUME NEW i \in DOMAIN pools'
        PROVE  LET p == pools'[i]
                   b == Block(p.base, sizes[i])
               IN /\ DOMAIN p.free = {1} /\ p.free[1] = b /\ b \in BlockType
                  /\ Lies(b, p) /\ Past(b) = p.end
    <2> DEFINE p == pools'[i]
               s == sizes[i]
               b == Block(p.base, s)
    <2>1. /\ p.base \in Nat /\ s \in Nat \ {0} /\ IsPow2(s)
          /\ p.end = p.base + s /\ p.free = <<b>>
      BY <1>5
    <2> HIDE DEF p, s
    <2>2. b \in BlockType /\ b.addr = p.base /\ b.size = s /\ Past(b) = p.end
      BY <2>1 DEF Block, BlockType, Past
    <2>3. (b.addr - p.base) % s = 0
      <3>1. b.addr - p.base = 0 /\ s * 0 = 0
        BY <2>1, <2>2
      <3>2. (s * 0) % s = 0
        BY <2>1, Cancel
      <3> QED BY <3>1, <3>2
    <2>4. Lies(b, p)
      BY <2>1, <2>2, <2>3 DEF Lies
    <2>5. DOMAIN p.free = {1} /\ p.free[1] = b
      <3> HIDE DEF b
      <3> QED BY <2>1
    <2> QED BY <2>2, <2>4, <2>5 DEF p, s, b
  <1>8. FreeSound'
    <2> SUFFICES ASSUME NEW i \in DOMAIN pools'
                 PROVE  /\ Scattered(pools'[i].free)
                        /\ \A k \in DOMAIN pools'[i].free : Lies(pools'[i].free[k], pools'[i])
      BY DEF FreeSound
    <2> DEFINE p == pools'[i]
               fl == p.free
    <2>1. DOMAIN fl = {1} /\ fl[1] \in BlockType /\ Lies(fl[1], p) /\ p.base \in Nat
      BY <1>5, <1>7
    <2> HIDE DEF p, fl
    <2>2. Scattered(fl)
      BY <2>1 DEF Scattered
    <2>4. \A k \in DOMAIN fl : Lies(fl[k], p)
      BY <2>1
    <2> QED BY <2>2, <2>4 DEF p, fl
  <1>9. HeldSound'
    BY <1>0 DEF HeldSound
  <1>10. 0 \notin BoundaryPages'
    <2> SUFFICES ASSUME NEW i \in 2..Len(pools'), pools'[i].base = 0 PROVE FALSE
      BY DEF BoundaryPages
    <2> DEFINE h == i - 1
    <2>1. i \in DOMAIN pools' /\ h \in DOMAIN pools'
      BY <1>1, <1>4
    <2>2. pools'[i].base = pools'[h].end /\ pools'[h].base < pools'[h].end
      BY <1>6, <2>1 DEF PoolsApart
    <2>3. pools'[h].base \in Nat
      BY <1>5, <2>1
    <2> QED BY <2>2, <2>3
  <1> QED BY <1>6, <1>8, <1>9, <1>10 DEF Sound

-----------------------------------------------------------------------------
LEMMA PageInit == Init => PageInv
  <1> SUFFICES ASSUME Init PROVE Sound /\ StatusSound
    BY DEF PageInv
  <1>1. pools = <<>> /\ held = {} /\ status = "init" /\ last = NoBlock
    BY DEF Init
  <1>2. DOMAIN pools = {} /\ BoundaryPages = {}
    <2>1. Len(pools) = 0
      BY <1>1
    <2> QED BY <1>1, <2>1 DEF BoundaryPages
  <1>3. PoolsApart /\ FreeSound
    BY <1>2 DEF PoolsApart, FreeSound
  <1>4. HeldSound /\ StatusSound
    BY <1>1, <1>2 DEF HeldSound, StatusSound
  <1> QED BY <1>3, <1>4 DEF Sound

(* A page that page_free(b) loses. *)
Lost(page, b) ==
  \/ status' = "null_write" /\ page = b.addr
  \/ \E i \in DOMAIN pools : \E k \in DOMAIN pools[i].free :
       /\ pools[i].free[k] = Block(Buddy(b.addr, 1, pools[i].base), 1)
       /\ \E j \in 1..(k - 1) : Has(pools[i].free[j], page)

LEMMA MergeLoses ==
  ASSUME Typed, Sound, NEW i, NEW b, InPool(i, b), Merges(i, b),
         NEW page, NEW y \in 1..(StopAt(i, b) - 1), Has(pools[i].free[y], page)
  PROVE  Lost(page, b)
  <1> DEFINE fl == pools[i].free
             k == StopAt(i, b)
  <1>1. i \in DOMAIN pools /\ b.size = 1 /\ fl \in Seq(BlockType)
    BY PoolInts DEF InPool
  <1>2. k \in DOMAIN fl /\ fl[k].size = 1 /\ fl[k].addr = BuddyOf(i, b)
    BY MergedWith
  <1>3. fl[k] = Block(fl[k].addr, fl[k].size)
    <2>1. fl[k] \in BlockType
      BY <1>1, <1>2
    <2> QED BY <2>1 DEF Block, BlockType
  <1>4. BuddyOf(i, b) = Buddy(b.addr, 1, pools[i].base)
    BY <1>1 DEF BuddyOf
  <1>5. fl[k] = Block(Buddy(b.addr, 1, pools[i].base), 1)
    BY <1>2, <1>3, <1>4
  <1>6. y \in 1..(k - 1) /\ Has(fl[y], page)
    OBVIOUS
  <1> HIDE DEF k
  <1> QED BY <1>1, <1>2, <1>5, <1>6 DEF Lost

(* A merge of two pages takes in no other. *)
LEMMA MergeApart ==
  ASSUME Typed, Sound, NEW i, NEW b, InPool(i, b), Merges(i, b), held' = held \ {b}, Typed'
  PROVE  status' = status
  <1> DEFINE e == Merged(i, b)
  <1>1. Sound' /\ i \in DOMAIN pools' /\ \E j \in DOMAIN pools'[i].free : pools'[i].free[j] = e
    BY MergeKeeps
  <1>2. e \in Blocks'
    <2>1. e \in Range(pools'[i].free)
      BY <1>1 DEF Range
    <2> QED BY <1>1, <2>1 DEF Blocks, FreeBlocks
  <1>3. Separate'
    BY <1>1, SeparateNext
  <1>4. \A c \in Blocks' \ {e} : Pages(c) \cap Pages(e) = {}
    BY <1>2, <1>3 DEF Separate
  <1> HIDE DEF e
  <1>5. ~\E c \in Blocks' \ {e} : Pages(c) \cap Pages(e) # {}
    BY <1>4
  <1>6. status' = IF \E c \in Blocks' \ {e} : Pages(c) \cap Pages(e) # {} THEN "overlap" ELSE status
    BY DEF Merges, e
  <1> QED BY <1>5, <1>6

LEMMA FreeKeeps ==
  ASSUME Typed, Sound, OnlyPagesFreed, NEW b \in held, PageFree(b)
  PROVE  Sound' /\ StatusSound' /\ \A page \in Int : Owned(page) => Owned(page)' \/ Lost(page, b)
  <1> DEFINE i == Least(PoolOf(b.addr))
  <1>1. /\ Merges(i, b) \/ Inserts(i, b) \/ Wild(i, b) \/ Faults(i, b)
        /\ status = "ok" /\ b.size \in memmap.frees /\ PoolOf(b.addr) # {}
        /\ held' = held \ {b} /\ last' = b
    BY FreeStep
  <1>2. b.size = 1
    BY <1>1 DEF OnlyPagesFreed
  <1>3. InPool(i, b) \/ AtEnd(i, b)
    BY <1>1, <1>2, WhichPool
  <1>4. (InPool(i, b) => b.addr \notin BoundaryPages) /\ (AtEnd(i, b) => b.addr \in BoundaryPages)
    BY <1>1, FirstPage
  <1>5. Typed'
    BY FreeTyped
  <1> HIDE DEF i
  <1>6. CASE InPool(i, b)
    <2>1. ~Wild(i, b) /\ ~Faults(i, b)
      BY <1>6, NotWild
    <2>2. CASE Merges(i, b)
      <3>1. /\ Sound' /\ BoundaryPages' = BoundaryPages
            /\ \A page \in Int : Owned(page) =>
                 \/ Owned(page)'
                 \/ \E y \in 1..(StopAt(i, b) - 1) : Has(pools[i].free[y], page)
        BY <1>1, <1>6, <2>2, MergeKeeps
      <3>2. status' = "ok"
        BY <1>1, <1>5, <1>6, <2>2, MergeApart
      <3>3. StatusSound'
        BY <1>1, <1>4, <1>6, <3>1, <3>2 DEF StatusSound
      <3>4. \A page \in Int : Owned(page) => Owned(page)' \/ Lost(page, b)
        BY <1>6, <2>2, <3>1, MergeLoses
      <3> QED BY <3>1, <3>3, <3>4
    <2>3. CASE Inserts(i, b)
      <3>1. /\ Sound' /\ BoundaryPages' = BoundaryPages
            /\ \A page \in Int : Owned(page) => Owned(page)'
        BY <1>1, <1>6, <2>3, InsertKeeps
      <3>2. status' = "ok"
        BY <1>1, <2>3 DEF Inserts
      <3>3. StatusSound'
        BY <1>1, <1>4, <1>6, <3>1, <3>2 DEF StatusSound
      <3> QED BY <3>1, <3>3
    <2> QED BY <1>1, <2>1, <2>2, <2>3
  <1>7. CASE AtEnd(i, b)
    <2>1. Faults(i, b)
      BY <1>1, <1>7, EndFaults
    <2>2. pools' = pools /\ status' = "null_write"
      BY <2>1 DEF Faults
    <2>3. Sound' /\ BoundaryPages' = BoundaryPages
      BY <1>1, <2>2, FaultKeeps
    <2>4. StatusSound'
      BY <1>1, <1>4, <1>7, <2>2, <2>3 DEF StatusSound
    <2>5. ASSUME NEW page \in Int, Owned(page) PROVE Owned(page)' \/ Lost(page, b)
      <3>1. CASE Has(b, page)
        <4>1. b.addr \in Int /\ Past(b) = b.addr + 1
          BY <1>2, BlockInts DEF Typed
        <4>2. page = b.addr
          BY <3>1, <4>1 DEF Has
        <4> QED BY <2>2, <4>2 DEF Lost
      <3>2. CASE ~Has(b, page)
        BY <1>1, <2>2, <2>5, <3>2 DEF Owned
      <3> QED BY <3>1, <3>2
    <2> QED BY <2>3, <2>4, <2>5
  <1> QED BY <1>3, <1>6, <1>7

LEMMA SameMap == [Next]_vars => memmap' = memmap
  <1>1. ASSUME NEW b \in held, PageFree(b) PROVE memmap' = memmap
    BY <1>1, FreeStep
  <1>2. ASSUME NEW req \in AllocSizes, PageAlloc(req) PROVE memmap' = memmap
    BY <1>2 DEF PageAlloc
  <1> QED BY <1>1, <1>2 DEF Next, vars, PageAllocInit, SplitHangs, OutOfMemory

LEMMA SameBlocks ==
  ASSUME UNCHANGED <<pools, held>>
  PROVE  /\ Sound => Sound'
         /\ BoundaryPages' = BoundaryPages
         /\ \A page : Owned(page)' <=> Owned(page)
  <1>1. pools' = pools /\ held' = held
    OBVIOUS
  <1>2. Sound => PoolsApart' /\ FreeSound' /\ HeldSound'
    BY <1>1 DEF Sound, PoolsApart, FreeSound, HeldSound
  <1>3. BoundaryPages' = BoundaryPages
    BY <1>1 DEF BoundaryPages
  <1>4. \A page : Owned(page)' <=> Owned(page)
    BY <1>1 DEF Owned
  <1> QED BY <1>2, <1>3, <1>4 DEF Sound

(* One step, as long as single pages are freed. *)
LEMMA OneStep ==
  ASSUME GenInv, OnlyPagesFreed, Sound, StatusSound, [Next]_vars
  PROVE  /\ Sound' /\ StatusSound'
         /\ \A page \in Int : Owned(page) => Owned(page)' \/ Lost(page, last')
  <1>0. Typed
    BY DEF GenInv
  <1> DEFINE Goal == /\ Sound' /\ StatusSound'
                     /\ \A page \in Int : Owned(page) => Owned(page)' \/ Lost(page, last')
  <1>1. CASE PageAllocInit
    <2>1. /\ status = "init" /\ status' \in {"no_pools", "ok"} /\ last' = last
          /\ pools = <<>> /\ held = {}
      BY <1>1 DEF PageAllocInit, GenInv
    <2>2. Sound' /\ 0 \notin BoundaryPages'
      BY <1>1, StartSound
    <2>3. last'.addr = 0
      BY <2>1, BlockFields DEF StatusSound, NoBlock
    <2>4. StatusSound'
      BY <2>1, <2>2, <2>3 DEF StatusSound
    <2>5. \A page \in Int : ~Owned(page)
      BY <2>1 DEF Owned
    <2> QED BY <2>2, <2>4, <2>5
  <1>2. ASSUME NEW req \in AllocSizes, PageAlloc(req) PROVE Goal
    <2>1. status = "ok" /\ status' = "ok"
      BY <1>0, <1>2, AllocTyped
    <2>2. last' = last
      BY <1>2 DEF PageAlloc
    <2>3. Sound' /\ BoundaryPages' = BoundaryPages /\ \A page \in Int : Owned(page) => Owned(page)'
      BY <1>0, <1>2, AllocKeeps
    <2>4. StatusSound'
      BY <2>1, <2>2, <2>3 DEF StatusSound
    <2> QED BY <2>3, <2>4
  <1>3. ASSUME NEW req \in AllocSizes, SplitHangs(req) \/ OutOfMemory(req) PROVE Goal
    <2>1. status = "ok" /\ status' \in {"hang", "oom"} /\ UNCHANGED <<pools, held, last>>
      BY <1>3 DEF SplitHangs, OutOfMemory
    <2>2. Sound' /\ BoundaryPages' = BoundaryPages /\ \A page : Owned(page)' <=> Owned(page)
      BY <2>1, SameBlocks
    <2>3. StatusSound'
      BY <2>1, <2>2 DEF StatusSound
    <2> QED BY <2>2, <2>3
  <1>4. ASSUME NEW b \in held, PageFree(b) PROVE Goal
    <2>1. last' = b
      BY <1>4, FreeStep
    <2>2. Sound' /\ StatusSound' /\ \A page \in Int : Owned(page) => Owned(page)' \/ Lost(page, b)
      BY <1>0, <1>4, FreeKeeps
    <2> QED BY <2>1, <2>2
  <1>5. CASE UNCHANGED vars
    <2>1. UNCHANGED <<pools, held, status, last>>
      BY <1>5 DEF vars
    <2>2. Sound' /\ BoundaryPages' = BoundaryPages /\ \A page : Owned(page)' <=> Owned(page)
      BY <2>1, SameBlocks
    <2>3. StatusSound'
      BY <2>1, <2>2 DEF StatusSound
    <2> QED BY <2>2, <2>3
  <1> QED BY <1>1, <1>2, <1>3, <1>4, <1>5 DEF Next

LEMMA PageStep == GenInv /\ PageInv /\ [Next]_vars => PageInv'
  <1> SUFFICES ASSUME GenInv, PageInv, [Next]_vars, OnlyPagesFreed' PROVE Sound' /\ StatusSound'
    BY DEF PageInv
  <1>1. OnlyPagesFreed
    BY SameMap DEF OnlyPagesFreed
  <1>2. Sound /\ StatusSound
    BY <1>1 DEF PageInv
  <1> QED BY <1>1, <1>2, OneStep

(* The invariant: the pools lie one after the other, every block, free or held,
   lies in one at a multiple of its size, no two blocks have a page in common,
   and page_free (page_alloc.c:155-222) has faulted if and only if it was given
   the first page of a pool but the first. *)
THEOREM PagesSound == Spec => [](GenInv /\ PageInv)
  <1>1. Init => GenInv /\ PageInv
    BY GenInit, PageInit
  <1>2. (GenInv /\ PageInv) /\ [Next]_vars => (GenInv /\ PageInv)'
    BY GenStep, PageStep
  <1> QED BY <1>1, <1>2, PTL DEF Spec

-----------------------------------------------------------------------------
(* From the invariant to the properties. *)
LEMMA BuddyBlocksHold == Typed /\ PageInv => BuddyBlocks
  <1> SUFFICES ASSUME Typed, Sound, OnlyPagesFreed
               PROVE  /\ FreeBlocks \cap held = {}
                      /\ \A b, c \in Blocks : b # c => Pages(b) \cap Pages(c) = {}
                      /\ \A b \in Blocks : /\ IsPow2(b.size)
                                           /\ \E i \in DOMAIN pools : /\ pools[i].base <= b.addr
                                                                      /\ b.addr + b.size <= pools[i].end
                                                                      /\ (b.addr - pools[i].base) % b.size = 0
    BY DEF PageInv, BuddyBlocks
  <1>1. ASSUME NEW b \in FreeBlocks, b \in held PROVE FALSE
    <2>1. PICK i \in DOMAIN pools : \E k \in DOMAIN pools[i].free : b = pools[i].free[k]
      BY FreeBlock
    <2>2. b \in BlockType /\ Apart(b, b)
      BY <1>1, <2>1 DEF Typed, Sound, HeldSound
    <2> QED BY <2>2, ApartPages
  <1>2. ASSUME NEW b \in Blocks, NEW c \in Blocks, b # c PROVE Pages(b) \cap Pages(c) = {}
    BY <1>2, BlocksApart, ApartPages
  <1>3. ASSUME NEW b \in Blocks PROVE \E i \in DOMAIN pools : Lies(b, pools[i])
    <2>1. CASE b \in held
      BY <2>1 DEF Sound, HeldSound
    <2>2. CASE b \in FreeBlocks
      BY <2>2, FreeBlock DEF Sound, FreeSound
    <2> QED BY <2>1, <2>2 DEF Blocks
  <1>4. ASSUME NEW b \in Blocks
        PROVE  /\ IsPow2(b.size)
               /\ \E i \in DOMAIN pools : /\ pools[i].base <= b.addr
                                          /\ b.addr + b.size <= pools[i].end
                                          /\ (b.addr - pools[i].base) % b.size = 0
    BY <1>3, Zenon DEF Lies, Past
  <1> QED BY <1>1, <1>2, <1>4

LEMMA ListsHold == Typed /\ OnlyPagesFreed /\ PageInv => ListsSound
  <1> SUFFICES ASSUME Typed, Sound PROVE ListsSound
    BY DEF PageInv
  <1>1. ASSUME NEW i \in DOMAIN pools, NEW j \in DOMAIN pools,
               NEW k \in DOMAIN pools[i].free, NEW l \in DOMAIN pools[j].free,
               pools[i].free[k].addr = pools[j].free[l].addr, ~(i = j /\ k = l)
        PROVE  FALSE
    <2> DEFINE b == pools[i].free[k]
               c == pools[j].free[l]
    <2>1. b \in BlockType /\ c \in BlockType /\ Lies(b, pools[i]) /\ Lies(c, pools[j])
      BY PoolInts DEF Sound, FreeSound
    <2>2. b.addr = c.addr
      BY <1>1
    <2>3. Apart(b, c)
      <3>1. CASE i = j
        BY <1>1, <3>1 DEF Sound, FreeSound, Scattered
      <3>2. CASE i # j
        BY <2>1, <3>2, OtherPool DEF Sound
      <3> QED BY <3>1, <3>2
    <2> HIDE DEF b, c
    <2>4. /\ b.addr \in Int /\ Past(b) \in Int /\ b.addr < Past(b)
          /\ c.addr \in Int /\ Past(c) \in Int /\ c.addr < Past(c)
      BY <2>1, BlockInts
    <2> QED BY <2>2, <2>3, <2>4 DEF Apart
  <1>2. ASSUME NEW b \in held PROVE PoolOf(b.addr) # {}
    <2>1. PICK i \in DOMAIN pools : Lies(b, pools[i])
      BY DEF Sound, HeldSound
    <2>2. b \in BlockType
      BY DEF Typed
    <2>3. pools[i].base <= b.addr /\ Past(b) <= pools[i].end
      BY <2>1 DEF Lies
    <2>4. b.addr <= pools[i].end
      <3>1. b.addr \in Int /\ Past(b) \in Int /\ b.addr < Past(b)
        BY <2>2, BlockInts
      <3>2. pools[i].end \in Nat
        BY PoolInts
      <3> QED BY <2>3, <3>1, <3>2
    <2> QED BY <2>3, <2>4 DEF PoolOf
  <1> QED BY <1>1, <1>2 DEF ListsSound

(* While single pages are freed, page_alloc never hands out a page that is held
   or free elsewhere, and every block stays a power of two at a multiple of its
   size from the base of its pool, which get_buddy relies on. *)
THEOREM BlocksStayBuddies == Spec => []BuddyBlocks
  <1>1. GenInv /\ PageInv => BuddyBlocks
    BY BuddyBlocksHold DEF GenInv
  <1> QED BY <1>1, PagesSound, PTL

(* While single pages are freed, page_free writes through its null prev exactly
   when it is given the first page of a pool but the first, which its test
   page > pools[i].end (page_alloc.c:170) takes for the end of the pool before;
   it reads no header behind a pool, and no merge takes in a third block. *)
THEOREM FaultsAtBoundary == Spec => []FaultsOnlyAtBoundary
  <1>1. GenInv /\ PageInv => FaultsOnlyAtBoundary
    BY DEF PageInv, StatusSound, FaultsOnlyAtBoundary
  <1> QED BY <1>1, PagesSound, PTL

(* While single pages are freed, no address is on the free lists twice, so the
   walks of page_alloc and page_free end, and the unreachable statement after
   the loop of page_free (page_alloc.c:218) is. *)
THEOREM ListsStaySound == Spec => [](OnlyPagesFreed => ListsSound)
  <1>1. GenInv /\ PageInv => (OnlyPagesFreed => ListsSound)
    BY ListsHold DEF GenInv
  <1> QED BY <1>1, PagesSound, PTL

-----------------------------------------------------------------------------
(* A page that is covered before a step and not after it. *)
LossExplained ==
  OnlyPagesFreed =>
    \A page \in Covered \ Covered' :
      \/ status' = "null_write" /\ page = last'.addr
      \/ \E i \in DOMAIN pools : \E k \in DOMAIN pools[i].free :
           /\ pools[i].free[k] = Block(Buddy(last'.addr, 1, pools[i].base), 1)
           /\ \E j \in 1..(k - 1) : page \in Pages(pools[i].free[j])

LEMMA LossStep ==
  ASSUME GenInv, PageInv, GenInv', [Next]_vars
  PROVE  LossExplained
  <1> SUFFICES ASSUME OnlyPagesFreed, NEW page \in Covered \ Covered'
               PROVE  \/ status' = "null_write" /\ page = last'.addr
                      \/ \E i \in DOMAIN pools : \E k \in DOMAIN pools[i].free :
                           /\ pools[i].free[k] = Block(Buddy(last'.addr, 1, pools[i].base), 1)
                           /\ \E j \in 1..(k - 1) : page \in Pages(pools[i].free[j])
    BY DEF LossExplained
  <1>1. Typed /\ Typed' /\ Sound /\ StatusSound
    BY DEF GenInv, PageInv
  <1>2. Counted /\ Counted'
    BY <1>1, CountedHolds, CountedNext
  <1>3. page \in Int /\ Owned(page) /\ ~Owned(page)'
    BY <1>2 DEF Counted
  <1>4. Lost(page, last')
    BY <1>1, <1>3, OneStep
  <1>5. ASSUME NEW i \in DOMAIN pools, NEW j \in DOMAIN pools[i].free, Has(pools[i].free[j], page)
        PROVE  page \in Pages(pools[i].free[j])
    <2>1. pools[i].free[j] \in BlockType
      BY <1>1, PoolInts
    <2>2. /\ pools[i].free[j].addr \in Int /\ pools[i].free[j].size \in Nat
          /\ Past(pools[i].free[j]) = pools[i].free[j].addr + pools[i].free[j].size
      BY <2>1, BlockInts
    <2> QED BY <1>3, <1>5, <2>2 DEF Has, Pages
  <1>6. CASE status' = "null_write" /\ page = last'.addr
    BY <1>6
  <1>7. ASSUME NEW i \in DOMAIN pools, NEW k \in DOMAIN pools[i].free,
               pools[i].free[k] = Block(Buddy(last'.addr, 1, pools[i].base), 1),
               NEW j \in 1..(k - 1), Has(pools[i].free[j], page)
        PROVE  page \in Pages(pools[i].free[j])
    <2>1. DOMAIN pools[i].free = 1..Len(pools[i].free) /\ Len(pools[i].free) \in Nat
      BY <1>1, PoolInts
    <2>2. j \in DOMAIN pools[i].free
      BY <2>1
    <2> QED BY <1>5, <1>7, <2>2
  <1> QED BY <1>4, <1>6, <1>7, Zenon DEF Lost

(* While single pages are freed, memory is lost in two ways only, after any
   splits and merges: page_free faults, or it merges the page with a buddy that
   is not the first of its list, and, since its walk never moves prev
   (page_alloc.c:169), forgets what is listed before the buddy. *)
THEOREM LossBeforeBuddy == Spec => LostOnlyBeforeBuddy
  <1>1. (GenInv /\ PageInv) /\ (GenInv /\ PageInv)' /\ [Next]_vars => LossExplained
    BY LossStep
  <1>2. (GenInv /\ PageInv) /\ (GenInv /\ PageInv)' /\ [Next]_vars => [LossExplained]_vars
    BY <1>1
  <1>3. Spec => [][LossExplained]_vars
    BY <1>2, PagesSound, PTL DEF Spec
  <1> QED BY <1>3 DEF LostOnlyBeforeBuddy, LossExplained
=============================================================================
