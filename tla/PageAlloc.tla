----------------------------- MODULE PageAlloc -----------------------------
(***************************************************************************)
(* The buddy allocator of kernel/page_alloc.c.  The unit is the page, so   *)
(* PAGE_SIZE is 1.  A pool is its base, its end and its free list, which   *)
(* the code keeps inside the free blocks and ends with a pointer to the    *)
(* pool's end; here it is the sequence of the blocks before that sentinel. *)
(* Allocation and release run under one global lock from first to last     *)
(* access, so each is one step; a panic or a fault keeps the lock, and the *)
(* allocator with it.                                                      *)
(***************************************************************************)
EXTENDS Integers, Sequences, Functions

CONSTANTS
  Memmaps,    \* memory maps: sequences of entry lengths, and the sizes of the
              \* blocks that page_free is called with
  AllocSizes  \* the sizes that page_alloc is called with

ASSUME PageAllocAssumption ==
  /\ \A m \in Memmaps : m.lens \in Seq(Nat) /\ m.frees \subseteq Nat \ {0}
  /\ AllocSizes \subseteq Nat \ {0}

(* An entry of one page makes a pool of one page, where freeing that page frees
   the whole pool: such maps are with those where any size is freed. *)
ASSUME OnePagePoolsAssumption ==
  \A m \in Memmaps : m.frees = {1} => \A i \in DOMAIN m.lens : m.lens[i] # 1

VARIABLES
  memmap,
  n_pools,    \* what page_alloc_init counted and made room for
  pools,
  held,       \* the blocks the callers have
  status,     \* "init", "ok", or what stopped the allocator
  last        \* the block page_free was last called with

vars == <<memmap, n_pools, pools, held, status, last>>

Block(a, s) == [addr |-> a, size |-> s]
NoBlock == Block(0, 0)

-----------------------------------------------------------------------------
(* prev_pow2 and next_pow2: the powers of two next to x; 0 for 0. *)
prev_pow2[x \in Nat] == IF x < 2 THEN x ELSE 2 * prev_pow2[x \div 2]
next_pow2[x \in Nat] == IF x < 2 THEN x ELSE 2 * next_pow2[(x + 1) \div 2]

IsPow2(x) == x > 0 /\ prev_pow2[x] = x

(* page_alloc and page_free round the size they are given up to a power of two
   of at least a page.  Mutant: they do not. *)
RoundUpToPage(sz) == sz
RoundUp(sz) == next_pow2[sz]

(* Mutant: the buddy is on the wrong side. *)
BuddySwapped(addr, size, base) ==
  IF ((addr - base) \div size) % 2 = 0 THEN addr - size ELSE addr + size

(* get_buddy: the offset in the pool xor the size, a power of two. *)
Buddy(addr, size, base) ==
  IF ((addr - base) \div size) % 2 = 0 THEN addr + size ELSE addr - size

(* Mutants: the lower half stays in the list too; the upper ones are not linked. *)
UpperHalvesAndLower(b, sz, base) ==
  LET half[s \in Nat] ==
        IF s <= sz THEN <<Block(b.addr, sz)>>
        ELSE half[s \div 2] \o <<Block(Buddy(b.addr, s \div 2, base), s \div 2)>>
  IN half[b.size]
UpperHalvesUnlinked(b, sz, base) == <<>>

(* split halves block b until it has size sz; these are the upper halves, as
   they follow b in the list when it is done. *)
UpperHalves(b, sz, base) ==
  LET half[s \in Nat] ==
        IF s <= sz THEN <<>>
        ELSE half[s \div 2] \o <<Block(Buddy(b.addr, s \div 2, base), s \div 2)>>
  IN half[b.size]

(* Mutant: the count goes on to the last page. *)
CountPoolsToLast(len) ==
  LET more[l \in Nat] ==
        LET rest == l - prev_pow2[l]
        IN 1 + (IF rest >= 1 THEN more[rest] ELSE 0)
  IN IF len < 1 THEN 0 ELSE more[len]

(* The first loop of page_alloc_init counts the pools of an entry, *)
CountPools(len) ==
  LET more[l \in Nat] ==
        LET rest == l - prev_pow2[l]
        IN 1 + (IF rest - prev_pow2[rest] >= 1 THEN more[rest] ELSE 0)
  IN IF len < 1 THEN 0 ELSE more[len]

(* the second one makes them, from the largest power of two down; *)
PoolSizes(len) ==
  LET more[l \in Nat] ==
        LET rest == l - prev_pow2[l]
        IN <<prev_pow2[l]>> \o (IF rest - prev_pow2[rest] >= 1 THEN more[rest] ELSE <<>>)
  IN IF len < 1 THEN <<>> ELSE more[len]

(* premap_anon maps them one after the other. *)
Pool(base, size) == [base |-> base, end |-> base + size, free |-> <<Block(base, size)>>]
AddPool(ps, size) == Append(ps, Pool(IF ps = <<>> THEN 0 ELSE ps[Len(ps)].end, size))
MakePools(sizes) ==
  LET made[k \in 0..Len(sizes)] == IF k = 0 THEN <<>> ELSE AddPool(made[k - 1], sizes[k])
  IN made[Len(sizes)]

(* Both loops go over the entries of the memory map. *)
AllCounted(lens) ==
  LET upto[k \in 0..Len(lens)] == IF k = 0 THEN 0 ELSE upto[k - 1] + CountPools(lens[k])
  IN upto[Len(lens)]
AllSizes(lens) ==
  LET upto[k \in 0..Len(lens)] == IF k = 0 THEN <<>> ELSE upto[k - 1] \o PoolSizes(lens[k])
  IN upto[Len(lens)]

Init ==
  /\ memmap \in Memmaps
  /\ n_pools = 0 /\ pools = <<>> /\ held = {} /\ last = NoBlock
  /\ status = "init"

PageAllocInit ==
  /\ status = "init"
  /\ n_pools' = AllCounted(memmap.lens)
  /\ pools' = MakePools(AllSizes(memmap.lens))
  /\ status' = IF n_pools' = 0 THEN "no_pools" ELSE "ok"
  /\ UNCHANGED <<memmap, held, last>>

-----------------------------------------------------------------------------
Least(S) == CHOOSE x \in S : \A y \in S : x <= y

(* Walks stop at the sentinel: a block that lies at the end is not seen. *)
Upto(fl, end) == SubSeq(fl, 1, Least({k \in DOMAIN fl : fl[k].addr >= end} \cup {Len(fl) + 1}) - 1)
SetFree(i, fl) == pools' = [pools EXCEPT ![i].free = Upto(fl, pools[i].end)]

Fits(i, sz) == {k \in DOMAIN pools[i].free : pools[i].free[k].size >= sz}
FirstPool(sz) == {i \in DOMAIN pools : Fits(i, sz) # {} /\ \A j \in 1..(i - 1) : Fits(j, sz) = {}}

(* page_alloc: the first block that is large enough, split down to size. *)
PageAlloc(req) ==
  LET sz == RoundUp(req) IN
  /\ status = "ok"
  /\ \E i \in FirstPool(sz) :
       LET fl == pools[i].free
           k == Least(Fits(i, sz))
           rest == UpperHalves(fl[k], sz, pools[i].base)
       IN /\ fl[k].size % sz = 0 /\ IsPow2(fl[k].size \div sz)
          /\ SetFree(i, SubSeq(fl, 1, k - 1) \o rest \o SubSeq(fl, k + 1, Len(fl)))
          /\ held' = held \cup {Block(fl[k].addr, sz)}
  /\ UNCHANGED <<memmap, n_pools, status, last>>

(* Halving a size that is not sz times a power of two steps over sz and split
   never ends. *)
SplitHangs(req) ==
  LET sz == RoundUp(req) IN
  /\ status = "ok"
  /\ \E i \in FirstPool(sz) :
       LET b == pools[i].free[Least(Fits(i, sz))]
       IN ~(b.size % sz = 0 /\ IsPow2(b.size \div sz))
  /\ status' = "hang"
  /\ UNCHANGED <<memmap, n_pools, pools, held, last>>

(* panic: Out of memory. *)
OutOfMemory(req) ==
  /\ status = "ok"
  /\ FirstPool(RoundUp(req)) = {}
  /\ status' = "oom"
  /\ UNCHANGED <<memmap, n_pools, pools, held, last>>

-----------------------------------------------------------------------------
FreeBlocks == UNION {Range(pools[i].free) : i \in DOMAIN pools}
Blocks == FreeBlocks \cup held
Pages(b) == b.addr..(b.addr + b.size - 1)

(* page_free looks for the first pool that has the page between base and end,
   end included. *)
PoolOf(page) == {i \in DOMAIN pools : pools[i].base <= page /\ page <= pools[i].end}

(* Its walk stops at the first block that is the buddy or lies beyond the
   page, or at the sentinel, the position after the last. *)
Stop(fl, page, buddy) ==
  Least({k \in DOMAIN fl : fl[k].addr = buddy \/ fl[k].addr > page} \cup {Len(fl) + 1})

(* What the walk finds decides: merge with the buddy, insert the page, or, at
   the sentinel, read a header there or write through prev.  The walk does not
   move prev from NULL: a merged block becomes the first of the list, whatever
   was before it, and so does a page that is inserted.  When the sizes differ,
   the merged block may take in pages that are part of another: from there on
   callers write over headers, and the model ends. *)
FreeInto(i, page, sz) ==
  LET fl == pools[i].free
      end == pools[i].end
      buddy == Buddy(page, sz, pools[i].base)
      k == Stop(fl, page, buddy)
      at == IF k <= Len(fl) THEN fl[k].addr ELSE end
      merged == Block(IF at < page THEN at ELSE page, fl[k].size + sz)
  IN \/ /\ at = buddy /\ k <= Len(fl)
        /\ SetFree(i, <<merged>> \o SubSeq(fl, k + 1, Len(fl)))
        /\ status' = IF \E c \in Blocks' \ {merged} : Pages(c) \cap Pages(merged) # {}
                     THEN "overlap" ELSE status
     \/ /\ at # buddy /\ at > page
        /\ SetFree(i, <<Block(page, sz)>> \o fl)
        /\ UNCHANGED status
     \/ /\ at = buddy /\ k > Len(fl)
        /\ status' = "wild_header" /\ UNCHANGED pools
     \/ /\ at # buddy /\ at = page
        /\ status' = "null_write" /\ UNCHANGED pools

(* A page in no pool would reach unreachable: see ListsSound. *)
PageFree(b) ==
  /\ status = "ok" /\ b \in held /\ b.size \in memmap.frees
  /\ PoolOf(b.addr) # {}
  /\ held' = held \ {b}
  /\ FreeInto(Least(PoolOf(b.addr)), b.addr, b.size)
  /\ last' = b
  /\ UNCHANGED <<memmap, n_pools>>

Next ==
  \/ PageAllocInit
  \/ \E sz \in AllocSizes : PageAlloc(sz) \/ SplitHangs(sz) \/ OutOfMemory(sz)
  \/ \E b \in held : PageFree(b)

Spec == Init /\ [][Next]_vars

-----------------------------------------------------------------------------
Covered == UNION {Pages(b) : b \in Blocks}
BoundaryPages == {pools[i].base : i \in 2..Len(pools)}
OnlyPagesFreed == memmap.frees = {1}

(* page_alloc_init fills exactly the array it allocated: the loop that counts
   the pools and the loop that makes them agree on every memory map. *)
PoolArrayExact == status # "init" => Len(pools) = n_pools

(* As long as single pages are freed, as in this kernel, no page is handed out
   twice or while it is free, and what get_buddy relies on holds: the size of
   every block is a power of two, and its offset in its pool a multiple of it. *)
BuddyBlocks ==
  OnlyPagesFreed =>
    /\ FreeBlocks \cap held = {}
    /\ \A b, c \in Blocks : b # c => Pages(b) \cap Pages(c) = {}
    /\ \A b \in Blocks : /\ IsPow2(b.size)
                         /\ \E i \in DOMAIN pools : /\ pools[i].base <= b.addr
                                                    /\ b.addr + b.size <= pools[i].end
                                                    /\ (b.addr - pools[i].base) % b.size = 0

(* Then page_free faults on the first page of a pool, which it takes for the end
   of the pool before it, always there, and nowhere else. *)
FaultsOnlyAtBoundary ==
  OnlyPagesFreed =>
    /\ status = "null_write" <=> last.addr \in BoundaryPages
    /\ status \notin {"wild_header", "overlap"}

(* Then memory is lost in two ways only, whatever was split and merged before:
   page_free faults, or merges the page with a buddy that is not the first of
   its list, and forgets what is listed before it. *)
LostOnlyBeforeBuddy ==
  [][OnlyPagesFreed =>
       \A page \in Covered \ Covered' :
         \/ status' = "null_write" /\ page = last'.addr
         \/ \E i \in DOMAIN pools : \E k \in DOMAIN pools[i].free :
              /\ pools[i].free[k] = Block(Buddy(last'.addr, 1, pools[i].base), 1)
              /\ \E j \in 1..(k - 1) : page \in Pages(pools[i].free[j])]_vars

(* Whatever sizes are freed, no address is on the free lists twice, so that the
   links in the blocks form no cycle and the walks end, and a block that was
   handed out lies in some pool, so that the unreachable statement of page_free
   is. *)
ListsSound ==
  status = "ok" =>
    /\ \A i, j \in DOMAIN pools : \A k \in DOMAIN pools[i].free, l \in DOMAIN pools[j].free :
         pools[i].free[k].addr = pools[j].free[l].addr => i = j /\ k = l
    /\ \A b \in held : PoolOf(b.addr) # {}

(* split fails to end only on a block that a merge has made odd. *)
HangsOnlyOnOddBlock == status = "hang" => \E b \in FreeBlocks : ~IsPow2(b.size)
=============================================================================
