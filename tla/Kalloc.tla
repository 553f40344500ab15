------------------------------- MODULE Kalloc -------------------------------
(***************************************************************************)
(* The heap of kernel/kalloc.c.  The unit is ALLOC_ALIGN = HDRSIZE = 16    *)
(* bytes: a header takes one unit, sizes are those of the data after it    *)
(* and are already rounded up.  Every CPU has a free list of its own and   *)
(* runs one heap operation at a time; nothing but the pages of page_alloc  *)
(* is shared, so an operation is one step.  A block may be freed on a CPU  *)
(* other than the one that allocated it.                                   *)
(***************************************************************************)
EXTENDS Integers, Sequences, FiniteSets, Functions

CONSTANTS
  Cpus,
  PAGE,       \* PAGE_SIZE in units, a power of two
  NPAGES,     \* pages that page_alloc has to give
  Sizes,      \* sizes that kalloc is called with
  Resizes     \* <<old, new>>: the sizes krealloc changes to which

ASSUME KallocAssumption ==
  /\ PAGE \in Nat \ {0}
  /\ NPAGES \in Nat
  /\ Sizes \subseteq Nat
  /\ Resizes \subseteq Sizes \X Sizes

VARIABLES
  list,       \* list[c]: the blocks from states[c].start through next
  held,       \* the blocks the callers have
  freed,      \* addresses the callers had and gave back
  canaries,   \* the headers whose canary word is right
  regions,    \* <<address, page_blk_size>> of what page_alloc gave
  pages,      \* the pages page_alloc has left
  status      \* "ok", or what stopped the kernel

vars == <<list, held, freed, canaries, regions, pages, status>>

HDR == 1
Block(a, s) == [addr |-> a, size |-> s]
End(b) == b.addr + HDR + b.size

Init ==
  /\ list = [c \in Cpus |-> <<>>]
  /\ held = {} /\ freed = {} /\ canaries = {} /\ regions = {}
  /\ pages = 0..(NPAGES - 1)
  /\ status = "ok"

-----------------------------------------------------------------------------
Least(S) == CHOOSE x \in S : \A y \in S : x <= y

(* Mutants of the merge: the header is counted twice, or not at all. *)
AbsorbTwice(b, next) == Block(b.addr, b.size + next.size + 2 * HDR)
AbsorbDataOnly(b, next) == Block(b.addr, b.size + next.size)

(* insert_block: the head is never compared; behind it, new goes before the
   first block that does not lie above it.  Then new is merged with the block
   before it in the list, and the result with the one after it. *)
Absorb(b, next) == Block(b.addr, b.size + next.size + HDR)
Stop(l, new) == Least({k \in 2..Len(l) : ~(new.addr < l[k].addr)} \cup {Len(l) + 1})
InsertBlock(l, new) ==
  IF l = <<>> THEN <<new>>
  ELSE LET k == Stop(l, new)
           below == End(l[k - 1]) = new.addr
           b == IF below THEN Absorb(l[k - 1], new) ELSE new
           above == k <= Len(l) /\ End(b) = l[k].addr
           m == IF above THEN Absorb(b, l[k]) ELSE b
       IN SubSeq(l, 1, IF below THEN k - 2 ELSE k - 1) \o <<m>>
            \o SubSeq(l, IF above THEN k + 1 ELSE k, Len(l))

(* Mutant: the header of the rest is forgotten. *)
FitsExactly(l, size) == {k \in DOMAIN l : l[k].size >= size}

(* kalloc splits the first block that has room for another header, *)
Fits(l, size) == {k \in DOMAIN l : l[k].size >= size + HDR}
Split(l, size) ==
  LET k == Least(Fits(l, size))
  IN [got |-> Block(l[k].addr, size),
      list |-> [l EXCEPT ![k] = Block(@.addr + HDR + size, @.size - size - HDR)],
      region |-> {}, pages |-> {}]

(* or asks page_alloc, which has any run of free pages to give; the rest of
   page_blk_size becomes a free block, and the rest of a page is not used. *)
next_pow2[x \in Nat] == IF x < 2 THEN x ELSE 2 * next_pow2[(x + 1) \div 2]
FromPages(l, size) ==
  LET blk == next_pow2[size + 2 * HDR]
      count == (blk + PAGE - 1) \div PAGE
      run(p) == p..(p + count - 1)
  IN {[got |-> Block(p * PAGE, size),
       list |-> InsertBlock(l, Block(p * PAGE + HDR + size, blk - size - 2 * HDR)),
       region |-> {<<p * PAGE, blk>>}, pages |-> run(p)]
       : p \in {q \in pages : q % count = 0 /\ run(q) \subseteq pages}}

Outcomes(l, size) == IF Fits(l, size) # {} THEN {Split(l, size)} ELSE FromPages(l, size)

Took(o) == regions' = regions \cup o.region /\ pages' = pages \ o.pages

(* Mutant: the canary of the new block is not written. *)
kallocNoCanary(c, size) ==
  /\ status = "ok"
  /\ \E o \in Outcomes(list[c], size) :
       /\ list' = [list EXCEPT ![c] = o.list]
       /\ held' = held \cup {o.got}
       /\ freed' = freed \ {o.got.addr}
       /\ Took(o)
  /\ UNCHANGED <<canaries, status>>

kalloc(c, size) ==
  /\ status = "ok"
  /\ \E o \in Outcomes(list[c], size) :
       /\ list' = [list EXCEPT ![c] = o.list]
       /\ held' = held \cup {o.got}
       /\ freed' = freed \ {o.got.addr}
       /\ canaries' = canaries \cup {o.got.addr}
       /\ Took(o)
  /\ UNCHANGED status

(* page_alloc panics: Out of memory. *)
OutOfMemory(c, size) ==
  /\ status = "ok" /\ Outcomes(list[c], size) = {}
  /\ status' = "oom"
  /\ UNCHANGED <<list, held, freed, canaries, regions, pages>>

(* kfree of a block: insert_block puts next where the canary was. *)
kfree(c, b) ==
  /\ status = "ok" /\ b \in held /\ b.addr \in canaries
  /\ list' = [list EXCEPT ![c] = InsertBlock(@, b)]
  /\ held' = held \ {b}
  /\ freed' = freed \cup {b.addr}
  /\ canaries' = canaries \ {b.addr}
  /\ UNCHANGED <<regions, pages, status>>

(* kfree of a block that was freed before: panic, Heap overflow detected. *)
kfreeAgain(a) ==
  /\ status = "ok" /\ a \in freed /\ a \notin canaries
  /\ status' = "heap_overflow"
  /\ UNCHANGED <<list, held, freed, canaries, regions, pages>>

(* krealloc: kalloc, memcpy of all of the old block's data, kfree.  When the
   new block is smaller the copy runs over the headers behind it. *)
Overrun(old, got) == End(got)..(got.addr + HDR + old.size - 1)
krealloc(c, old, size) ==
  /\ status = "ok" /\ old \in held /\ <<old.size, size>> \in Resizes
  /\ \E o \in Outcomes(list[c], size) :
       LET lost == Overrun(old, o.got)
           free == {o.list[k].addr : k \in DOMAIN o.list}
       IN /\ list' = [list EXCEPT ![c] = InsertBlock(o.list, old)]
          /\ held' = (held \ {old}) \cup {o.got}
          /\ freed' = (freed \ {o.got.addr}) \cup {old.addr}
          /\ canaries' = ((canaries \cup {o.got.addr}) \ lost) \ {old.addr}
          /\ Took(o)
          /\ status' = IF lost \cap free # {} THEN "overrun" ELSE "ok"

Next ==
  \/ \E c \in Cpus, size \in Sizes : kalloc(c, size) \/ OutOfMemory(c, size)
  \/ \E c \in Cpus, b \in held : kfree(c, b)
  \/ \E a \in freed : kfreeAgain(a)
  \/ \E c \in Cpus, b \in held, size \in Sizes : krealloc(c, b, size)

Spec == Init /\ [][Next]_vars

-----------------------------------------------------------------------------
Free == UNION {Range(list[c]) : c \in Cpus}
Blocks == Free \cup held
Span(b) == b.addr..(End(b) - 1)
BlockType == [addr : Nat, size : Nat]

TypeOK ==
  /\ list \in [Cpus -> Seq(BlockType)]
  /\ held \subseteq BlockType
  /\ freed \subseteq Nat /\ canaries \subseteq Nat
  /\ regions \subseteq Nat \X Nat
  /\ pages \subseteq 0..(NPAGES - 1)
  /\ status \in {"ok", "oom", "heap_overflow", "overrun"}

(* Blocks are disjoint, headers included: no two callers share memory, nothing
   a caller holds is in a free list, no block is in the lists of two CPUs. *)
BlocksDisjoint ==
  /\ Free \cap held = {}
  /\ \A c, d \in Cpus : c # d => Range(list[c]) \cap Range(list[d]) = {}
  /\ \A b, e \in Blocks : b # e => Span(b) \cap Span(e) = {}

(* The heap loses nothing: what page_alloc gave, up to page_blk_size, is tiled
   by the blocks that are free or held, through any splitting and merging. *)
HeapTiled ==
  UNION {Span(b) : b \in Blocks} = UNION {r[1]..(r[1] + r[2] - 1) : r \in regions}

(* kfree can tell: exactly the blocks that are held have a right canary, so a
   second kfree of one panics, wherever its memory has gone meanwhile. *)
CanariesMarkHeld == status # "overrun" => canaries = {b.addr : b \in held}
=============================================================================
