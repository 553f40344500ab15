------------------------------ MODULE VirtMap ------------------------------
(***************************************************************************)
(* The kernel's own page tables (arch/x86_64/paging.c) with the miniheap   *)
(* that the first tables come from.  Virtual addresses count from the      *)
(* start of the kernel image, physical ones from 0.  A page holds PAGE     *)
(* units, a table RADIX entries; below the root there are three levels.    *)
(* Of an entry only the frame is kept, NONE when it is not present; a      *)
(* table is known by its level and the part of the range it covers.        *)
(* A map is a record; a loop over pages is a set of pages.                  *)
(***************************************************************************)
EXTENDS Integers, Sequences, FiniteSets, SequencesExt

CONSTANTS
  PAGE,       \* PAGE_SIZE
  RADIX,      \* entries of a table, 512
  VPAGES,     \* bound: pages of virtual addresses
  MINIHEAP,   \* pages between miniheap_start and miniheap_end
  NONE        \* not present

ASSUME VirtMapAssumption ==
  /\ PAGE \in Nat \ {0} /\ RADIX \in Nat \ {0, 1}
  /\ VPAGES \in 1..(RADIX * RADIX * RADIX)
  /\ MINIHEAP \in Nat /\ NONE \notin Nat

(* round_up_page, and the pages of len bytes that start a page. *)
PagesOf(len) == (len + PAGE - 1) \div PAGE
round_up_page(a) == PAGE * PagesOf(a)
PageOf(a) == a \div PAGE

(* The tables that a walk to page v goes through: pdpt, pd and pt. *)
Path(v) == {<<1, v \div RADIX>>, <<2, v \div (RADIX * RADIX)>>,
            <<3, v \div (RADIX * RADIX * RADIX)>>}
Tables == UNION {Path(v) : v \in 0..(VPAGES - 1)}

(* cell0: the first entry of the physmap lands in its cell 0. *)
EmptyMap(cell0) ==
  [pte |-> [v \in 0..(VPAGES - 1) |-> NONE], tab |-> [t \in Tables |-> "none"],
   brk |-> 0, end_pos |-> 0, cell0 |-> cell0, status |-> "ok"]

Halt(m, why) == [m EXCEPT !.status = why]
Foreign(m) == {t \in Tables : m.tab[t] = "page"}

(* miniheap_alloc(n pages): panics, with its lock, beyond the end. *)
miniheap_alloc(m, n) ==
  IF m.status # "ok" THEN m
  ELSE IF m.brk + n > MINIHEAP THEN Halt(m, "no_miniheap") ELSE [m EXCEPT !.brk = @ + n]

(* The pages that the loop of premap_pages and map_pages goes through: it ends
   at the end of dst or of src, each rounded up, whichever comes first. *)
Rounds(dst, src, len) ==
  LET left(a) == PagesOf(round_up_page(a + len) - a)
  IN IF left(dst) < left(src) THEN left(dst) ELSE left(src)
Dest(dst, src, len) == PageOf(dst)..(PageOf(dst) + Rounds(dst, src, len) - 1)

(* The entries of pages vs become frames from f on, and the tables that were
   missing on the way come from origin. *)
Missing(m, vs) == {t \in UNION {Path(v) : v \in vs} : m.tab[t] = "none"}
Entered(m, vs, f, origin) ==
  [m EXCEPT !.pte = [v \in DOMAIN @ |-> IF v \in vs THEN f[v] ELSE @[v]],
            !.tab = [t \in Tables |-> IF t \in Missing(m, vs) THEN origin ELSE @[t]]]
Frames(vs, dst, src) == [v \in vs |-> PageOf(src) + v - PageOf(dst)]

(* The loop of premap_pages: tables come from the miniheap, and the walk takes
   every table for a part of the kernel image (PHYSK2VK). *)
Premapped(m, vs, f) ==
  IF m.status # "ok" THEN m
  ELSE IF \E v \in vs : Path(v) \cap Foreign(m) # {} THEN Halt(m, "wild")
  ELSE LET r == miniheap_alloc(m, Cardinality(Missing(m, vs)))
       IN IF r.status = "ok" THEN Entered(r, vs, f, "mini") ELSE r
premap_pages(m, dst, src, len) ==
  LET vs == Dest(dst, src, len) IN Premapped(m, vs, Frames(vs, dst, src))

(* The loop of map_pages in kspace: tables come from tab_new, and tab_get finds
   them in the physmap, or else takes them for a part of the image as well.
   map_get overlooks an only entry that is in cell 0. *)
map_pages(m, dst, src, len) ==
  LET vs == Dest(dst, src, len)
  IN IF m.status # "ok" THEN m
     ELSE IF m.cell0 /\ Missing(m, vs) # {} /\ Foreign(m) = {} THEN Halt(m, "wild")
     ELSE Entered(m, vs, Frames(vs, dst, src), "page")

(* unmap_pages maps virt to frame 0 with no flags, in the tables of kpml4. *)
unmap_pages(m, virt, len) ==
  LET vs == Dest(virt, 0, len) IN Premapped(m, vs, [v \in vs |-> NONE])

(* Mutant: end_pos is not rounded up. *)
AdvanceUnrounded(m, len) == [m EXCEPT !.end_pos = @ + len]

(* premap_anon and map_anon map from end_pos, len bytes from the start of the
   first page on, and move end_pos up; the window they return starts at the
   offset of phys in its page. *)
Advance(m, len) == [m EXCEPT !.end_pos = round_up_page(@ + len)]
Window(m, phys, len) == [virt |-> m.end_pos + (phys % PAGE), phys |-> phys, len |-> len]
premap_anon(m, phys, len) == Advance(premap_pages(m, m.end_pos, PAGE * PageOf(phys), len), len)
map_anon(m, phys, len) == Advance(map_pages(m, m.end_pos, PAGE * PageOf(phys), len), len)

(* What the processor reads at virtual address a. *)
Translate(m, a) ==
  IF m.pte[PageOf(a)] = NONE THEN NONE ELSE PAGE * m.pte[PageOf(a)] + (a % PAGE)

(* The part of a window that map_anon has mapped: an unaligned window that
   reaches into one page more than its length needs lacks that page. *)
Reach(w) == {j \in 0..(w.len - 1) : (w.phys % PAGE) + j < round_up_page(w.len)}
=============================================================================
