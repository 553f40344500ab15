---------------------------- MODULE MCPageAlloc ----------------------------
(***************************************************************************)
(* Maps of up to two entries of up to 7 pages.  As the kernel calls it,    *)
(* page_free releases single pages (addrspace_free); the loop over         *)
(* segments in syscall_exit would release blocks of any size.  A 1-page    *)
(* entry makes a 1-page pool, where releasing the page releases the whole  *)
(* pool: those are with the latter.                                        *)
(***************************************************************************)
EXTENDS PageAlloc

PageMaps == UNION {[1..k -> {0, 2, 3, 4, 7}] : k \in 1..2}
MixedMaps == {<<1>>, <<2>>, <<4>>, <<1, 1>>, <<1, 2>>, <<2, 2>>, <<1, 4>>}

UpToFour == {1, 2, 3, 4}
MCMemmaps == [lens : PageMaps, frees : {{1}}] \cup [lens : MixedMaps, frees : {UpToFour}]
=============================================================================
