------------------------------ MODULE AddrSpace ------------------------------
(***************************************************************************)
(* Address spaces of processes: made by proc_pages_init on the bootstrap   *)
(* CPU, loaded by ctx_switch through flush_pages, freed by syscall_exit    *)
(* (paging.c, ctx.c, syscall.c).  kvirt2phys walks the kernel's tables     *)
(* through one page, page_tmp, that all CPUs map anew at each level: its   *)
(* entry is in the shared tables, and each CPU has its own TLB.            *)
(* The scheduler is abstract here: a process stays with the CPU that       *)
(* schedule gave it to, and any that waits there may be next.              *)
(***************************************************************************)
EXTENDS Integers, FiniteSets

CONSTANTS
  CPUS,
  BSP,        \* the CPU that runs kmain
  NPROC,      \* processes that kmain makes
  PtOf,       \* the last table on the way to the root of each process
  NONE

Pids == 1..NPROC

ASSUME AddrSpaceAssumption ==
  /\ BSP \in CPUS /\ NPROC \in Nat \ {0} /\ NONE \notin Pids
  /\ DOMAIN PtOf = Pids

VARIABLES
  doing,      \* what a CPU does
  runs,       \* its proc_current, NONE for kproc and NULL
  cr3,        \* the process whose root it has loaded, NONE for kpml4
  walk,       \* kvirt2phys: level, step, whether the address is right so far,
              \* and whether another CPU mapped page_tmp in between
  tmp,        \* the entry of page_tmp
  tlb,        \* what a CPU's TLB holds for it
  home,       \* the CPU whose run queue a process is for
  waiting,    \* processes in the run queues
  made,       \* processes made
  held        \* the pages a process has from page_alloc

spaceVars == <<doing, runs, cr3, walk, tmp, tlb, home, waiting, made, held>>

(* The pages of a process: root, tables for the code and the stack (they share
   the pdpt), and the stack. *)
Tables == {"pdpt", "code_pd", "code_pt", "stack_pd", "stack_pt"}
Pages == {"root", "stack"} \cup Tables

(* The tables that a walk to the root of p goes through; entry 511 of every
   root, which the walk starts from, is that of kpml4. *)
PathTo(p) == <<"pdpt", "pd", PtOf[p]>>

NoWalk == [lvl |-> 1, right |-> TRUE, crossed |-> FALSE]

SpaceInit ==
  /\ doing = [c \in CPUS |-> IF c = BSP THEN "kmain" ELSE "idle"]
  /\ runs = [c \in CPUS |-> NONE] /\ cr3 = [c \in CPUS |-> NONE]
  /\ walk = [c \in CPUS |-> NoWalk]
  /\ tmp = NONE /\ tlb = [c \in CPUS |-> NONE]
  /\ home = [p \in Pids |-> NONE] /\ waiting = {} /\ made = 0 /\ held = [p \in Pids |-> {}]

-----------------------------------------------------------------------------
(* proc_new: proc_pages_init takes pages for the root, for each table that an
   entry lacks and for the stack, and finds the tables again by the physmap.
   It panics when the first of them is in cell 0 of the physmap, or when a
   page from page_alloc, which nobody clears, has an entry that looks present.
   Other CPUs do not use page_tmp before sched_ready. *)
proc_new ==
  /\ doing[BSP] = "kmain" /\ made < NPROC
  /\ \/ /\ made' = made + 1
        /\ held' = [held EXCEPT ![made + 1] = Pages]
        /\ \E c \in CPUS : home' = [home EXCEPT ![made + 1] = c]
        /\ waiting' = waiting \cup {made + 1}
        /\ tmp' = PtOf[made + 1] /\ tlb' = [tlb EXCEPT ![BSP] = PtOf[made + 1]]
        /\ UNCHANGED doing
     \/ /\ doing' = [doing EXCEPT ![BSP] = "stopped"]
        /\ UNCHANGED <<made, held, home, waiting, tmp, tlb>>
  /\ UNCHANGED <<runs, cr3, walk>>

(* sched_begin sets sched_ready; until then ticks only return. *)
KmainDone ==
  /\ doing[BSP] = "kmain" /\ made = NPROC
  /\ doing' = [doing EXCEPT ![BSP] = "idle"]
  /\ UNCHANGED <<runs, cr3, walk, tmp, tlb, waiting, home, made, held>>
Begun == made = NPROC /\ doing[BSP] # "kmain"

(* A tick calls ctx_switch; so does syscall_exit, with proc_current NULL. *)
SwitchDue(c) ==
  /\ doing[c] \in {"idle", "user"} /\ Begun
  /\ doing' = [doing EXCEPT ![c] = "next"]
  /\ UNCHANGED <<runs, cr3, walk, tmp, tlb, waiting, home, made, held>>

(* Mutant: a process of any CPU's queue. *)
ChoiceOfAll(c) == waiting \cup ({runs[c]} \ {NONE})

(* proc_next may choose the process again that was running. *)
Choice(c) == {p \in waiting : home[p] = c} \cup ({runs[c]} \ {NONE})
Activate(c) ==
  \E p \in Choice(c) :
    /\ runs' = [runs EXCEPT ![c] = p]
    /\ waiting' = (waiting \cup Choice(c)) \ {p}
    /\ walk' = [walk EXCEPT ![c] = NoWalk]
    /\ doing' = [doing EXCEPT ![c] = "write"]

(* Mutant: it waits for a process. *)
proc_next_waits(c) ==
  /\ doing[c] = "next" /\ Activate(c)
  /\ UNCHANGED <<cr3, tmp, tlb, home, made, held>>

(* It panics when there is none. *)
proc_next(c) ==
  /\ doing[c] = "next"
  /\ IF Choice(c) # {} THEN Activate(c)
     ELSE doing' = [doing EXCEPT ![c] = "stopped"] /\ UNCHANGED <<runs, walk, waiting>>
  /\ UNCHANGED <<cr3, tmp, tlb, home, made, held>>

-----------------------------------------------------------------------------
(* flush_pages: kvirt2phys maps the next table, or some other page when what it
   read before was not the address of one; the others that are between writing
   the entry and reading through it have been crossed. *)
map_page_tmp(c) ==
  /\ doing[c] = "write"
  /\ tmp' = IF walk[c].right THEN PathTo(runs[c])[walk[c].lvl] ELSE "other"
  /\ walk' = [d \in CPUS |-> IF d # c /\ doing[d] \in {"invlpg", "read"}
                             THEN [walk[d] EXCEPT !.crossed = TRUE] ELSE walk[d]]
  /\ doing' = [doing EXCEPT ![c] = "invlpg"]
  /\ UNCHANGED <<runs, cr3, tlb, waiting, home, made, held>>

(* Mutant: the old translation stays. *)
invlpg_omitted(c) ==
  /\ doing[c] = "invlpg"
  /\ doing' = [doing EXCEPT ![c] = "read"]
  /\ UNCHANGED <<runs, cr3, walk, tmp, tlb, waiting, home, made, held>>

(* invlpg concerns this CPU's TLB only. *)
invlpg(c) ==
  /\ doing[c] = "invlpg"
  /\ tlb' = [tlb EXCEPT ![c] = NONE]
  /\ doing' = [doing EXCEPT ![c] = "read"]
  /\ UNCHANGED <<runs, cr3, walk, tmp, waiting, home, made, held>>

(* A CPU may load a translation at any time. *)
TlbFill(c) ==
  /\ tlb[c] = NONE /\ tmp # NONE
  /\ tlb' = [tlb EXCEPT ![c] = tmp]
  /\ UNCHANGED <<doing, runs, cr3, walk, tmp, waiting, home, made, held>>

(* The entry is read in whatever table page_tmp is; what another table has there
   may look absent, which the assertions at the first two levels catch. *)
ReadEntry(c) ==
  LET w == walk[c]
      right == w.right /\ tlb[c] = PathTo(runs[c])[w.lvl]
  IN /\ doing[c] = "read" /\ tlb[c] # NONE
     /\ walk' = [walk EXCEPT ![c].right = right, ![c].lvl = IF w.lvl = 3 THEN 3 ELSE w.lvl + 1]
     /\ \/ doing' = [doing EXCEPT ![c] = IF w.lvl = 3 THEN "load" ELSE "write"]
        \/ ~right /\ w.lvl < 3 /\ doing' = [doing EXCEPT ![c] = "stopped"]
     /\ UNCHANGED <<runs, cr3, tmp, tlb, waiting, home, made, held>>

(* The address goes into CR3, which empties the TLB, and return_user_ follows; a
   wrong one leaves the CPU without its kernel. *)
LoadCr3(c) ==
  /\ doing[c] = "load"
  /\ cr3' = [cr3 EXCEPT ![c] = IF walk[c].right THEN runs[c] ELSE NONE]
  /\ tlb' = [tlb EXCEPT ![c] = NONE]
  /\ doing' = [doing EXCEPT ![c] = IF walk[c].right THEN "user" ELSE "lost"]
  /\ UNCHANGED <<runs, walk, tmp, waiting, home, made, held>>

-----------------------------------------------------------------------------
(* syscall_exit: unschedule takes the process out of the queues; segs->n was
   never set, so that no segment is freed; addrspace_free frees the root that
   CR3 still names. *)
SegsFreed == {}
exit_free(c) ==
  /\ doing[c] = "user"
  /\ held' = [held EXCEPT ![runs[c]] = (@ \ {"root"}) \ SegsFreed]
  /\ doing' = [doing EXCEPT ![c] = "exit"]
  /\ UNCHANGED <<runs, cr3, walk, tmp, tlb, waiting, home, made>>

(* It frees the physmap and the space, and deletes the process. *)
exit_done(c) ==
  /\ doing[c] = "exit"
  /\ runs' = [runs EXCEPT ![c] = NONE]
  /\ doing' = [doing EXCEPT ![c] = "next"]
  /\ UNCHANGED <<cr3, walk, tmp, tlb, waiting, home, made, held>>

CpuStep(c) ==
  \/ proc_next(c)
  \/ map_page_tmp(c) \/ invlpg(c) \/ TlbFill(c) \/ ReadEntry(c) \/ LoadCr3(c)
  \/ exit_done(c)
SpaceNext ==
  \/ proc_new \/ KmainDone
  \/ \E c \in CPUS : SwitchDue(c) \/ exit_free(c) \/ CpuStep(c)

SpaceSpec == SpaceInit /\ [][SpaceNext]_spaceVars /\ \A c \in CPUS : WF_spaceVars(CpuStep(c))

-----------------------------------------------------------------------------
(* kvirt2phys goes wrong, and so CR3 or an assertion, only when another CPU has
   mapped page_tmp between this CPU's write of the entry and its read: on its
   own every walk is right, whatever the TLB held and was filled with, and so
   are walks that overlap but do not cross. *)
WrongOnlyIfCrossed ==
  \A c \in CPUS :
    (doing[c] = "lost" \/ ~walk[c].right) => walk[c].crossed

(* A process runs on one CPU at a time, with its own root in CR3 and all of its
   pages held; a root that exit has freed is in CR3 of no CPU but the one that
   exits, until that CPU switches or stops.  For that no process may ever move
   to another CPU while CR3 of its last one has not been loaded again. *)
RunsInOwnSpace ==
  \A c \in CPUS :
    /\ doing[c] = "user" => /\ cr3[c] = runs[c] /\ held[runs[c]] = Pages
                            /\ \A d \in CPUS \ {c} : runs[d] # runs[c]
    /\ cr3[c] # NONE /\ "root" \notin held[cr3[c]] =>
         /\ doing[c] # "user"
         /\ \A d \in CPUS \ {c} : cr3[d] # cr3[c]

(* A switch ends: the CPU comes back to a user process, or it has stopped on an
   assertion, for want of a process, or with a wrong CR3. *)
SwitchEnds ==
  \A c \in CPUS : doing[c] = "next" ~> doing[c] \in {"user", "stopped", "lost"}
=============================================================================
