------------------------------- MODULE MpBoot -------------------------------
(***************************************************************************)
(* Bringing up the CPUs (arch/x86_64/mp.c) until user processes run: the   *)
(* bootstrap processor (BSP, CPU 0) wakes the application processors (APs) *)
(* and waits until cpus_ready counts them all; then it sets sched_ready,   *)
(* from when on a timer tick abandons whatever the kernel was doing on     *)
(* that CPU and switches to a process.  printf is in the model because its *)
(* lock is the one thing a CPU can hold with interrupts enabled.           *)
(***************************************************************************)
EXTENDS Integers, FiniteSets

CONSTANT NCPUS        \* ncpus

ASSUME NCpusAssumption == NCPUS \in Nat \ {0}

Cpus == 0..(NCPUS - 1)
APs == 1..(NCPUS - 1)

VARIABLES
  at,           \* where each CPU is
  woken,        \* CPUs 0 .. woken-1 have had their goto_address stored
  cpus_ready,
  loaded,       \* loaded[c]: the register of c between load and store of ++
  sched_ready,
  printf_lock,
  cut           \* CPUs a tick took out of printf while they held its lock

mpVars == <<at, woken, cpus_ready, loaded, sched_ready, printf_lock, cut>>

BspLabels == {"wake", "wait", "setup"}
ApLabels == {"off", "init", "load", "store", "ready"}
Labels == BspLabels \cup ApLabels \cup {"print", "idle", "switch", "swprint", "user", "frozen"}

MpInit ==
  /\ at = [c \in Cpus |-> IF c = 0 THEN "wake" ELSE "off"]
  /\ woken = 0
  /\ cpus_ready = 1
  /\ loaded = [c \in Cpus |-> 0]
  /\ sched_ready = FALSE
  /\ printf_lock = FALSE
  /\ cut = {}

Goto(c, l) == at' = [at EXCEPT ![c] = l]

-----------------------------------------------------------------------------
(* Mutant: the loop runs past the last CPU. *)
WakeCpuUnbounded ==
  /\ at[0] = "wake"
  /\ woken' = woken + 1
  /\ UNCHANGED <<at, cpus_ready, loaded, sched_ready, printf_lock, cut>>

(* The loop of mp_init that stores goto_address, one CPU at a time; the store
   to the BSP's own entry wakes nobody. *)
WakeCpu ==
  /\ at[0] = "wake" /\ woken < NCPUS
  /\ woken' = woken + 1
  /\ UNCHANGED <<at, cpus_ready, loaded, sched_ready, printf_lock, cut>>

(* Mutants: the loop stops one CPU short, or counts the BSP again. *)
WakeDoneShort ==
  /\ at[0] = "wake" /\ woken = NCPUS - 1
  /\ Goto(0, "wait")
  /\ UNCHANGED <<woken, cpus_ready, loaded, sched_ready, printf_lock, cut>>

WakeDoneCounts ==
  /\ at[0] = "wake" /\ woken = NCPUS
  /\ cpus_ready' = cpus_ready + 1
  /\ Goto(0, "wait")
  /\ UNCHANGED <<woken, loaded, sched_ready, printf_lock, cut>>

WakeDone ==
  /\ at[0] = "wake" /\ woken = NCPUS
  /\ Goto(0, "wait")
  /\ UNCHANGED <<woken, cpus_ready, loaded, sched_ready, printf_lock, cut>>

(* Mutant: the BSP is not taken to be counted. *)
WaitDoneShort ==
  /\ at[0] = "wait" /\ cpus_ready >= NCPUS - 1
  /\ Goto(0, "setup")
  /\ UNCHANGED <<woken, cpus_ready, loaded, sched_ready, printf_lock, cut>>

(* while (cpus_ready != ncpus); *)
WaitDone ==
  /\ at[0] = "wait" /\ cpus_ready = NCPUS
  /\ Goto(0, "setup")
  /\ UNCHANGED <<woken, cpus_ready, loaded, sched_ready, printf_lock, cut>>

(* kmain goes on with proc_init, sched_init and schedule, and sched_begin sets
   sched_ready and idles. *)
SchedBegin ==
  /\ at[0] = "setup"
  /\ sched_ready' = TRUE
  /\ Goto(0, "idle")
  /\ UNCHANGED <<woken, cpus_ready, loaded, printf_lock, cut>>

-----------------------------------------------------------------------------
(* An AP jumps to _mp_start once its goto_address is set, *)
ApEnter(c) ==
  /\ at[c] = "off" /\ c < woken
  /\ Goto(c, "init")
  /\ UNCHANGED <<woken, cpus_ready, loaded, sched_ready, printf_lock, cut>>

(* runs init_cpu_early .. init_syscalls, which enable its interrupts, *)
ApInit(c) ==
  /\ at[c] = "init"
  /\ Goto(c, "load")
  /\ UNCHANGED <<woken, cpus_ready, loaded, sched_ready, printf_lock, cut>>

(* executes ++cpus_ready, a volatile int: a load and a store, not atomic, *)
ApLoad(c) ==
  /\ at[c] = "load"
  /\ loaded' = [loaded EXCEPT ![c] = cpus_ready]
  /\ Goto(c, "store")
  /\ UNCHANGED <<woken, cpus_ready, sched_ready, printf_lock, cut>>

ApStore(c) ==
  /\ at[c] = "store"
  /\ cpus_ready' = loaded[c] + 1
  /\ Goto(c, "ready")
  /\ UNCHANGED <<woken, loaded, sched_ready, printf_lock, cut>>

(* Mutant: printf does not wait for its lock. *)
ApPrintNoWait(c) ==
  /\ at[c] = "ready"
  /\ printf_lock' = TRUE
  /\ Goto(c, "print")
  /\ UNCHANGED <<woken, cpus_ready, loaded, sched_ready, cut>>

(* and prints "CPU %d ready" before it idles. *)
ApPrint(c) ==
  /\ at[c] = "ready" /\ ~printf_lock
  /\ printf_lock' = TRUE
  /\ Goto(c, "print")
  /\ UNCHANGED <<woken, cpus_ready, loaded, sched_ready, cut>>

ApPrinted(c) ==
  /\ at[c] = "print"
  /\ printf_lock' = FALSE
  /\ Goto(c, "idle")
  /\ UNCHANGED <<woken, cpus_ready, loaded, sched_ready, cut>>

-----------------------------------------------------------------------------
(* The timer interrupt with sched_ready: ctx_switch turns to a process; the
   kernel context it interrupted belongs to kproc, which is in no queue, and
   is never resumed.  Before sched_ready the handler just returns. *)
TickedAt == {"load", "store", "ready", "print", "idle", "user", "wait", "setup"}
TickSwitches(c) ==
  /\ sched_ready /\ at[c] \in TickedAt
  /\ cut' = IF at[c] = "print" THEN cut \cup {c} ELSE cut
  /\ Goto(c, "switch")
  /\ UNCHANGED <<woken, cpus_ready, loaded, sched_ready, printf_lock>>

(* A process makes a system call that prints, with interrupts masked. *)
Syscall(c) ==
  /\ at[c] = "user"
  /\ Goto(c, "switch")
  /\ UNCHANGED <<woken, cpus_ready, loaded, sched_ready, printf_lock, cut>>

(* ctx_switch prints "Switching to page table", or panic its message. *)
SwitchPrint(c) ==
  /\ at[c] = "switch" /\ ~printf_lock
  /\ printf_lock' = TRUE
  /\ Goto(c, "swprint")
  /\ UNCHANGED <<woken, cpus_ready, loaded, sched_ready, cut>>

SwitchPrinted(c, l) ==
  /\ at[c] = "swprint"
  /\ printf_lock' = FALSE
  /\ Goto(c, l)
  /\ UNCHANGED <<woken, cpus_ready, loaded, sched_ready, cut>>

-----------------------------------------------------------------------------
Bsp == WakeCpu \/ WakeDone \/ WaitDone \/ SchedBegin
Ap(c) == ApEnter(c) \/ ApInit(c) \/ ApLoad(c) \/ ApStore(c) \/ ApPrint(c) \/ ApPrinted(c)

MpNext == \/ Bsp
          \/ \E c \in APs : Ap(c)
          \/ \E c \in Cpus : \/ TickSwitches(c) \/ Syscall(c) \/ SwitchPrint(c)
                             \/ \E l \in {"user", "frozen"} : SwitchPrinted(c, l)

MpSpec == MpInit /\ [][MpNext]_mpVars

(* Every CPU that executes goes on executing. *)
FairSpec == MpSpec /\ WF_mpVars(Bsp) /\ \A c \in APs : WF_mpVars(Ap(c))

-----------------------------------------------------------------------------
(* The APs that have stored their increment. *)
Done == {c \in APs : at[c] \notin {"off", "init", "load", "store"}}

TypeOK ==
  /\ at \in [Cpus -> Labels]
  /\ woken \in 0..NCPUS
  /\ cpus_ready \in 1..NCPUS
  /\ loaded \in [Cpus -> 0..NCPUS]
  /\ sched_ready \in BOOLEAN
  /\ printf_lock \in BOOLEAN
  /\ cut \subseteq Cpus

(* mp_init is a barrier: when kmain goes on to set up the scheduler, every AP
   has its GDT, IDT, timer and system call registers, even though the counter
   it waits on is incremented without a lock. *)
BarrierHolds == at[0] \notin {"wake", "wait"} => Done = APs

(* The unlocked increment loses updates but never invents one: the counter
   does not exceed the number of CPUs that are ready, and a CPU about to store
   holds no more than that either. *)
NeverOvercounts ==
  /\ cpus_ready <= 1 + Cardinality(Done)
  /\ \A c \in APs : at[c] = "store" => loaded[c] <= 1 + Cardinality(Done)

(* The wait of mp_init ends, unless the increments of two APs overlapped and
   one was lost, after which it cannot end. *)
LostIncrement == cpus_ready < 1 + Cardinality(Done)
WaitEndsUnlessLost == <>(sched_ready \/ LostIncrement)

(* A single AP, the two cores of the Makefile, has nobody to race with. *)
TwoCpusLoseNothing == NCPUS = 2 => ~LostIncrement

(* printf_lock is held by a CPU that will release it, except when a tick cut
   off the "CPU %d ready" message of an AP; no other printf of the kernel is
   ever cut off, the BSP's included. *)
PrintHolders == {c \in Cpus : at[c] \in {"print", "swprint"}}
OnlyReadyMessageIsCut ==
  /\ cut \subseteq APs
  /\ Cardinality(PrintHolders) + Cardinality(cut) <= 1
  /\ printf_lock <=> PrintHolders \cup cut # {}
=============================================================================
