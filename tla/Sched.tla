------------------------------- MODULE Sched -------------------------------
(***************************************************************************)
(* The scheduler of kernel/sched.c with its callers: proc_new (proc.c),    *)
(* kmain and sched_begin, the timer interrupt (isr_handle, ctx_switch) and *)
(* syscall_exit.  Every CPU runs one handler at a time, because handlers   *)
(* run with interrupts masked; the handlers of different CPUs interleave   *)
(* at every access to shared state.  A critical section is two steps: the  *)
(* test-and-set that takes the spinlock, and its body with the release.    *)
(***************************************************************************)
EXTENDS RunQueue, FiniteSets

CONSTANTS
  NCPUS,      \* ncpus
  MAXPID,     \* bound on pid_cur
  NWRAP,      \* the counter n is a uint32_t: it wraps at NWRAP (2^32)
  Garbage,    \* what the counters may hold before anyone has written them
  BootPrios,  \* priorities of the processes kmain creates, in order
  Spawners,   \* CPUs that may create processes after sched_begin
  SWEEP_US,   \* SCHED_US_PER_SWEEP, sched.h:6
  TICKS       \* LAPIC timer ticks in 1 ms, measured by apic_start

ASSUME SchedAssumption ==
  /\ NCPUS \in Nat \ {0}
  /\ MAXPID \in Nat
  /\ NWRAP \in Nat \ {0, 1}
  /\ Garbage \subseteq 0..(NWRAP - 1)
  /\ BootPrios \in Seq(Prios)
  /\ Len(BootPrios) <= MAXPID
  /\ Spawners \subseteq 0..(NCPUS - 1)
  /\ SWEEP_US \in Nat
  /\ TICKS \in Nat \ {0}

Cpus == 0..(NCPUS - 1)
Pids == 1..MAXPID
NULL == 0             \* no process, and the pid that pop_unlocked calls none
KPROC == -1           \* kproc, what a CPU runs before its first switch
UNSET == NCPUS        \* cpu_min before its first assignment

VARIABLES
  active,       \* active[c], inactive[c]: the two queues of CPU c
  inactive,
  n,            \* n[c]: sched_cpu_queues[c].n
  lock,         \* lock[c]: the spinlock of sched_cpu_queues[c] is taken
  period,       \* period[c]: what CPU c last wrote to LAPIC_REG_TMR_INITIAL
  sched_ready,
  pid_cur,
  procmap,      \* procmap[k]: the pid field of the struct stored under k
  current,      \* current[c]: the key of the struct at proc_current
  pc,           \* where CPU c is
  req           \* req[c]: the locals of proc_new and schedule

queueVars == <<active, inactive, n, lock>>
vars == <<active, inactive, n, lock, period, sched_ready, pid_cur, procmap,
          current, pc, req>>

Labels == {"kmain", "run", "new", "scan", "push", "next", "pop", "unsched",
           "remove", "bury", "wild", "frozen", "assert_failed"}

NoReq == [pid |-> NULL, prio |-> 0, cpu |-> 0, n_min |-> NWRAP - 1, cpu_min |-> UNSET]

-----------------------------------------------------------------------------
(* Mutant: a period of no ticks is not raised to one. *)
TimerPeriodMayStop(us) == ((TICKS * us) % NWRAP) \div 1000

(* sched_update_duration: n passes through an int, but SCHED_US_PER_SWEEP is
   unsigned, so the division is too.  apic_set_duration turns the share into
   ticks, in 32 bits. *)
AtLeastOne(x) == IF x = 0 THEN 1 ELSE x
SweepShare(k) == AtLeastOne((SWEEP_US % NWRAP) \div AtLeastOne(k))
TimerPeriod(us) == AtLeastOne(((TICKS * us) % NWRAP) \div 1000)

(* sched_init leaves n as kalloc returned it; apic_start has set the timer.
   The bootstrap processor is in kmain, the others idle in mp_start. *)
Init ==
  /\ active = [c \in Cpus |-> EmptyQueue]
  /\ inactive = [c \in Cpus |-> EmptyQueue]
  /\ n \in [Cpus -> Garbage]
  /\ lock = [c \in Cpus |-> FALSE]
  /\ period = [c \in Cpus |-> TimerPeriod(10000 % NWRAP)]
  /\ sched_ready = FALSE
  /\ pid_cur = 0
  /\ procmap = [k \in Pids |-> NULL]
  /\ current = [c \in Cpus |-> KPROC]
  /\ pc = [c \in Cpus |-> IF c = 0 THEN "kmain" ELSE "run"]
  /\ req = [c \in Cpus |-> NoReq]

Goto(c, l) == pc' = [pc EXCEPT ![c] = l]

-----------------------------------------------------------------------------
(* proc_new, first half: ++pid_cur under pid_cur_lock.  kmain asks for its
   processes in turn; later, a spawner may ask for any priority. *)
DrawPid(c, prio) ==
  /\ pid_cur' = pid_cur + 1
  /\ req' = [req EXCEPT ![c] = [NoReq EXCEPT !.pid = pid_cur + 1, !.prio = prio]]
  /\ Goto(c, "new")
  /\ UNCHANGED <<queueVars, period, sched_ready, procmap, current>>

BootNew(c) ==
  /\ pc[c] = "kmain" /\ pid_cur < Len(BootPrios)
  /\ DrawPid(c, BootPrios[pid_cur + 1])

LateNew(c, prio) ==
  /\ pc[c] = "run" /\ sched_ready /\ c \in Spawners /\ pid_cur < MAXPID
  /\ DrawPid(c, prio)

(* Mutant: map_insert is left out. *)
NewProcUnmapped(c) ==
  /\ pc[c] = "new"
  /\ req' = [req EXCEPT ![c].pid = pid_cur]
  /\ Goto(c, "scan")
  /\ UNCHANGED <<queueVars, period, sched_ready, pid_cur, procmap, current>>

(* proc_new, second half: the pid field is read from pid_cur after the lock
   was released, the struct is stored under the pid that was drawn, and the
   field is what schedule is then called with. *)
NewProc(c) ==
  /\ pc[c] = "new"
  /\ procmap' = [procmap EXCEPT ![req[c].pid] = pid_cur]
  /\ req' = [req EXCEPT ![c].pid = pid_cur]
  /\ Goto(c, "scan")
  /\ UNCHANGED <<queueVars, period, sched_ready, pid_cur, current>>

(* schedule reads the counters one by one, without the locks. *)
ScanCpu(c) ==
  /\ pc[c] = "scan" /\ req[c].cpu < NCPUS
  /\ LET k == req[c].cpu
     IN req' = [req EXCEPT ![c] =
                  IF n[k] < @.n_min
                    THEN [@ EXCEPT !.cpu = k + 1, !.cpu_min = k, !.n_min = n[k]]
                    ELSE [@ EXCEPT !.cpu = k + 1]]
  /\ UNCHANGED <<queueVars, period, sched_ready, pid_cur, procmap, current, pc>>

(* Mutant: the test-and-set does not wait. *)
SchedLockNoWait(c, q) ==
  /\ pc[c] = "scan" /\ req[c].cpu = NCPUS
  /\ req[c].cpu_min \in {q, UNSET}
  /\ lock' = [lock EXCEPT ![q] = TRUE]
  /\ req' = [req EXCEPT ![c].cpu_min = q]
  /\ Goto(c, "push")
  /\ UNCHANGED <<active, inactive, n, period, sched_ready, pid_cur, procmap, current>>

(* ACQUIRE in schedule.  When every counter read UINT32_MAX, cpu_min was never
   assigned: the index is whatever was in its place, *)
SchedLock(c, q) ==
  /\ pc[c] = "scan" /\ req[c].cpu = NCPUS
  /\ req[c].cpu_min \in {q, UNSET}
  /\ ~lock[q]
  /\ lock' = [lock EXCEPT ![q] = TRUE]
  /\ req' = [req EXCEPT ![c].cpu_min = q]
  /\ Goto(c, "push")
  /\ UNCHANGED <<active, inactive, n, period, sched_ready, pid_cur, procmap, current>>

(* which may be no index at all: the access faults and isr_handle freezes. *)
SchedWild(c) ==
  /\ pc[c] = "scan" /\ req[c].cpu = NCPUS
  /\ req[c].cpu_min = UNSET
  /\ Goto(c, "wild")
  /\ UNCHANGED <<queueVars, period, sched_ready, pid_cur, procmap, current, req>>

(* Mutant: the push stays in the loop, and every CPU up to the last gets a node. *)
SchedPushInLoop(c) ==
  /\ pc[c] = "push"
  /\ LET q == req[c].cpu_min
     IN /\ n' = [d \in Cpus |-> IF d <= q THEN (n[d] + 1) % NWRAP ELSE n[d]]
        /\ inactive' = [d \in Cpus |-> IF d <= q THEN Push(inactive[d], req[c].pid, req[c].prio)
                                                 ELSE inactive[d]]
        /\ lock' = [lock EXCEPT ![q] = FALSE]
  /\ req' = [req EXCEPT ![c] = NoReq]
  /\ Goto(c, IF sched_ready THEN "run" ELSE "kmain")
  /\ UNCHANGED <<active, period, sched_ready, pid_cur, procmap, current>>

(* schedule under the lock: ++n, push_unlocked, RELEASE; back to the caller. *)
SchedPush(c) ==
  /\ pc[c] = "push"
  /\ LET q == req[c].cpu_min
     IN /\ n' = [n EXCEPT ![q] = (@ + 1) % NWRAP]
        /\ inactive' = [inactive EXCEPT ![q] = Push(@, req[c].pid, req[c].prio)]
        /\ lock' = [lock EXCEPT ![q] = FALSE]
  /\ req' = [req EXCEPT ![c] = NoReq]
  /\ Goto(c, IF sched_ready THEN "run" ELSE "kmain")
  /\ UNCHANGED <<active, period, sched_ready, pid_cur, procmap, current>>

(* sched_begin, the end of kmain. *)
SchedBegin(c) ==
  /\ pc[c] = "kmain" /\ pid_cur = Len(BootPrios)
  /\ sched_ready' = TRUE
  /\ Goto(c, "run")
  /\ UNCHANGED <<queueVars, period, pid_cur, procmap, current, req>>

-----------------------------------------------------------------------------
(* The timer interrupt: isr_handle calls ctx_switch, which calls proc_next.
   A LAPIC timer whose initial count is 0 is stopped. *)
TimerTick(c) ==
  /\ pc[c] = "run" /\ sched_ready /\ period[c] # 0
  /\ Goto(c, "next")
  /\ UNCHANGED <<queueVars, period, sched_ready, pid_cur, procmap, current, req>>

NextLock(c) ==
  /\ pc[c] = "next" /\ ~lock[c]
  /\ lock' = [lock EXCEPT ![c] = TRUE]
  /\ Goto(c, "pop")
  /\ UNCHANGED <<active, inactive, n, period, sched_ready, pid_cur, procmap, current, req>>

(* Mutants: the node goes back to the active queue, or to none. *)
PopFromRequeue(c, act, ina) ==
  /\ pc[c] = "pop" /\ Levels(act) # {}
  /\ active' = [active EXCEPT ![c] = Push(Pop(act), TopPid(act), TopLevel(act))]
  /\ inactive' = [inactive EXCEPT ![c] = ina]
  /\ current' = [current EXCEPT ![c] = TopPid(act)]
  /\ lock' = [lock EXCEPT ![c] = FALSE]
  /\ Goto(c, "run")
  /\ UNCHANGED <<n, period, sched_ready, pid_cur, procmap, req>>

PopFromDrops(c, act, ina) ==
  /\ pc[c] = "pop" /\ Levels(act) # {}
  /\ active' = [active EXCEPT ![c] = Pop(act)]
  /\ inactive' = [inactive EXCEPT ![c] = ina]
  /\ current' = [current EXCEPT ![c] = TopPid(act)]
  /\ lock' = [lock EXCEPT ![c] = FALSE]
  /\ Goto(c, "run")
  /\ UNCHANGED <<n, period, sched_ready, pid_cur, procmap, req>>

(* pop_unlocked on the queues act and ina, then proc_activate and RELEASE.
   A pid that is not in procmap fails the assertion, with the lock held. *)
PopFrom(c, act, ina) ==
  /\ pc[c] = "pop" /\ Levels(act) # {}
  /\ LET pid == TopPid(act)
         found == procmap[pid] # NULL
     IN /\ active' = [active EXCEPT ![c] = Pop(act)]
        /\ inactive' = [inactive EXCEPT ![c] = Push(ina, pid, TopLevel(act))]
        /\ current' = [current EXCEPT ![c] = IF found THEN pid ELSE NULL]
        /\ lock' = [lock EXCEPT ![c] = ~found]
        /\ Goto(c, IF found THEN "run" ELSE "assert_failed")
  /\ UNCHANGED <<n, period, sched_ready, pid_cur, procmap, req>>

(* proc_next: from the active queue; or, when it is empty, after the queues
   have changed places; *)
NextPop(c) == PopFrom(c, active[c], inactive[c])

(* Mutant: the queues change places although the active one is not empty. *)
NextSweepEarly(c) == PopFrom(c, inactive[c], active[c])

NextSweep(c) ==
  /\ Levels(active[c]) = {}
  /\ PopFrom(c, inactive[c], active[c])

(* Mutant: the panic comes before the exchange of the queues. *)
NextPanicEarly(c) ==
  /\ pc[c] = "pop" /\ Levels(active[c]) = {}
  /\ Goto(c, "frozen")
  /\ UNCHANGED <<queueVars, period, sched_ready, pid_cur, procmap, current, req>>

(* and when both are empty, panic("No processes available!") with the lock. *)
NextPanic(c) ==
  /\ pc[c] = "pop" /\ Levels(active[c]) = {} /\ Levels(inactive[c]) = {}
  /\ active' = [active EXCEPT ![c] = inactive[c]]
  /\ inactive' = [inactive EXCEPT ![c] = active[c]]
  /\ Goto(c, "frozen")
  /\ UNCHANGED <<n, lock, period, sched_ready, pid_cur, procmap, current, req>>

-----------------------------------------------------------------------------
(* The process that runs on c makes the exit system call. *)
SyscallExit(c) ==
  /\ pc[c] = "run" /\ current[c] \in Pids
  /\ Goto(c, "unsched")
  /\ UNCHANGED <<queueVars, period, sched_ready, pid_cur, procmap, current, req>>

UnschedLock(c) ==
  /\ pc[c] = "unsched" /\ ~lock[c]
  /\ lock' = [lock EXCEPT ![c] = TRUE]
  /\ Goto(c, "remove")
  /\ UNCHANGED <<active, inactive, n, period, sched_ready, pid_cur, procmap, current, req>>

(* Mutant: only the active queue is searched. *)
UnschedActiveOnly(c) ==
  /\ pc[c] = "remove"
  /\ n' = [n EXCEPT ![c] = (@ - 1) % NWRAP]
  /\ period' = [period EXCEPT ![c] = TimerPeriod(SweepShare(n'[c]))]
  /\ active' = [active EXCEPT ![c] = TryRemove(@, procmap[current[c]])]
  /\ lock' = [lock EXCEPT ![c] = FALSE]
  /\ Goto(c, "bury")
  /\ UNCHANGED <<inactive, sched_ready, pid_cur, procmap, current, req>>

(* unschedule under the lock: --n, sched_update_duration, and the node goes
   from the active queue or else from the inactive one. *)
UnschedRemove(c) ==
  /\ pc[c] = "remove"
  /\ n' = [n EXCEPT ![c] = (@ - 1) % NWRAP]
  /\ period' = [period EXCEPT ![c] = TimerPeriod(SweepShare(n'[c]))]
  /\ LET pid == procmap[current[c]]
     IN IF Holding(active[c], pid) # {}
          THEN /\ active' = [active EXCEPT ![c] = TryRemove(@, pid)]
               /\ UNCHANGED inactive
          ELSE /\ inactive' = [inactive EXCEPT ![c] = TryRemove(@, pid)]
               /\ UNCHANGED active
  /\ lock' = [lock EXCEPT ![c] = FALSE]
  /\ Goto(c, "bury")
  /\ UNCHANGED <<sched_ready, pid_cur, procmap, current, req>>

(* The rest of syscall_exit: map_del on procmap, proc_current = NULL, and
   ctx_switch(NULL). *)
Bury(c) ==
  /\ pc[c] = "bury"
  /\ procmap' = [procmap EXCEPT ![procmap[current[c]]] = NULL]
  /\ current' = [current EXCEPT ![c] = NULL]
  /\ Goto(c, "next")
  /\ UNCHANGED <<queueVars, period, sched_ready, pid_cur, req>>

-----------------------------------------------------------------------------
Creation(c) ==
  \/ BootNew(c) \/ NewProc(c) \/ ScanCpu(c)
  \/ \E q \in Cpus : SchedLock(c, q)
  \/ SchedWild(c) \/ SchedPush(c) \/ SchedBegin(c)

Switch(c) == NextLock(c) \/ NextPop(c) \/ NextSweep(c) \/ NextPanic(c)
Exit(c) == UnschedLock(c) \/ UnschedRemove(c) \/ Bury(c)

Next == \E c \in Cpus :
          \/ Creation(c) \/ TimerTick(c) \/ Switch(c) \/ SyscallExit(c) \/ Exit(c)
          \/ \E prio \in Prios : LateNew(c, prio)

Spec == Init /\ [][Next]_vars

(* Code that is running goes on, and a timer that is armed fires.  Nothing is
   assumed of exit, which a process may never call, or of late creation. *)
Fairness == \A c \in Cpus : /\ WF_vars(Creation(c))
                            /\ WF_vars(TimerTick(c))
                            /\ WF_vars(Switch(c))
                            /\ WF_vars(Exit(c))

FairSpec == Spec /\ Fairness

-----------------------------------------------------------------------------
(* The state is what the C declarations allow: queues of pids, counters in
   their width, and a target index that is a CPU or still unassigned. *)
TypeOK ==
  /\ active \in [Cpus -> [Prios -> Seq(Pids)]]
  /\ inactive \in [Cpus -> [Prios -> Seq(Pids)]]
  /\ n \in [Cpus -> 0..(NWRAP - 1)]
  /\ lock \in [Cpus -> BOOLEAN]
  /\ period \in [Cpus -> Nat]
  /\ sched_ready \in BOOLEAN
  /\ pid_cur \in 0..MAXPID
  /\ procmap \in [Pids -> 0..MAXPID]
  /\ current \in [Cpus -> Pids \cup {NULL, KPROC}]
  /\ pc \in [Cpus -> Labels]
  /\ req \in [Cpus -> [pid : 0..MAXPID, prio : Prios, cpu : 0..NCPUS,
                       n_min : 0..(NWRAP - 1), cpu_min : 0..NCPUS]]

Queued(c) == Members(active[c]) \cup Members(inactive[c])

(* The CPUs inside the critical section of queue q. *)
Inside(q) == {c \in Cpus : \/ pc[c] = "push" /\ req[c].cpu_min = q
                           \/ pc[c] \in {"pop", "remove", "frozen", "assert_failed"} /\ c = q}

(* The spinlocks of sched_cpu_queues exclude: at most one CPU is inside the
   critical section of a queue, and the flag is set exactly while one is,
   whichever of schedule, proc_next and unschedule took it. *)
Exclusion ==
  \A q \in Cpus : /\ \A c, d \in Inside(q) : c = d
                  /\ lock[q] <=> Inside(q) # {}

(* schedule, proc_next and unschedule never duplicate a node: a pid hangs off
   one queue of one CPU, at one level and one position. *)
OnePlace ==
  \A c, d \in Cpus, p, r \in Prios :
    /\ \A i \in DOMAIN active[c][p], j \in DOMAIN active[d][r] :
         active[c][p][i] = active[d][r][j] => c = d /\ p = r /\ i = j
    /\ \A i \in DOMAIN inactive[c][p], j \in DOMAIN inactive[d][r] :
         inactive[c][p][i] = inactive[d][r][j] => c = d /\ p = r /\ i = j
    /\ \A i \in DOMAIN active[c][p], j \in DOMAIN inactive[d][r] :
         active[c][p][i] # inactive[d][r][j]

(* A process is executed by one CPU at a time: no two proc_current pointers
   lead to the same struct proc. *)
RunsOnOneCpu ==
  \A c, d \in Cpus : current[c] \in Pids /\ current[c] = current[d] => c = d

(* unschedule finds its node: until it has been removed, the process a CPU runs
   hangs off the inactive queue of that same CPU, where pop_unlocked put it. *)
RunsWhereQueued ==
  \A c \in Cpus : current[c] \in Pids /\ pc[c] # "bury"
                     => current[c] \in Members(inactive[c])

(* assert(cpu->proc_current != NULL) in proc_activate holds: a pid that is
   popped is still in procmap. *)
ActivateAssert == \A c \in Cpus : pc[c] # "assert_failed"

(* Nobody is forgotten: a process in procmap is queued, or on its way to a
   queue in the CPU that creates it, or on its way out of syscall_exit. *)
NothingLost ==
  \A k \in Pids : procmap[k] # NULL =>
    \E c \in Cpus : \/ k \in Queued(c)
                    \/ pc[c] \in {"scan", "push", "wild"} /\ req[c].pid = k
                    \/ pc[c] = "bury" /\ current[c] = k

(* "No processes available!" is true: a CPU that panicked in proc_next has no
   process, nor is one ever queued on it afterwards. *)
PanicOnlyWhenEmpty == \A c \in Cpus : pc[c] = "frozen" => Queued(c) = {}

(* Whatever the counters held at first, n moves with the number of nodes: a
   step changes both by the same amount, modulo the width of n. *)
Places(q) == UNION {{p} \X DOMAIN q[p] : p \in Prios}
Nodes(c) == Cardinality(Places(active[c])) + Cardinality(Places(inactive[c]))
CountMovesWithNodes ==
  [][\A c \in Cpus : (n'[c] - n[c]) % NWRAP = (Nodes(c)' - Nodes(c)) % NWRAP]_vars

(* The scheduler implements sweeps: the active queue holds the processes still
   to be served, the inactive queue those already served. *)
Sweeps == INSTANCE Sweep WITH
  Procs <- Pids, Idle <- {NULL, KPROC},
  pending <- [c \in Cpus |-> Members(active[c])],
  served <- [c \in Cpus |-> Members(inactive[c])],
  running <- current
ImplementsSweep == Sweeps!Spec

(* Every process that has been scheduled is given the CPU, again and again,
   until it exits, whatever its priority and however the others behave. *)
EveryoneIsServed ==
  \A k \in Pids : (\E c \in Cpus : k \in Members(active[c]) \/ k \in Members(inactive[c]))
                     ~> (\E c \in Cpus : current[c] = k)
=============================================================================
