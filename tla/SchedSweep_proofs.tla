-------------------------- MODULE SchedSweep_proofs --------------------------
(***************************************************************************)
(* The scheduler of a kernel in which at most one CPU creates processes    *)
(* after sched_begin.  No process is queued twice, lost, or run by two     *)
(* CPUs; the assertion of proc_activate holds; and the scheduler           *)
(* implements the sweeps of module Sweep.                                  *)
(***************************************************************************)
EXTENDS Sched_proofs, FiniteSetTheorems

(* The hypothesis of this module: the creators do not race in proc_new. *)
OneSpawner == \A a, b \in Spawners : a = b

A(c) == Members(active[c])
I(c) == Members(inactive[c])

Creating == {"kmain", "new", "scan", "push", "wild"}
Pushing == {"scan", "push", "wild"}

(* Before sched_begin kmain creates, afterwards the spawner. *)
Creator ==
  \A c \in Cpus : pc[c] \in Creating =>
    IF sched_ready THEN c \in Spawners /\ pc[c] # "kmain" ELSE c = 0

(* The pid that is being created is the last one drawn, and it is in no queue
   and on no CPU yet. *)
Fresh ==
  \A c \in Cpus :
    /\ pc[c] = "new" => req[c].pid = pid_cur /\ procmap[pid_cur] = NULL
    /\ pc[c] \in Pushing =>
         /\ req[c].pid = pid_cur /\ procmap[pid_cur] = pid_cur
         /\ \A d \in Cpus : pid_cur \notin A(d) /\ pid_cur \notin I(d) /\ current[d] # pid_cur

(* procmap leads from a pid to the struct with that pid, and to none that has
   not been drawn. *)
Mapped == \A k \in Pids : procmap[k] \in {NULL, k} /\ (k > pid_cur => procmap[k] = NULL)

QueuedMapped == \A c \in Cpus : \A k \in A(c) \cup I(c) : procmap[k] = k

DistinctQueues == \A c \in Cpus : Distinct(active[c]) /\ Distinct(inactive[c])

Apart == \A c, d \in Cpus : /\ A(c) \cap I(d) = {}
                            /\ c # d => A(c) \cap A(d) = {} /\ I(c) \cap I(d) = {}

(* What a CPU runs is in its inactive queue, until unschedule has taken it out;
   from then on it is in no queue. *)
Running ==
  \A c \in Cpus : current[c] \in Pids =>
    /\ procmap[current[c]] = current[c]
    /\ pc[c] # "bury" => current[c] \in I(c)
    /\ pc[c] = "bury" => \A d \in Cpus : current[c] \notin A(d) /\ current[c] \notin I(d)

Kept ==
  \A k \in Pids : procmap[k] # NULL =>
    \E c \in Cpus : \/ k \in A(c) \cup I(c)
                    \/ pc[c] \in Pushing /\ req[c].pid = k
                    \/ pc[c] = "bury" /\ current[c] = k

Safe == /\ Fresh /\ Mapped /\ QueuedMapped /\ DistinctQueues /\ Apart /\ Running
        /\ RunsOnOneCpu /\ ActivateAssert /\ Kept

-----------------------------------------------------------------------------
LEMMA OneCreator ==
  ASSUME OneSpawner, Creator, NEW c \in Cpus, NEW d \in Cpus,
         pc[c] \in Creating, pc[d] \in Creating
  PROVE  c = d
  BY DEF OneSpawner, Creator

LEMMA NextCreator ==
  ASSUME OneSpawner, TypeInv, Creator, [Next]_vars
  PROVE  Creator'
  <1>0. pc \in [Cpus -> Labels]
    BY DEF TypeInv, TypeOK
  <1>1. ASSUME NEW c \in Cpus, NEW l, Goto(c, l), UNCHANGED sched_ready,
               l \in Creating => IF sched_ready THEN c \in Spawners /\ l # "kmain" ELSE c = 0
        PROVE  Creator'
    BY <1>0, <1>1 DEF Goto, Creator
  <1>2. ASSUME NEW c \in Cpus, NEW prio, DrawPid(c, prio), BootNew(c) \/ LateNew(c, prio) PROVE Creator'
    <2>1. IF sched_ready THEN c \in Spawners ELSE c = 0
      BY <1>2 DEF BootNew, LateNew, Creator, Creating
    <2> QED BY <1>1, <1>2, <2>1 DEF DrawPid
  <1>3. ASSUME NEW c \in Cpus,
               NewProc(c) \/ SchedWild(c) \/ SchedPush(c) \/ \E q \in Cpus : SchedLock(c, q)
        PROVE  Creator'
    <2>1. PICK l \in {"scan", "push", "wild", "run", "kmain"} :
                  Goto(c, l) /\ UNCHANGED sched_ready /\ (l = "kmain" => ~sched_ready)
      BY <1>3 DEF NewProc, SchedWild, SchedPush, SchedLock
    <2>2. IF sched_ready THEN c \in Spawners ELSE c = 0
      BY <1>3 DEF NewProc, SchedWild, SchedPush, SchedLock, Creator, Creating
    <2> QED BY <1>1, <2>1, <2>2
  <1>4. ASSUME NEW c \in Cpus, SchedBegin(c) PROVE Creator'
    <2>1. \A d \in Cpus : pc[d] \in Creating => d = c
      BY <1>4, OneCreator DEF SchedBegin, Creating
    <2>2. \A d \in Cpus : pc'[d] \notin Creating
      BY <1>0, <1>4, <2>1 DEF SchedBegin, Goto, Creating
    <2> QED BY <2>2 DEF Creator
  <1>5. ASSUME NEW c \in Cpus, NEW l, Goto(c, l), UNCHANGED sched_ready, l \notin Creating
        PROVE  Creator'
    BY <1>1, <1>5
  <1>6. ASSUME NEW c \in Cpus,
               TimerTick(c) \/ Switch(c) \/ SyscallExit(c) \/ Exit(c)
        PROVE  Creator'
    <2>1. UNCHANGED sched_ready
      BY <1>6 DEF TimerTick, Switch, NextLock, NextPop, NextSweep, PopFrom, NextPanic, SyscallExit,
                  Exit, UnschedLock, UnschedRemove, Bury
    <2>2. PICK l \in {"next", "pop", "run", "assert_failed", "frozen", "unsched", "remove", "bury"} :
            Goto(c, l)
      BY <1>6 DEF TimerTick, Switch, NextLock, NextPop, NextSweep, PopFrom, NextPanic, SyscallExit,
                  Exit, UnschedLock, UnschedRemove, Bury
    <2> QED BY <1>5, <2>1, <2>2 DEF Creating
  <1>7. ASSUME pc' = pc, sched_ready' = sched_ready PROVE Creator'
    BY <1>7 DEF Creator
  <1> QED
    BY <1>2, <1>3, <1>4, <1>6, <1>7
    DEF Next, Creation, BootNew, LateNew, ScanCpu, vars

-----------------------------------------------------------------------------
(* What the steps do to the sets of queued pids. *)
LEMMA Typed ==
  ASSUME TypeInv, NEW c \in Cpus
  PROVE  /\ active[c] \in Queues(Pids) /\ inactive[c] \in Queues(Pids)
         /\ A(c) \in SUBSET Pids /\ I(c) \in SUBSET Pids
  <1>1. active[c] \in Queues(Pids) /\ inactive[c] \in Queues(Pids)
    BY DEF TypeInv, TypeOK, Queues
  <1> QED BY <1>1, MembersTyped DEF A, I

SameQueues == \A d \in Cpus : /\ A(d)' = A(d) /\ I(d)' = I(d)
                              /\ Distinct(active'[d]) /\ Distinct(inactive'[d])

LEMMA QueuesKept ==
  ASSUME Safe, UNCHANGED <<active, inactive>>
  PROVE  SameQueues
  BY DEF Safe, DistinctQueues, SameQueues, A, I

LEMMA PanicEffect == ASSUME TypeInv, Safe, NEW c \in Cpus, NextPanic(c) PROVE SameQueues
  <1>1. active[c] \in Queues(Pids) /\ inactive[c] \in Queues(Pids)
    BY Typed
  <1>2. A(c) = {} /\ I(c) = {}
    BY <1>1, NoLevels DEF NextPanic, A, I
  <1>3. /\ active'[c] = inactive[c] /\ inactive'[c] = active[c]
        /\ \A d \in Cpus \ {c} : active'[d] = active[d] /\ inactive'[d] = inactive[d]
    BY DEF NextPanic, TypeInv, TypeOK
  <1> QED BY <1>2, <1>3 DEF Safe, DistinctQueues, SameQueues, A, I

LEMMA PushEffect ==
  ASSUME TypeInv, Safe, NEW c \in Cpus, NEW q \in Cpus, NEW x \in Pids,
         SchedPush(c), q = req[c].cpu_min, x = req[c].pid
  PROVE  /\ x \notin I(q) /\ I(q)' = I(q) \cup {x}
         /\ \A d \in Cpus \ {q} : I(d)' = I(d)
         /\ \A d \in Cpus : A(d)' = A(d)
         /\ DistinctQueues'
  <1>1. inactive[q] \in Queues(Pids) /\ req[c].prio \in Prios
    BY Typed DEF TypeInv, TypeOK
  <1>2. x \notin I(q)
    BY DEF SchedPush, Safe, Fresh, Pushing
  <1>3. /\ inactive'[q] = Push(inactive[q], x, req[c].prio)
        /\ \A d \in Cpus \ {q} : inactive'[d] = inactive[d]
        /\ active' = active
    BY DEF SchedPush, TypeInv, TypeOK
  <1>4. I(q)' = I(q) \cup {x} /\ Distinct(inactive'[q])
    <2>1. Distinct(inactive[q]) /\ x \notin Members(inactive[q])
      BY <1>2 DEF I, Safe, DistinctQueues
    <2>2. /\ Members(inactive'[q]) = Members(inactive[q]) \cup {x}
          /\ Distinct(inactive'[q])
      BY <1>1, <1>3, <2>1, PushFacts
    <2> QED BY <2>2 DEF I
  <1> QED BY <1>2, <1>3, <1>4 DEF A, I, Safe, DistinctQueues

(* proc_next takes x from the active queue, or, if that is empty, from what was
   the inactive queue, and puts it into the one that is then inactive. *)
LEMMA PopEffect ==
  ASSUME TypeInv, Safe, NEW c \in Cpus, NextPop(c)
  PROVE  \E x \in Pids :
           /\ x \in A(c) /\ A(c)' = A(c) \ {x} /\ I(c)' = I(c) \cup {x}
           /\ current'[c] = x /\ pc'[c] = "run"
           /\ \A d \in Cpus \ {c} : A(d)' = A(d) /\ I(d)' = I(d)
           /\ DistinctQueues'
  <1> DEFINE x == TopPid(active[c])
  <1>1. active[c] \in Queues(Pids) /\ inactive[c] \in Queues(Pids) /\ Distinct(active[c])
        /\ Distinct(inactive[c]) /\ Levels(active[c]) # {}
    BY Typed DEF NextPop, PopFrom, Safe, DistinctQueues
  <1>2. /\ x \in Pids /\ x \in A(c) /\ TopLevel(active[c]) \in Prios
        /\ Members(Pop(active[c])) = A(c) \ {x} /\ Distinct(Pop(active[c]))
    BY <1>1, PopFacts DEF A
  <1>3. x \notin I(c) /\ procmap[x] # NULL
    BY <1>2 DEF Safe, Apart, QueuedMapped, Pids, NULL
  <1>4. /\ Members(Push(inactive[c], x, TopLevel(active[c]))) = I(c) \cup {x}
        /\ Distinct(Push(inactive[c], x, TopLevel(active[c])))
    BY <1>1, <1>2, <1>3, PushFacts DEF I
  <1>5. /\ active'[c] = Pop(active[c]) /\ inactive'[c] = Push(inactive[c], x, TopLevel(active[c]))
        /\ \A d \in Cpus \ {c} : active'[d] = active[d] /\ inactive'[d] = inactive[d]
        /\ current'[c] = x /\ pc'[c] = "run"
    BY <1>3 DEF NextPop, PopFrom, Goto, TypeInv, TypeOK
  <1> HIDE DEF x
  <1>6. DistinctQueues'
    BY <1>2, <1>4, <1>5 DEF Safe, DistinctQueues
  <1>7. /\ A(c)' = A(c) \ {x} /\ I(c)' = I(c) \cup {x}
        /\ \A d \in Cpus \ {c} : A(d)' = A(d) /\ I(d)' = I(d)
    BY <1>2, <1>4, <1>5 DEF A, I
  <1> QED BY <1>2, <1>5, <1>6, <1>7

LEMMA SweepEffect ==
  ASSUME TypeInv, Safe, NEW c \in Cpus, NextSweep(c)
  PROVE  \E x \in Pids :
           /\ A(c) = {} /\ x \in I(c) /\ A(c)' = I(c) \ {x} /\ I(c)' = {x}
           /\ current'[c] = x /\ pc'[c] = "run"
           /\ \A d \in Cpus \ {c} : A(d)' = A(d) /\ I(d)' = I(d)
           /\ DistinctQueues'
  <1> DEFINE x == TopPid(inactive[c])
  <1>1. active[c] \in Queues(Pids) /\ inactive[c] \in Queues(Pids) /\ Distinct(active[c])
        /\ Distinct(inactive[c]) /\ Levels(inactive[c]) # {} /\ Levels(active[c]) = {}
    BY Typed DEF NextSweep, PopFrom, Safe, DistinctQueues
  <1>2. /\ x \in Pids /\ x \in I(c) /\ TopLevel(inactive[c]) \in Prios
        /\ Members(Pop(inactive[c])) = I(c) \ {x} /\ Distinct(Pop(inactive[c]))
    BY <1>1, PopFacts DEF I
  <1>3. A(c) = {} /\ procmap[x] # NULL
    BY <1>1, <1>2, NoLevels DEF Safe, QueuedMapped, Pids, NULL, A
  <1>4. /\ Members(Push(active[c], x, TopLevel(inactive[c]))) = {x}
        /\ Distinct(Push(active[c], x, TopLevel(inactive[c])))
    BY <1>1, <1>2, <1>3, PushFacts DEF A
  <1>5. /\ active'[c] = Pop(inactive[c]) /\ inactive'[c] = Push(active[c], x, TopLevel(inactive[c]))
        /\ \A d \in Cpus \ {c} : active'[d] = active[d] /\ inactive'[d] = inactive[d]
        /\ current'[c] = x /\ pc'[c] = "run"
    BY <1>3 DEF NextSweep, PopFrom, Goto, TypeInv, TypeOK
  <1> HIDE DEF x
  <1>6. DistinctQueues'
    BY <1>2, <1>4, <1>5 DEF Safe, DistinctQueues
  <1>7. /\ A(c)' = I(c) \ {x} /\ I(c)' = {x}
        /\ \A d \in Cpus \ {c} : A(d)' = A(d) /\ I(d)' = I(d)
    BY <1>2, <1>4, <1>5 DEF A, I
  <1> QED BY <1>2, <1>3, <1>5, <1>6, <1>7

(* unschedule takes out the pid of the running process, from the inactive
   queue, where it is. *)
LEMMA RemoveEffect ==
  ASSUME TypeInv, Safe, NEW c \in Cpus, UnschedRemove(c)
  PROVE  /\ current[c] \in Pids /\ current[c] \in I(c)
         /\ \A d \in Cpus : A(d)' = A(d)
         /\ I(c)' = I(c) \ {current[c]}
         /\ \A d \in Cpus \ {c} : I(d)' = I(d)
         /\ DistinctQueues'
  <1> DEFINE x == current[c]
  <1>1. x \in Pids /\ x \in I(c) /\ procmap[x] = x /\ x \notin A(c)
    BY DEF UnschedRemove, TypeInv, LocalsOK, Safe, Running, Apart
  <1>2. active[c] \in Queues(Pids) /\ inactive[c] \in Queues(Pids)
    BY Typed
  <1>3. Holding(active[c], x) = {}
    BY <1>1, <1>2, TryRemoveFacts DEF A
  <1>4. /\ active' = active /\ inactive'[c] = TryRemove(inactive[c], x)
        /\ \A d \in Cpus \ {c} : inactive'[d] = inactive[d]
    BY <1>1, <1>3 DEF UnschedRemove, TypeInv, TypeOK
  <1>5. /\ Members(TryRemove(inactive[c], x)) = I(c) \ {x}
        /\ Distinct(TryRemove(inactive[c], x))
    BY <1>2, TryRemoveFacts DEF I, Safe, DistinctQueues
  <1> HIDE DEF x
  <1>6. DistinctQueues'
    BY <1>4, <1>5 DEF Safe, DistinctQueues
  <1>7. /\ \A d \in Cpus : A(d)' = A(d)
        /\ I(c)' = I(c) \ {x} /\ \A d \in Cpus \ {c} : I(d)' = I(d)
    BY <1>4, <1>5 DEF A, I
  <1> QED BY <1>1, <1>6, <1>7 DEF x

-----------------------------------------------------------------------------
(* Steps that change no queue, no process and no pid: they neither start nor
   end a creation or an exit. *)
LEMMA SafeQuiet ==
  ASSUME TypeInv, Safe, SameQueues, UNCHANGED <<pid_cur, procmap, current>>,
         NEW c \in Cpus,
         \A d \in Cpus \ {c} : pc'[d] = pc[d] /\ req'[d] = req[d],
         req'[c].pid = req[c].pid,
         pc'[c] \notin {"new", "assert_failed"},
         pc'[c] \in Pushing <=> pc[c] \in Pushing,
         pc'[c] = "bury" <=> pc[c] = "bury"
  PROVE  Safe'
  <1>1. \A d \in Cpus : /\ A(d)' = A(d) /\ I(d)' = I(d)
                        /\ pc'[d] \in Pushing <=> pc[d] \in Pushing
                        /\ pc'[d] = "bury" <=> pc[d] = "bury"
                        /\ pc'[d] = "new" => pc[d] = "new"
                        /\ req'[d].pid = req[d].pid
    BY DEF SameQueues
  <1>2. Fresh'
    BY <1>1 DEF Safe, Fresh
  <1>3. Mapped' /\ RunsOnOneCpu'
    BY DEF Safe, Mapped, RunsOnOneCpu
  <1>4. QueuedMapped' /\ Apart'
    BY <1>1 DEF Safe, QueuedMapped, Apart
  <1>5. DistinctQueues'
    BY DEF SameQueues, DistinctQueues
  <1>6. Running'
    BY <1>1 DEF Safe, Running
  <1>7. ActivateAssert'
    BY DEF Safe, ActivateAssert
  <1>8. Kept'
    BY <1>1 DEF Safe, Kept
  <1> QED BY <1>2, <1>3, <1>4, <1>5, <1>6, <1>7, <1>8 DEF Safe

LEMMA QuietSteps ==
  ASSUME TypeInv, Safe, NEW c \in Cpus,
         \/ ScanCpu(c) \/ SchedWild(c) \/ SchedBegin(c) \/ TimerTick(c) \/ NextLock(c)
         \/ NextPanic(c) \/ SyscallExit(c) \/ UnschedLock(c) \/ \E q \in Cpus : SchedLock(c, q)
  PROVE  Safe'
  <1>0. req \in [Cpus -> Reqs] /\ pc \in [Cpus -> Labels]
    BY DEF TypeInv, TypeOK, Reqs
  <1>1. SameQueues
    BY QueuesKept, PanicEffect
    DEF ScanCpu, SchedWild, SchedBegin, TimerTick, NextLock, SyscallExit, UnschedLock,
        SchedLock, queueVars
  <1>2. UNCHANGED <<pid_cur, procmap, current>>
    BY DEF ScanCpu, SchedWild, SchedBegin, TimerTick, NextLock, NextPanic, SyscallExit,
           UnschedLock, SchedLock
  <1>3. /\ \A d \in Cpus \ {c} : pc'[d] = pc[d]
        /\ pc'[c] \notin {"new", "assert_failed", "bury"}
        /\ pc'[c] \in Pushing <=> pc[c] \in Pushing
        /\ pc[c] # "bury"
    BY <1>0 DEF ScanCpu, SchedWild, SchedBegin, TimerTick, NextLock, NextPanic, SyscallExit,
                UnschedLock, SchedLock, Goto, Pushing
  <1>4. req'[c].pid = req[c].pid /\ \A d \in Cpus \ {c} : req'[d] = req[d]
    <2>1. CASE req' = req
      BY <2>1
    <2>2. CASE ScanCpu(c)
      BY <1>0, <2>2 DEF ScanCpu, Reqs
    <2>3. CASE \E q \in Cpus : SchedLock(c, q)
      BY <1>0, <2>3 DEF SchedLock, Reqs
    <2> QED BY <2>1, <2>2, <2>3
            DEF SchedWild, SchedBegin, TimerTick, NextLock, NextPanic, SyscallExit, UnschedLock
  <1> QED BY <1>1, <1>2, <1>3, <1>4, SafeQuiet

(* proc_new draws a pid that nobody has. *)
LEMMA SafeDraw ==
  ASSUME OneSpawner, TypeInv, Safe, Creator', NEW c \in Cpus, NEW prio \in Prios,
         pid_cur < MAXPID, DrawPid(c, prio), pc[c] \in {"kmain", "run"}
  PROVE  Safe'
  <1>0. /\ pc'[c] = "new" /\ req'[c].pid = pid_cur + 1 /\ pid_cur' = pid_cur + 1
        /\ \A d \in Cpus \ {c} : pc'[d] = pc[d] /\ req'[d] = req[d]
        /\ UNCHANGED <<active, inactive, procmap, current>>
        /\ pid_cur \in Nat /\ pid_cur + 1 \in Pids
    <2>1. req'[c] = [NoReq EXCEPT !.pid = pid_cur + 1, !.prio = prio]
      BY DEF DrawPid, TypeInv, TypeOK
    <2>2. req'[c].pid = pid_cur + 1
      BY <2>1 DEF NoReq
    <2>3. pid_cur \in Nat /\ pid_cur + 1 \in Pids
      BY SchedAssumption DEF TypeInv, TypeOK, Pids
    <2> QED BY <2>2, <2>3 DEF DrawPid, Goto, TypeInv, TypeOK, queueVars
  <1>1. \A d \in Cpus : /\ A(d)' = A(d) /\ I(d)' = I(d)
                        /\ pc'[d] \in Pushing => d # c /\ pc[d] \in Pushing
                        /\ pc'[d] = "bury" <=> pc[d] = "bury"
    BY <1>0 DEF A, I, Pushing
  <1>2. \A d \in Cpus : pc'[d] \notin Pushing /\ (pc'[d] = "new" => d = c)
    <2>1. \A d \in Cpus : pc'[d] \in Creating => d = c
      BY <1>0 DEF OneSpawner, Creator, Creating
    <2> QED BY <1>0, <2>1 DEF Creating, Pushing
  <1>3. Fresh'
    <2>1. procmap[pid_cur + 1] = NULL
      BY <1>0 DEF Safe, Mapped
    <2> QED BY <1>0, <1>2, <2>1 DEF Fresh
  <1>4. Mapped'
    BY <1>0 DEF Safe, Mapped, Pids
  <1>5. RunsOnOneCpu' /\ DistinctQueues'
    BY <1>0 DEF Safe, RunsOnOneCpu, DistinctQueues
  <1>6. QueuedMapped' /\ Apart'
    BY <1>0, <1>1 DEF Safe, QueuedMapped, Apart
  <1>7. Running'
    BY <1>0, <1>1 DEF Safe, Running
  <1>8. ActivateAssert'
    BY <1>0 DEF Safe, ActivateAssert
  <1>9. Kept'
    <2>1. \A d \in Cpus : pc[d] \notin Pushing
      BY <1>0, <1>2 DEF Pushing
    <2> QED BY <1>0, <1>1, <2>1 DEF Safe, Kept
  <1> QED BY <1>3, <1>4, <1>5, <1>6, <1>7, <1>8, <1>9 DEF Safe

(* The struct is stored under its own pid, because pid_cur has not moved. *)
LEMMA SafeNew ==
  ASSUME OneSpawner, Creator, TypeInv, Safe, NEW c \in Cpus, NewProc(c)
  PROVE  Safe'
  <1> DEFINE x == pid_cur
  <1>0. /\ pc[c] = "new" /\ req[c].pid = x /\ procmap[x] = NULL /\ x \in Pids /\ x \in Nat
        /\ x # NULL
    <2>1. pc[c] = "new" /\ req[c].pid \in 1..pid_cur /\ pid_cur \in 0..MAXPID
      BY DEF NewProc, TypeInv, TypeOK, LocalsOK
    <2> QED BY <2>1, SchedAssumption DEF Safe, Fresh, Pids, NULL
  <1>1. /\ pc'[c] = "scan" /\ req'[c].pid = x
        /\ \A d \in Cpus \ {c} : pc'[d] = pc[d] /\ req'[d] = req[d]
        /\ procmap'[x] = x /\ \A k \in Pids \ {x} : procmap'[k] = procmap[k]
        /\ UNCHANGED <<active, inactive, current, pid_cur>>
    <2>1. req \in [Cpus -> Reqs] /\ pc \in [Cpus -> Labels] /\ procmap \in [Pids -> 0..MAXPID]
      BY DEF TypeInv, TypeOK, Reqs
    <2>2. req'[c].pid = x /\ \A d \in Cpus \ {c} : req'[d] = req[d]
      BY <2>1 DEF NewProc, Reqs
    <2>3. procmap' = [procmap EXCEPT ![x] = x]
      BY <1>0 DEF NewProc
    <2> QED BY <1>0, <2>1, <2>2, <2>3 DEF NewProc, Goto, queueVars
  <1>2. \A d \in Cpus : A(d)' = A(d) /\ I(d)' = I(d) /\ x \notin A(d) /\ x \notin I(d) /\ current[d] # x
    BY <1>0, <1>1 DEF A, I, Safe, QueuedMapped, Running
  <1>3. \A d \in Cpus \ {c} : pc[d] \notin Creating
    BY <1>0, OneCreator DEF Creating
  <1> HIDE DEF x
  <1>4. Fresh'
    BY <1>1, <1>2, <1>3 DEF Fresh, Creating, Pushing, x
  <1>5. Mapped'
    <2>1. pid_cur' = x /\ ~(x > x) /\ Mapped
      BY <1>0, <1>1 DEF Safe, x
    <2>2. ASSUME NEW k \in Pids
          PROVE  procmap'[k] \in {NULL, k} /\ (k > x => procmap'[k] = NULL)
      BY <1>0, <1>1, <2>1 DEF Mapped, x
    <2> QED BY <2>1, <2>2 DEF Mapped
  <1>6. RunsOnOneCpu' /\ DistinctQueues'
    BY <1>1 DEF Safe, RunsOnOneCpu, DistinctQueues
  <1>7. QueuedMapped' /\ Apart'
    <2>1. \A d \in Cpus : A(d) \in SUBSET Pids /\ I(d) \in SUBSET Pids
      BY Typed
    <2>2. QueuedMapped'
      BY <1>1, <1>2, <2>1 DEF Safe, QueuedMapped
    <2>3. Apart'
      BY <1>1, <1>2, <2>1 DEF Safe, Apart
    <2> QED BY <2>2, <2>3
  <1>8. Running'
    <2>1. ASSUME NEW d \in Cpus, current[d] \in Pids
          PROVE  /\ procmap'[current[d]] = current[d]
                 /\ pc'[d] # "bury" => current[d] \in I(d)
                 /\ pc'[d] = "bury" => \A e \in Cpus : current[d] \notin A(e) /\ current[d] \notin I(e)
      <3>1. /\ procmap[current[d]] = current[d]
            /\ pc[d] # "bury" => current[d] \in I(d)
            /\ pc[d] = "bury" => \A e \in Cpus : current[d] \notin A(e) /\ current[d] \notin I(e)
        BY <2>1 DEF Safe, Running
      <3>2. pc'[d] = "bury" <=> pc[d] = "bury"
        BY <1>0, <1>1
      <3>3. procmap'[current[d]] = current[d]
        BY <1>1, <2>1, <3>1
      <3> QED BY <3>1, <3>2, <3>3
    <2> QED BY <1>1, <1>2, <2>1 DEF Running
  <1>9. ActivateAssert'
    BY <1>1 DEF Safe, ActivateAssert
  <1>10. Kept'
    <2>1. ASSUME NEW k \in Pids, procmap'[k] # NULL, k # x
          PROVE  \E d \in Cpus : \/ k \in A(d) \cup I(d)
                                 \/ pc[d] = "bury" /\ current[d] = k
      BY <1>0, <1>1, <1>3, <2>1 DEF Safe, Kept, Creating, Pushing
    <2> QED BY <1>0, <1>1, <1>2, <2>1 DEF Kept, Pushing
  <1> QED BY <1>4, <1>5, <1>6, <1>7, <1>8, <1>9, <1>10 DEF Safe

(* The locals schedule pushes with. *)
LEMMA PushArgs ==
  ASSUME TypeInv, NEW c \in Cpus, SchedPush(c)
  PROVE  req[c].cpu_min \in Cpus /\ req[c].pid \in Pids
  <1>1. pc[c] = "push"
    BY DEF SchedPush
  <1>2. req[c].cpu_min \in Cpus /\ req[c].pid \in 1..pid_cur
    BY <1>1 DEF TypeInv, LocalsOK
  <1>3. pid_cur \in 0..MAXPID /\ MAXPID \in Nat
    BY SchedAssumption DEF TypeInv, TypeOK
  <1> QED BY <1>2, <1>3 DEF Pids

(* schedule adds the new process to a queue. *)
LEMMA SafePush ==
  ASSUME OneSpawner, Creator, TypeInv, Safe, NEW c \in Cpus, SchedPush(c)
  PROVE  Safe'
  <1>0. PICK q \in Cpus, x \in Pids : q = req[c].cpu_min /\ x = req[c].pid
    BY PushArgs
  <1>1. /\ I(q)' = I(q) \cup {x}
        /\ \A d \in Cpus \ {q} : I(d)' = I(d)
        /\ \A d \in Cpus : A(d)' = A(d)
        /\ DistinctQueues'
    BY <1>0, PushEffect
  <1>2. /\ x = pid_cur /\ procmap[x] = x
        /\ \A d \in Cpus : x \notin A(d) /\ x \notin I(d) /\ current[d] # x
    BY <1>0 DEF SchedPush, Safe, Fresh, Pushing
  <1>3. /\ pc'[c] \in {"run", "kmain"} /\ pc[c] = "push"
        /\ \A d \in Cpus \ {c} : pc'[d] = pc[d] /\ req'[d] = req[d]
        /\ UNCHANGED <<procmap, current, pid_cur>>
    BY DEF SchedPush, Goto, TypeInv, TypeOK
  <1>4. \A d \in Cpus \ {c} : pc[d] \notin Creating
    BY <1>3, OneCreator DEF Creating
  <1>5. Fresh'
    BY <1>3, <1>4 DEF Fresh, Creating, Pushing
  <1>6. Mapped' /\ RunsOnOneCpu'
    BY <1>3 DEF Safe, Mapped, RunsOnOneCpu
  <1>7. QueuedMapped'
    BY <1>1, <1>2, <1>3 DEF Safe, QueuedMapped
  <1>8. Apart'
    BY <1>1, <1>2 DEF Safe, Apart
  <1>9. Running'
    BY <1>1, <1>2, <1>3 DEF Safe, Running
  <1>10. ActivateAssert'
    BY <1>3 DEF Safe, ActivateAssert
  <1>11. Kept'
    <2>1. ASSUME NEW k \in Pids, procmap[k] # NULL, k # x
          PROVE  \E d \in Cpus : \/ k \in A(d) \cup I(d)
                                 \/ pc[d] = "bury" /\ current[d] = k
      BY <1>0, <1>4, <2>1 DEF Safe, Kept, Creating, Pushing
    <2>2. ASSUME NEW k \in Pids, procmap[k] # NULL
          PROVE  \E d \in Cpus : \/ k \in (A(d) \cup I(d))'
                                 \/ pc'[d] = "bury" /\ current'[d] = k
      BY <1>1, <1>3, <2>1, <2>2
    <2> QED BY <1>3, <2>2 DEF Kept
  <1> QED BY <1>1, <1>5, <1>6, <1>7, <1>8, <1>9, <1>10, <1>11 DEF Safe

(* proc_next moves a process between the two queues of its CPU and runs it. *)
LEMMA SafePop ==
  ASSUME TypeInv, Safe, NEW c \in Cpus, NextPop(c) \/ NextSweep(c)
  PROVE  Safe'
  <1>0. /\ pc[c] = "pop" /\ UNCHANGED <<procmap, pid_cur, req>>
        /\ \A d \in Cpus \ {c} : pc'[d] = pc[d] /\ current'[d] = current[d]
    BY DEF NextPop, NextSweep, PopFrom, Goto, TypeInv, TypeOK
  <1>1. PICK x \in Pids :
           /\ x \in A(c) \cup I(c) /\ x \in I(c)' /\ x \notin A(c)'
           /\ (A(c) \cup I(c))' = A(c) \cup I(c) /\ A(c)' \cap I(c)' = {}
           /\ current'[c] = x /\ pc'[c] = "run"
           /\ \A d \in Cpus \ {c} : A(d)' = A(d) /\ I(d)' = I(d)
           /\ DistinctQueues'
    <2>1. CASE NextPop(c)
      <3>1. A(c) \cap I(c) = {}
        BY DEF Safe, Apart
      <3> QED BY <2>1, <3>1, PopEffect
    <2>2. CASE NextSweep(c)
      BY <2>2, SweepEffect
    <2> QED BY <2>1, <2>2
  <1>2. \A d \in Cpus : (A(d) \cup I(d))' = A(d) \cup I(d)
    BY <1>1
  <1>3. \A d \in Cpus \ {c} : x \notin A(d) /\ x \notin I(d) /\ current[d] # x
    <2>1. \A d \in Cpus \ {c} : x \notin A(d) /\ x \notin I(d)
      BY <1>1 DEF Safe, Apart
    <2> QED BY <1>1, <2>1 DEF Safe, Running
  <1>4. Fresh'
    <2>1. ASSUME NEW d \in Cpus, pc'[d] \in Pushing
          PROVE  /\ req'[d].pid = pid_cur' /\ procmap'[pid_cur'] = pid_cur'
                 /\ \A e \in Cpus : pid_cur' \notin A(e)' /\ pid_cur' \notin I(e)' /\ current'[e] # pid_cur'
      <3>1. pc[d] \in Pushing
        BY <1>0, <1>1, <2>1 DEF Pushing
      <3>2. /\ req[d].pid = pid_cur /\ procmap[pid_cur] = pid_cur
            /\ \A e \in Cpus : pid_cur \notin A(e) /\ pid_cur \notin I(e) /\ current[e] # pid_cur
        BY <3>1 DEF Safe, Fresh
      <3>3. x # pid_cur
        BY <1>1, <3>2
      <3>4. \A e \in Cpus : pid_cur \notin A(e)' /\ pid_cur \notin I(e)'
        BY <1>2, <3>2
      <3>5. \A e \in Cpus : current'[e] # pid_cur
        BY <1>0, <1>1, <3>2, <3>3
      <3> QED BY <1>0, <3>2, <3>4, <3>5
    <2> QED BY <1>0, <1>1, <2>1 DEF Safe, Fresh
  <1>5. Mapped'
    BY <1>0 DEF Safe, Mapped
  <1>6. QueuedMapped'
    BY <1>0, <1>2 DEF Safe, QueuedMapped
  <1>7. Apart'
    <2>1. ASSUME NEW d \in Cpus, NEW e \in Cpus, d # e
          PROVE  (A(d) \cup I(d))' \cap (A(e) \cup I(e))' = {}
      BY <1>2, <2>1 DEF Safe, Apart
    <2>2. ASSUME NEW d \in Cpus PROVE A(d)' \cap I(d)' = {}
      BY <1>1 DEF Safe, Apart
    <2> QED BY <2>1, <2>2 DEF Apart
  <1>8. Running'
    <2>1. procmap[x] = x
      BY <1>1 DEF Safe, QueuedMapped
    <2>2. ASSUME NEW d \in Cpus \ {c}, current[d] \in Pids
          PROVE  /\ procmap[current[d]] = current[d]
                 /\ pc[d] # "bury" => current[d] \in I(d)'
                 /\ pc[d] = "bury" => \A e \in Cpus : current[d] \notin A(e)' /\ current[d] \notin I(e)'
      <3>1. /\ procmap[current[d]] = current[d]
            /\ pc[d] # "bury" => current[d] \in I(d)
            /\ pc[d] = "bury" => \A e \in Cpus : current[d] \notin A(e) \cup I(e)
        BY <2>2 DEF Safe, Running
      <3>2. I(d)' = I(d)
        BY <1>1
      <3>3. \A e \in Cpus : current[d] \notin A(e) \cup I(e)
                            => current[d] \notin A(e)' /\ current[d] \notin I(e)'
        BY <1>2
      <3> QED BY <3>1, <3>2, <3>3
    <2> QED BY <1>0, <1>1, <2>1, <2>2 DEF Running
  <1>9. RunsOnOneCpu'
    BY <1>0, <1>1, <1>3 DEF Safe, RunsOnOneCpu
  <1>10. ActivateAssert'
    BY <1>0, <1>1 DEF Safe, ActivateAssert
  <1>11. Kept'
    <2>1. ASSUME NEW k \in Pids, procmap[k] # NULL
          PROVE  \E d \in Cpus : \/ k \in (A(d) \cup I(d))'
                                 \/ pc'[d] \in Pushing /\ req'[d].pid = k
                                 \/ pc'[d] = "bury" /\ current'[d] = k
      <3>1. PICK d \in Cpus : \/ k \in A(d) \cup I(d)
                              \/ pc[d] \in Pushing /\ req[d].pid = k
                              \/ pc[d] = "bury" /\ current[d] = k
        BY <2>1 DEF Safe, Kept
      <3>2. pc[d] \in Pushing \cup {"bury"} => d # c
        BY <1>0 DEF Pushing
      <3> QED BY <1>0, <1>2, <3>1, <3>2
    <2> QED BY <1>0, <2>1 DEF Kept
  <1> QED BY <1>1, <1>4, <1>5, <1>6, <1>7, <1>8, <1>9, <1>10, <1>11 DEF Safe

(* unschedule removes the running process from its queue, *)
LEMMA SafeRemove ==
  ASSUME TypeInv, Safe, NEW c \in Cpus, UnschedRemove(c)
  PROVE  Safe'
  <1>0. PICK x \in Pids : x = current[c]
    BY RemoveEffect
  <1>1. /\ x \in I(c) /\ I(c)' = I(c) \ {x}
        /\ \A d \in Cpus : A(d)' = A(d)
        /\ \A d \in Cpus \ {c} : I(d)' = I(d)
        /\ DistinctQueues'
    BY <1>0, RemoveEffect
  <1>2. /\ pc[c] = "remove" /\ pc'[c] = "bury" /\ \A d \in Cpus \ {c} : pc'[d] = pc[d]
        /\ UNCHANGED <<procmap, pid_cur, req, current>>
    BY DEF UnschedRemove, Goto, TypeInv, TypeOK
  <1>3. \A d \in Cpus : I(d)' \subseteq I(d) /\ x \notin A(d)' /\ x \notin I(d)'
    BY <1>1 DEF Safe, Apart
  <1>4. Fresh'
    <2>1. \A d \in Cpus : /\ pc'[d] = "new" => pc[d] = "new"
                          /\ pc'[d] \in Pushing => pc[d] \in Pushing
      BY <1>2 DEF Pushing
    <2>2. \A d \in Cpus : A(d)' = A(d) /\ I(d)' \subseteq I(d)
      BY <1>1, <1>3
    <2>3. Fresh
      BY DEF Safe
    <2>4. ASSUME NEW d \in Cpus, pc'[d] = "new"
          PROVE  req[d].pid = pid_cur /\ procmap[pid_cur] = NULL
      BY <2>1, <2>3, <2>4 DEF Fresh
    <2>5. ASSUME NEW d \in Cpus, pc'[d] \in Pushing
          PROVE  /\ req[d].pid = pid_cur /\ procmap[pid_cur] = pid_cur
                 /\ \A e \in Cpus : pid_cur \notin A(e)' /\ pid_cur \notin I(e)' /\ current[e] # pid_cur
      <3>1. pc[d] \in Pushing
        BY <2>1, <2>5
      <3>2. /\ req[d].pid = pid_cur /\ procmap[pid_cur] = pid_cur
            /\ \A e \in Cpus : pid_cur \notin A(e) /\ pid_cur \notin I(e) /\ current[e] # pid_cur
        BY <2>3, <3>1 DEF Fresh
      <3> QED BY <2>2, <3>2
    <2> QED BY <1>2, <2>4, <2>5 DEF Fresh
  <1>5. Mapped' /\ RunsOnOneCpu'
    BY <1>2 DEF Safe, Mapped, RunsOnOneCpu
  <1>6. QueuedMapped' /\ Apart'
    <2>1. QueuedMapped'
      <3>1. QueuedMapped /\ procmap' = procmap
        BY <1>2 DEF Safe
      <3>2. \A d \in Cpus : (A(d) \cup I(d))' \subseteq A(d) \cup I(d)
        BY <1>1, <1>3
      <3> QED BY <3>1, <3>2 DEF QueuedMapped
    <2>2. Apart'
      <3>1. Apart /\ \A d \in Cpus : A(d)' = A(d) /\ I(d)' \subseteq I(d)
        BY <1>1, <1>3 DEF Safe
      <3> QED BY <3>1 DEF Apart
    <2> QED BY <2>1, <2>2
  <1>7. Running'
    <2>1. ASSUME NEW d \in Cpus \ {c}, current[d] \in Pids
          PROVE  /\ procmap[current[d]] = current[d]
                 /\ pc[d] # "bury" => current[d] \in I(d)'
                 /\ pc[d] = "bury" => \A e \in Cpus : current[d] \notin A(e)' /\ current[d] \notin I(e)'
      BY <1>1, <1>3, <2>1 DEF Safe, Running
    <2> QED BY <1>0, <1>2, <1>3, <2>1 DEF Safe, Running
  <1>8. ActivateAssert'
    BY <1>2 DEF Safe, ActivateAssert
  <1>9. Kept'
    <2>1. ASSUME NEW k \in Pids, procmap[k] # NULL
          PROVE  \E d \in Cpus : \/ k \in (A(d) \cup I(d))'
                                 \/ pc'[d] \in Pushing /\ req'[d].pid = k
                                 \/ pc'[d] = "bury" /\ current'[d] = k
      <3>1. CASE k = x
        BY <1>0, <1>2, <3>1
      <3>2. CASE k # x
        <4>1. PICK d \in Cpus : \/ k \in A(d) \cup I(d)
                                \/ pc[d] \in Pushing /\ req[d].pid = k
                                \/ pc[d] = "bury" /\ current[d] = k
          BY <2>1 DEF Safe, Kept
        <4>2. k \in A(d) \cup I(d) => k \in (A(d) \cup I(d))'
          BY <1>1, <3>2
        <4>3. pc[d] \in Pushing \cup {"bury"} => pc'[d] = pc[d]
          BY <1>2 DEF Pushing
        <4> QED BY <1>2, <4>1, <4>2, <4>3
      <3> QED BY <3>1, <3>2
    <2> QED BY <1>2, <2>1 DEF Kept
  <1> QED BY <1>1, <1>4, <1>5, <1>6, <1>7, <1>8, <1>9 DEF Safe

(* and map_del then removes it from procmap. *)
LEMMA SafeBury ==
  ASSUME TypeInv, Safe, NEW c \in Cpus, Bury(c)
  PROVE  Safe'
  <1>0. PICK x \in Pids : x = current[c] /\ procmap[x] = x
    BY DEF Bury, TypeInv, LocalsOK, Safe, Running
  <1>1. /\ pc[c] = "bury" /\ pc'[c] = "next" /\ current'[c] = NULL
        /\ \A d \in Cpus \ {c} : pc'[d] = pc[d] /\ current'[d] = current[d]
        /\ procmap'[x] = NULL /\ \A k \in Pids \ {x} : procmap'[k] = procmap[k]
        /\ UNCHANGED <<active, inactive, pid_cur, req>>
    BY <1>0 DEF Bury, Goto, TypeInv, TypeOK, queueVars
  <1>2. \A d \in Cpus : A(d)' = A(d) /\ I(d)' = I(d) /\ x \notin A(d) /\ x \notin I(d)
    BY <1>0, <1>1 DEF Safe, Running, A, I
  <1>3. \A d \in Cpus \ {c} : current[d] # x
    BY <1>0 DEF Safe, RunsOnOneCpu
  <1>4. NULL \notin Pids
    BY DEF NULL, Pids
  <1>5. Fresh'
    <2>1. ASSUME NEW d \in Cpus, pc'[d] = "new" PROVE req[d].pid = pid_cur /\ procmap'[pid_cur] = NULL
      <3>1. d # c /\ pc[d] = "new"
        BY <1>1, <2>1
      <3>2. req[d].pid = pid_cur /\ pid_cur \in Pids /\ procmap[pid_cur] = NULL
        <4>1. req[d].pid \in 1..pid_cur /\ pid_cur \in 0..MAXPID
          BY <3>1 DEF TypeInv, TypeOK, LocalsOK
        <4> QED BY <3>1, <4>1, SchedAssumption DEF Safe, Fresh, Pids
      <3> QED BY <1>1, <3>2
    <2>2. ASSUME NEW d \in Cpus, pc'[d] \in Pushing
          PROVE  /\ req[d].pid = pid_cur /\ procmap'[pid_cur] = pid_cur
                 /\ \A e \in Cpus : pid_cur \notin A(e) /\ pid_cur \notin I(e) /\ current'[e] # pid_cur
      <3>1. pc[d] \in Pushing
        BY <1>1, <2>2 DEF Pushing
      <3>2. /\ req[d].pid = pid_cur /\ procmap[pid_cur] = pid_cur
            /\ \A e \in Cpus : pid_cur \notin A(e) /\ pid_cur \notin I(e) /\ current[e] # pid_cur
        BY <3>1 DEF Safe, Fresh
      <3>3. pid_cur \in Pids
        <4>1. req[d].pid \in 1..pid_cur /\ pid_cur \in 0..MAXPID
          BY <3>1 DEF TypeInv, TypeOK, LocalsOK, Pushing
        <4> QED BY <4>1, SchedAssumption DEF Pids
      <3> QED BY <1>0, <1>1, <1>4, <3>2, <3>3
    <2> QED BY <1>1, <1>2, <2>1, <2>2 DEF Fresh
  <1>6. Mapped'
    BY <1>1 DEF Safe, Mapped
  <1>7. QueuedMapped' /\ Apart' /\ DistinctQueues'
    <2>1. \A d \in Cpus : A(d) \in SUBSET Pids /\ I(d) \in SUBSET Pids
      BY Typed
    <2> QED BY <1>1, <1>2, <2>1 DEF Safe, QueuedMapped, Apart, DistinctQueues
  <1>8. Running' /\ RunsOnOneCpu'
    <2>1. Running'
      <3>1. ASSUME NEW d \in Cpus, current'[d] \in Pids
            PROVE  /\ procmap'[current'[d]] = current'[d]
                   /\ pc'[d] # "bury" => current'[d] \in I(d)
                   /\ pc'[d] = "bury" => \A e \in Cpus : current'[d] \notin A(e) /\ current'[d] \notin I(e)
        <4>1. d # c
          BY <1>1, <1>4, <3>1
        <4>2. pc'[d] = pc[d] /\ current'[d] = current[d] /\ current[d] \in Pids \ {x}
          BY <1>1, <1>3, <3>1, <4>1
        <4>3. procmap'[current[d]] = procmap[current[d]]
          BY <1>1, <4>2
        <4> QED BY <4>2, <4>3 DEF Safe, Running
      <3> QED BY <1>2, <3>1 DEF Running
    <2>2. RunsOnOneCpu'
      BY <1>1, <1>2, <1>3, <1>4 DEF Safe, RunsOnOneCpu
    <2> QED BY <2>1, <2>2
  <1>9. ActivateAssert'
    BY <1>1 DEF Safe, ActivateAssert
  <1>10. Kept'
    <2>1. ASSUME NEW k \in Pids, procmap'[k] # NULL
          PROVE  \E d \in Cpus : \/ k \in A(d) \cup I(d)
                                 \/ pc'[d] \in Pushing /\ req[d].pid = k
                                 \/ pc'[d] = "bury" /\ current'[d] = k
      <3>1. k # x /\ procmap[k] # NULL
        BY <1>1, <2>1
      <3>2. PICK d \in Cpus : \/ k \in A(d) \cup I(d)
                              \/ pc[d] \in Pushing /\ req[d].pid = k
                              \/ pc[d] = "bury" /\ current[d] = k
        BY <3>1 DEF Safe, Kept
      <3>3. CASE d = c
        BY <1>0, <1>1, <3>1, <3>2, <3>3 DEF Pushing
      <3>4. CASE d # c
        BY <1>1, <3>2, <3>4
      <3> QED BY <3>3, <3>4
    <2> QED BY <1>1, <1>2, <2>1 DEF Kept
  <1> QED BY <1>5, <1>6, <1>7, <1>8, <1>9, <1>10 DEF Safe

-----------------------------------------------------------------------------
SafeInv == TypeInv /\ Creator /\ Safe

LEMMA InitSafe == Init => SafeInv
  <1> SUFFICES ASSUME Init PROVE SafeInv
    OBVIOUS
  <1>1. \A c \in Cpus : /\ pc[c] \in {"kmain", "run"} /\ (pc[c] = "kmain" => c = 0)
                        /\ active[c] = EmptyQueue /\ inactive[c] = EmptyQueue
                        /\ current[c] = KPROC
    BY DEF Init
  <1>2. \A c \in Cpus : A(c) = {} /\ I(c) = {} /\ Distinct(active[c]) /\ Distinct(inactive[c])
    BY <1>1, EmptyFacts DEF A, I
  <1>3. KPROC \notin Pids /\ \A k \in Pids : procmap[k] = NULL
    BY DEF Init, KPROC, Pids
  <1>4. Creator
    BY <1>1 DEF Init, Creator, Creating
  <1>5. Fresh /\ Mapped /\ QueuedMapped /\ DistinctQueues /\ Apart /\ Running
    BY <1>1, <1>2, <1>3
    DEF Fresh, Mapped, QueuedMapped, DistinctQueues, Apart, Running, Pushing
  <1>6. RunsOnOneCpu /\ ActivateAssert /\ Kept
    BY <1>1, <1>3 DEF RunsOnOneCpu, ActivateAssert, Kept
  <1> QED BY <1>4, <1>5, <1>6, InitTypeInv DEF SafeInv, Safe

LEMMA NextSafe == ASSUME OneSpawner, SafeInv, [Next]_vars PROVE SafeInv'
  <1>1. TypeInv' /\ Creator'
    BY NextTypeInv, NextCreator DEF SafeInv
  <1>2. TypeInv /\ Creator /\ Safe
    BY DEF SafeInv
  <1>3. CASE UNCHANGED vars
    <2>1. \A c \in Cpus : A(c)' = A(c) /\ I(c)' = I(c)
      BY <1>3 DEF vars, A, I
    <2>2. Fresh' /\ Mapped' /\ QueuedMapped'
      BY <1>2, <1>3, <2>1 DEF vars, Safe, Fresh, Mapped, QueuedMapped
    <2>3. DistinctQueues' /\ Apart' /\ Running'
      <3>1. DistinctQueues'
        BY <1>2, <1>3 DEF vars, Safe, DistinctQueues
      <3>2. Apart'
        BY <1>2, <2>1 DEF Safe, Apart
      <3>3. Running'
        BY <1>2, <1>3, <2>1 DEF vars, Safe, Running
      <3> QED BY <3>1, <3>2, <3>3
    <2>4. RunsOnOneCpu' /\ ActivateAssert' /\ Kept'
      BY <1>2, <1>3, <2>1 DEF vars, Safe, RunsOnOneCpu, ActivateAssert, Kept
    <2> QED BY <1>1, <2>2, <2>3, <2>4 DEF SafeInv, Safe
  <1>4. ASSUME NEW c \in Cpus, BootNew(c) \/ \E prio \in Prios : LateNew(c, prio) PROVE Safe'
    <2>1. CASE BootNew(c)
      <3>1. pid_cur \in Nat /\ pid_cur + 1 \in 1..Len(BootPrios) /\ pid_cur < MAXPID
        BY <1>2, <2>1, SchedAssumption DEF BootNew, TypeInv, TypeOK
      <3>2. BootPrios[pid_cur + 1] \in Prios
        BY <3>1, SchedAssumption, ElementOfSeq
      <3> QED BY <1>1, <1>2, <2>1, <3>1, <3>2, SafeDraw DEF BootNew
    <2>2. CASE \E prio \in Prios : LateNew(c, prio)
      BY <1>1, <1>2, <2>2, SafeDraw DEF LateNew
    <2> QED BY <1>4, <2>1, <2>2
  <1>5. Next => Safe'
    BY <1>2, <1>4, QuietSteps, SafeNew, SafePush, SafePop, SafeRemove, SafeBury
    DEF Next, Creation, Switch, Exit
  <1> QED BY <1>1, <1>3, <1>5 DEF SafeInv

LEMMA AlwaysSafe == ASSUME OneSpawner PROVE Spec => []SafeInv
  <1>1. SafeInv /\ [Next]_vars => SafeInv'
    BY NextSafe
  <1> QED BY InitSafe, <1>1, PTL DEF Spec

(* No node is duplicated: proc_next and unschedule never leave a pid in two
   places, however they interleave with schedule on another CPU. *)
THEOREM NoDuplicates == ASSUME OneSpawner PROVE Spec => []OnePlace
  <1>1. SafeInv => OnePlace
    <2> SUFFICES ASSUME SafeInv PROVE OnePlace
      OBVIOUS
    <2>1. ASSUME NEW c \in Cpus, NEW p \in Prios
          PROVE  /\ \A i \in DOMAIN active[c][p] : active[c][p][i] \in A(c)
                 /\ \A i \in DOMAIN inactive[c][p] : inactive[c][p][i] \in I(c)
      BY Member DEF A, I
    <2>2. ASSUME NEW c \in Cpus, NEW d \in Cpus, NEW p \in Prios, NEW r \in Prios
          PROVE  /\ \A i \in DOMAIN active[c][p], j \in DOMAIN active[d][r] :
                      active[c][p][i] = active[d][r][j] => c = d /\ p = r /\ i = j
                 /\ \A i \in DOMAIN inactive[c][p], j \in DOMAIN inactive[d][r] :
                      inactive[c][p][i] = inactive[d][r][j] => c = d /\ p = r /\ i = j
                 /\ \A i \in DOMAIN active[c][p], j \in DOMAIN inactive[d][r] :
                      active[c][p][i] # inactive[d][r][j]
      <3>1. CASE c = d
        <4>1. Distinct(active[c]) /\ Distinct(inactive[c]) /\ A(c) \cap I(c) = {}
          BY DEF SafeInv, Safe, DistinctQueues, Apart
        <4>2. \A i \in DOMAIN active[c][p], j \in DOMAIN active[c][r] :
                active[c][p][i] = active[c][r][j] => p = r /\ i = j
          BY <4>1 DEF Distinct
        <4>3. \A i \in DOMAIN inactive[c][p], j \in DOMAIN inactive[c][r] :
                inactive[c][p][i] = inactive[c][r][j] => p = r /\ i = j
          BY <4>1 DEF Distinct
        <4>4. \A i \in DOMAIN active[c][p], j \in DOMAIN inactive[d][r] :
                active[c][p][i] # inactive[d][r][j]
          BY <2>1, <3>1, <4>1
        <4> QED BY <3>1, <4>2, <4>3, <4>4
      <3>2. CASE c # d
        <4>1. A(c) \cap A(d) = {} /\ I(c) \cap I(d) = {} /\ A(c) \cap I(d) = {}
          BY <3>2 DEF SafeInv, Safe, Apart
        <4> QED BY <2>1, <4>1
      <3> QED BY <3>1, <3>2
    <2> QED BY <2>2 DEF OnePlace
  <1> QED BY <1>1, AlwaysSafe, PTL

(* No process is executed by two CPUs at once. *)
THEOREM OneCpuEach == ASSUME OneSpawner PROVE Spec => []RunsOnOneCpu
  <1>1. SafeInv => RunsOnOneCpu
    BY DEF SafeInv, Safe
  <1> QED BY <1>1, AlwaysSafe, PTL

(* unschedule on the CPU of the process finds its node in the inactive queue. *)
THEOREM RunsFromInactive == ASSUME OneSpawner PROVE Spec => []RunsWhereQueued
  <1>1. SafeInv => RunsWhereQueued
    BY DEF SafeInv, Safe, Running, RunsWhereQueued, I
  <1> QED BY <1>1, AlwaysSafe, PTL

(* The assertion of proc_activate holds. *)
THEOREM AssertHolds == ASSUME OneSpawner PROVE Spec => []ActivateAssert
  <1>1. SafeInv => ActivateAssert
    BY DEF SafeInv, Safe
  <1> QED BY <1>1, AlwaysSafe, PTL

(* A process that has been created stays reachable for the scheduler until it
   exits. *)
THEOREM NobodyLost == ASSUME OneSpawner PROVE Spec => []NothingLost
  <1>1. SafeInv => NothingLost
    BY DEF SafeInv, Safe, Kept, NothingLost, Queued, A, I, Pushing
  <1> QED BY <1>1, AlwaysSafe, PTL

-----------------------------------------------------------------------------
(* The refinement: each step of the scheduler is a step of Sweep or leaves its
   variables alone. *)
P == [c \in Cpus |-> Members(active[c])]
S == [c \in Cpus |-> Members(inactive[c])]

LEMMA SameSweep ==
  ASSUME SameQueues, current' = current
  PROVE  UNCHANGED Sweeps!vars
  BY DEF SameQueues, A, I, Sweeps!vars

LEMMA SweepAdd ==
  ASSUME TypeInv, Safe, NEW c \in Cpus, SchedPush(c)
  PROVE  Sweeps!Next
  <1>0. PICK q \in Cpus, x \in Pids : q = req[c].cpu_min /\ x = req[c].pid
    BY PushArgs
  <1>1. /\ I(q)' = I(q) \cup {x}
        /\ \A d \in Cpus \ {q} : I(d)' = I(d)
        /\ \A d \in Cpus : A(d)' = A(d)
    BY <1>0, PushEffect
  <1>2. \A d \in Cpus : x \notin A(d) /\ x \notin I(d)
    BY <1>0 DEF SchedPush, Safe, Fresh, Pushing
  <1>3. x \notin Sweeps!Known
    BY <1>2 DEF Sweeps!Known, Sweeps!Owned, A, I
  <1>4. S' = [S EXCEPT ![q] = @ \cup {x}] /\ P' = P
    BY <1>1 DEF S, P, A, I
  <1>5. Sweeps!Add(q, x)
    BY <1>3, <1>4 DEF Sweeps!Add, SchedPush, S, P
  <1> QED BY <1>5 DEF Sweeps!Next

LEMMA SweepPop ==
  ASSUME TypeInv, Safe, NEW c \in Cpus, NextPop(c) \/ NextSweep(c)
  PROVE  Sweeps!Next
  <1>0. \A d \in Cpus \ {c} : current'[d] = current[d]
    BY DEF NextPop, NextSweep, PopFrom, TypeInv, TypeOK
  <1>1. current \in [Cpus -> Pids \cup {NULL, KPROC}] /\ \E x : current' = [current EXCEPT ![c] = x]
    BY DEF NextPop, NextSweep, PopFrom, TypeInv, TypeOK
  <1>2. CASE NextPop(c)
    <2>1. PICK x \in Pids : /\ x \in A(c) /\ A(c)' = A(c) \ {x} /\ I(c)' = I(c) \cup {x}
                            /\ current'[c] = x
                            /\ \A d \in Cpus \ {c} : A(d)' = A(d) /\ I(d)' = I(d)
      BY <1>2, PopEffect
    <2>2. /\ x \in P[c] /\ P' = [P EXCEPT ![c] = @ \ {x}] /\ S' = [S EXCEPT ![c] = @ \cup {x}]
      BY <2>1 DEF P, S, A, I
    <2>3. current' = [current EXCEPT ![c] = x]
      BY <1>1, <2>1
    <2>4. Sweeps!Dispatch(c, x)
      BY <2>2, <2>3 DEF Sweeps!Dispatch, P, S
    <2> QED BY <2>4 DEF Sweeps!Next
  <1>3. CASE NextSweep(c)
    <2>1. PICK x \in Pids : /\ A(c) = {} /\ x \in I(c) /\ A(c)' = I(c) \ {x} /\ I(c)' = {x}
                            /\ current'[c] = x
                            /\ \A d \in Cpus \ {c} : A(d)' = A(d) /\ I(d)' = I(d)
      BY <1>3, SweepEffect
    <2>2. /\ P[c] = {} /\ x \in S[c]
          /\ P' = [P EXCEPT ![c] = S[c] \ {x}] /\ S' = [S EXCEPT ![c] = {x}]
      BY <2>1 DEF P, S, A, I
    <2>3. current' = [current EXCEPT ![c] = x]
      BY <1>1, <2>1
    <2>4. Sweeps!NewSweep(c, x)
      BY <2>2, <2>3 DEF Sweeps!NewSweep, P, S
    <2> QED BY <2>4 DEF Sweeps!Next
  <1> QED BY <1>2, <1>3

LEMMA SweepRetire ==
  ASSUME TypeInv, Safe, NEW c \in Cpus, UnschedRemove(c)
  PROVE  Sweeps!Next
  <1>0. PICK x \in Pids : x = current[c]
    BY RemoveEffect
  <1>1. /\ x \in I(c) /\ x \notin A(c) /\ I(c)' = I(c) \ {x}
        /\ \A d \in Cpus : A(d)' = A(d)
        /\ \A d \in Cpus \ {c} : I(d)' = I(d)
    BY <1>0, RemoveEffect DEF Safe, Apart
  <1>2. /\ P' = [P EXCEPT ![c] = @ \ {x}] /\ S' = [S EXCEPT ![c] = @ \ {x}]
    BY <1>1 DEF P, S, A, I
  <1>3. current[c] \in Sweeps!Owned(c) /\ current' = current
    BY <1>0, <1>1 DEF Sweeps!Owned, I, UnschedRemove
  <1>4. Sweeps!Retire(c)
    BY <1>0, <1>2, <1>3 DEF Sweeps!Retire, P, S
  <1> QED BY <1>4 DEF Sweeps!Next

LEMMA SweepLeave ==
  ASSUME TypeInv, Safe, NEW c \in Cpus, Bury(c)
  PROVE  Sweeps!Next
  <1>1. current[c] \in Pids
    BY DEF Bury, TypeInv, LocalsOK
  <1>2. current[c] \notin Sweeps!Owned(c)
    BY <1>1 DEF Bury, Safe, Running, A, I, Sweeps!Owned
  <1>3. active' = active /\ inactive' = inactive /\ current' = [current EXCEPT ![c] = NULL]
    BY DEF Bury, queueVars
  <1>4. Sweeps!Leave(c)
    BY <1>2, <1>3 DEF Sweeps!Leave
  <1> QED BY <1>4 DEF Sweeps!Next

(* The scheduler implements the sweeps: a process is given the CPU at most once
   per sweep, and a sweep ends only when all the processes of the CPU have been
   served, whatever schedule, proc_next and unschedule do meanwhile. *)
THEOREM ImplementsSweeps == ASSUME OneSpawner PROVE Spec => ImplementsSweep
  <1>1. Init => Sweeps!Init
    <2> SUFFICES ASSUME Init PROVE Sweeps!Init
      OBVIOUS
    <2>1. \A c \in Cpus : Members(active[c]) = {} /\ Members(inactive[c]) = {}
      BY EmptyFacts DEF Init
    <2>2. current \in [Cpus -> {NULL, KPROC}]
      BY DEF Init
    <2> QED BY <2>1, <2>2 DEF Sweeps!Init
  <1>2. SafeInv /\ [Next]_vars => [Sweeps!Next]_(Sweeps!vars)
    <2> SUFFICES ASSUME SafeInv, [Next]_vars PROVE [Sweeps!Next]_(Sweeps!vars)
      OBVIOUS
    <2>0. TypeInv /\ Safe
      BY DEF SafeInv
    <2>1. ASSUME UNCHANGED <<active, inactive, current>> PROVE UNCHANGED Sweeps!vars
      BY <2>1 DEF Sweeps!vars
    <2>2. ASSUME NEW c \in Cpus, NextPanic(c) PROVE UNCHANGED Sweeps!vars
      BY <2>0, <2>2, PanicEffect, SameSweep DEF NextPanic
    <2> QED BY <2>0, <2>1, <2>2, SweepAdd, SweepPop, SweepRetire, SweepLeave
            DEF Next, Creation, Switch, Exit, BootNew, LateNew, DrawPid, NewProc, ScanCpu, SchedLock,
                SchedWild, SchedBegin, TimerTick, NextLock, SyscallExit, UnschedLock, queueVars, vars
  <1> QED BY <1>1, <1>2, AlwaysSafe, PTL DEF Spec, ImplementsSweep, Sweeps!Spec

-----------------------------------------------------------------------------
(* The counter and the nodes.  A queue without duplicates has as many nodes as
   members. *)
LEMMA PlacesCounted ==
  ASSUME NEW q \in Queues(Pids), Distinct(q)
  PROVE  Cardinality(Places(q)) = Cardinality(Members(q))
  <1> DEFINE f == [x \in Places(q) |-> q[x[1]][x[2]]]
  <1>1. \A x \in Places(q) : x[1] \in Prios /\ x[2] \in DOMAIN q[x[1]] /\ x = <<x[1], x[2]>>
    BY DEF Places
  <1>2. \A p \in Prios : \A i \in DOMAIN q[p] : <<p, i>> \in Places(q)
    BY DEF Places
  <1>3. \A x \in Places(q) : f[x] \in Members(q)
    BY <1>1, Member
  <1>4. ASSUME NEW x \in Places(q), NEW y \in Places(q), f[x] = f[y] PROVE x = y
    <2>1. x[1] = y[1] /\ x[2] = y[2]
      BY <1>1, <1>4 DEF Distinct
    <2> QED BY <1>1, <2>1
  <1>5. \A m \in Members(q) : \E x \in Places(q) : f[x] = m
    <2> SUFFICES ASSUME NEW m \in Members(q) PROVE \E x \in Places(q) : f[x] = m
      OBVIOUS
    <2>1. PICK p \in Prios : \E i \in DOMAIN q[p] : q[p][i] = m
      BY Member
    <2>2. PICK i \in DOMAIN q[p] : q[p][i] = m
      BY <2>1
    <2>3. <<p, i>> \in Places(q) /\ f[<<p, i>>] = m
      BY <1>2, <2>2
    <2> QED BY <2>3
  <1> HIDE DEF f
  <1>6. f \in [Places(q) -> Members(q)]
    BY <1>3 DEF f
  <1>7. f \in Injection(Places(q), Members(q)) /\ f \in Surjection(Places(q), Members(q))
    BY <1>4, <1>5, <1>6 DEF Injection, IsInjective, Surjection
  <1>8. IsFiniteSet(Members(q))
    <2>1. IsFiniteSet(Pids) /\ Members(q) \in SUBSET Pids
      BY SchedAssumption, FS_Interval, MembersTyped DEF Pids
    <2> QED BY <2>1, FS_Subset
  <1> QED BY <1>7, <1>8, FS_Injection

LEMMA NodesAre ==
  ASSUME TypeInv, DistinctQueues, NEW c \in Cpus
  PROVE  Nodes(c) = Cardinality(A(c)) + Cardinality(I(c))
  <1>1. active[c] \in Queues(Pids) /\ inactive[c] \in Queues(Pids)
    BY Typed
  <1>2. Distinct(active[c]) /\ Distinct(inactive[c])
    BY DEF DistinctQueues
  <1>3. /\ Cardinality(Places(active[c])) = Cardinality(A(c))
        /\ Cardinality(Places(inactive[c])) = Cardinality(I(c))
    BY <1>1, <1>2, PlacesCounted DEF A, I
  <1> QED BY <1>3 DEF Nodes

LEMMA NodesBecome ==
  ASSUME TypeInv', DistinctQueues', NEW c \in Cpus
  PROVE  Nodes(c)' = Cardinality(A(c)') + Cardinality(I(c)')
  <1>1. active'[c] \in Queues(Pids) /\ inactive'[c] \in Queues(Pids)
    BY DEF TypeInv, TypeOK, Queues
  <1>2. Distinct(active'[c]) /\ Distinct(inactive'[c])
    BY DEF DistinctQueues
  <1>3. /\ Cardinality(Places(active'[c])) = Cardinality(A(c)')
        /\ Cardinality(Places(inactive'[c])) = Cardinality(I(c)')
    BY <1>1, <1>2, PlacesCounted DEF A, I
  <1> QED BY <1>3 DEF Nodes

LEMMA SetsCounted ==
  ASSUME TypeInv, NEW c \in Cpus
  PROVE  /\ IsFiniteSet(A(c)) /\ Cardinality(A(c)) \in Nat
         /\ IsFiniteSet(I(c)) /\ Cardinality(I(c)) \in Nat
  <1>1. IsFiniteSet(Pids) /\ A(c) \in SUBSET Pids /\ I(c) \in SUBSET Pids
    BY Typed, SchedAssumption, FS_Interval DEF Pids
  <1>2. IsFiniteSet(A(c)) /\ IsFiniteSet(I(c))
    BY <1>1, FS_Subset
  <1> QED BY <1>2, FS_CardinalityType

LEMMA AddOne ==
  ASSUME NEW V, IsFiniteSet(V), NEW x, x \notin V, NEW U, U = V \cup {x}
  PROVE  Cardinality(U) = Cardinality(V) + 1
  BY FS_AddElement

LEMMA TakeOne ==
  ASSUME NEW V, IsFiniteSet(V), NEW x \in V, NEW U, U = V \ {x}
  PROVE  Cardinality(U) = Cardinality(V) - 1
  BY FS_RemoveElement

(* Counting up or down in a word of NWRAP values moves by one modulo NWRAP. *)
LEMMA Counted ==
  ASSUME NEW k \in 0..(NWRAP - 1)
  PROVE  /\ (((k + 1) % NWRAP) - k) % NWRAP = 1 % NWRAP
         /\ (((k - 1) % NWRAP) - k) % NWRAP = (-1) % NWRAP
  <1> DEFINE W == NWRAP
  <1>0. W \in Nat /\ W > 1
    BY SchedAssumption
  <1> HIDE DEF W
  <1>1. ASSUME NEW a \in 0..(W - 1) PROVE a % W = a /\ (a - W) % W = a /\ (a + W) % W = a
    BY <1>0, <1>1
  <1>2. k \in 0..(W - 1)
    BY DEF W
  <1>3. 1 % W = 1 /\ (1 - W) % W = 1 /\ (-1) % W = W - 1 /\ (W - 1) % W = W - 1
    <2>1. (-1) = (W - 1) - W /\ 1 \in 0..(W - 1) /\ W - 1 \in 0..(W - 1)
      BY <1>0
    <2> QED BY <1>1, <2>1
  <1>4. (((k + 1) % W) - k) % W = 1 % W
    <2>1. CASE k + 1 < W
      <3>1. k + 1 \in 0..(W - 1) /\ (k + 1) - k = 1
        BY <1>0, <1>2, <2>1
      <3> QED BY <1>1, <3>1
    <2>2. CASE k + 1 = W
      <3>1. (k + 1) % W = 0 /\ 0 - k = 1 - W
        <4>1. 0 \in 0..(W - 1) /\ k + 1 = 0 + W /\ 0 - k = 1 - W
          BY <1>0, <1>2, <2>2
        <4> QED BY <1>1, <4>1
      <3> QED BY <1>3, <3>1
    <2> QED BY <1>0, <1>2, <2>1, <2>2
  <1>5. (((k - 1) % W) - k) % W = (-1) % W
    <2>1. CASE k > 0
      <3>1. k - 1 \in 0..(W - 1) /\ (k - 1) - k = -1
        BY <1>0, <1>2, <2>1
      <3> QED BY <1>1, <3>1
    <2>2. CASE k = 0
      <3>1. (k - 1) % W = W - 1 /\ (W - 1) - k = W - 1
        BY <1>0, <1>3, <2>2
      <3> QED BY <1>3, <3>1
    <2> QED BY <1>0, <1>2, <2>1, <2>2
  <1> QED BY <1>4, <1>5 DEF W

Moved(c) == (n'[c] - n[c]) % NWRAP = (Nodes(c)' - Nodes(c)) % NWRAP

LEMMA CountKept ==
  ASSUME TypeInv, TypeInv', DistinctQueues, DistinctQueues', NEW c \in Cpus, n'[c] = n[c],
         Cardinality(A(c)') + Cardinality(I(c)') = Cardinality(A(c)) + Cardinality(I(c))
  PROVE  Moved(c)
  <1>1. n[c] \in Nat
    BY SchedAssumption DEF TypeInv, TypeOK
  <1>2. Nodes(c)' = Nodes(c) /\ Nodes(c) \in Nat
    BY NodesAre, NodesBecome, SetsCounted
  <1>3. n'[c] - n[c] = 0 /\ Nodes(c)' - Nodes(c) = 0
    BY <1>1, <1>2
  <1> QED BY <1>3 DEF Moved

LEMMA CountPush ==
  ASSUME TypeInv, TypeInv', Safe, NEW c \in Cpus, SchedPush(c)
  PROVE  \A d \in Cpus : Moved(d)
  <1>0. PICK q \in Cpus, x \in Pids : q = req[c].cpu_min /\ x = req[c].pid
    BY PushArgs
  <1>1. /\ x \notin I(q) /\ I(q)' = I(q) \cup {x}
        /\ \A d \in Cpus \ {q} : I(d)' = I(d)
        /\ \A d \in Cpus : A(d)' = A(d)
        /\ DistinctQueues /\ DistinctQueues'
    BY <1>0, PushEffect DEF Safe
  <1>2. n \in [Cpus -> 0..(NWRAP - 1)] /\ n' = [n EXCEPT ![q] = (n[q] + 1) % NWRAP]
    BY <1>0 DEF SchedPush, TypeInv, TypeOK
  <1>3. Moved(q)
    <2>1. Cardinality(I(q)') = Cardinality(I(q)) + 1
      BY <1>1, SetsCounted, AddOne
    <2>2. Nodes(q)' - Nodes(q) = 1
      <3>1. Nodes(q) = Cardinality(A(q)) + Cardinality(I(q))
        BY <1>1, NodesAre
      <3>2. Nodes(q)' = Cardinality(A(q)) + (Cardinality(I(q)) + 1)
        BY <1>1, <2>1, NodesBecome
      <3> QED BY <3>1, <3>2, SetsCounted
    <2>3. n'[q] = (n[q] + 1) % NWRAP /\ n[q] \in 0..(NWRAP - 1)
      BY <1>2
    <2> QED BY <2>2, <2>3, Counted DEF Moved
  <1>4. ASSUME NEW d \in Cpus \ {q} PROVE Moved(d)
    BY <1>1, <1>2, CountKept
  <1> QED BY <1>3, <1>4

LEMMA CountPop ==
  ASSUME TypeInv, TypeInv', Safe, NEW c \in Cpus, NextPop(c) \/ NextSweep(c)
  PROVE  \A d \in Cpus : Moved(d)
  <1>1. n' = n
    BY DEF NextPop, NextSweep, PopFrom
  <1>2. DistinctQueues
    BY DEF Safe
  <1>3. CASE NextPop(c)
    <2>1. PICK x \in Pids : /\ x \in A(c) /\ A(c)' = A(c) \ {x} /\ I(c)' = I(c) \cup {x}
                            /\ \A d \in Cpus \ {c} : A(d)' = A(d) /\ I(d)' = I(d)
                            /\ DistinctQueues'
      BY <1>3, PopEffect
    <2>2. x \notin I(c)
      BY <2>1 DEF Safe, Apart
    <2>3. Cardinality(A(c)') = Cardinality(A(c)) - 1 /\ Cardinality(I(c)') = Cardinality(I(c)) + 1
      BY <2>1, <2>2, SetsCounted, AddOne, TakeOne
    <2>4. Cardinality(A(c)') + Cardinality(I(c)') = Cardinality(A(c)) + Cardinality(I(c))
      BY <2>3, SetsCounted
    <2> QED BY <1>1, <1>2, <2>1, <2>4, CountKept
  <1>4. CASE NextSweep(c)
    <2>1. PICK x \in Pids : /\ A(c) = {} /\ x \in I(c) /\ A(c)' = I(c) \ {x} /\ I(c)' = {x}
                            /\ \A d \in Cpus \ {c} : A(d)' = A(d) /\ I(d)' = I(d)
                            /\ DistinctQueues'
      BY <1>4, SweepEffect
    <2>2. Cardinality(A(c)') = Cardinality(I(c)) - 1
      BY <2>1, SetsCounted, TakeOne
    <2>3. Cardinality(A(c)) = 0 /\ Cardinality(I(c)') = 1
      BY <2>1, FS_EmptySet, FS_Singleton
    <2>4. Cardinality(A(c)') + Cardinality(I(c)') = Cardinality(A(c)) + Cardinality(I(c))
      BY <2>2, <2>3, SetsCounted
    <2> QED BY <1>1, <1>2, <2>1, <2>4, CountKept
  <1> QED BY <1>3, <1>4

LEMMA CountRemove ==
  ASSUME TypeInv, TypeInv', Safe, NEW c \in Cpus, UnschedRemove(c)
  PROVE  \A d \in Cpus : Moved(d)
  <1>1. /\ current[c] \in I(c) /\ I(c)' = I(c) \ {current[c]}
        /\ \A d \in Cpus : A(d)' = A(d)
        /\ \A d \in Cpus \ {c} : I(d)' = I(d)
        /\ DistinctQueues /\ DistinctQueues'
    BY RemoveEffect DEF Safe
  <1>2. n \in [Cpus -> 0..(NWRAP - 1)] /\ n' = [n EXCEPT ![c] = (n[c] - 1) % NWRAP]
    BY DEF UnschedRemove, TypeInv, TypeOK
  <1>3. Moved(c)
    <2>1. Cardinality(I(c)') = Cardinality(I(c)) - 1
      BY <1>1, SetsCounted, TakeOne
    <2>2. Nodes(c)' - Nodes(c) = -1
      <3>1. Nodes(c) = Cardinality(A(c)) + Cardinality(I(c))
        BY <1>1, NodesAre
      <3>2. Nodes(c)' = Cardinality(A(c)) + (Cardinality(I(c)) - 1)
        BY <1>1, <2>1, NodesBecome
      <3> QED BY <3>1, <3>2, SetsCounted
    <2>3. n'[c] = (n[c] - 1) % NWRAP /\ n[c] \in 0..(NWRAP - 1)
      BY <1>2
    <2> QED BY <2>2, <2>3, Counted DEF Moved
  <1>4. ASSUME NEW d \in Cpus \ {c} PROVE Moved(d)
    BY <1>1, <1>2, CountKept
  <1> QED BY <1>3, <1>4

LEMMA CountSame ==
  ASSUME TypeInv, TypeInv', Safe, SameQueues, n' = n
  PROVE  \A d \in Cpus : Moved(d)
  <1>1. DistinctQueues /\ DistinctQueues'
    BY DEF Safe, SameQueues, DistinctQueues
  <1> QED BY <1>1, CountKept DEF SameQueues

(* The counters of schedule and unschedule move with the nodes: n changes by
   one, modulo its width, exactly when a node enters or leaves the queues of
   the CPU. *)
THEOREM CountsMove == ASSUME OneSpawner PROVE Spec => CountMovesWithNodes
  <1>1. SafeInv /\ SafeInv' /\ [Next]_vars => [\A c \in Cpus : Moved(c)]_vars
    <2> SUFFICES ASSUME SafeInv, SafeInv', Next PROVE \A c \in Cpus : Moved(c)
      OBVIOUS
    <2>0. TypeInv /\ TypeInv' /\ Safe
      BY DEF SafeInv
    <2>1. ASSUME UNCHANGED <<active, inactive, n>> PROVE \A c \in Cpus : Moved(c)
      <3>1. SameQueues /\ n' = n
        BY <2>0, <2>1, QueuesKept
      <3> QED BY <2>0, <3>1, CountSame
    <2>2. ASSUME NEW c \in Cpus, NextPanic(c) PROVE \A d \in Cpus : Moved(d)
      <3>1. SameQueues
        BY <2>0, <2>2, PanicEffect
      <3>2. n' = n
        BY <2>2 DEF NextPanic
      <3> QED BY <2>0, <3>1, <3>2, CountSame
    <2>3. PICK c \in Cpus : \/ Creation(c) \/ TimerTick(c) \/ Switch(c) \/ SyscallExit(c) \/ Exit(c)
                            \/ \E prio \in Prios : LateNew(c, prio)
      BY DEF Next
    <2>4. CASE \/ BootNew(c) \/ NewProc(c) \/ ScanCpu(c) \/ (\E q \in Cpus : SchedLock(c, q))
               \/ SchedWild(c) \/ SchedBegin(c) \/ TimerTick(c) \/ NextLock(c) \/ SyscallExit(c)
               \/ UnschedLock(c) \/ Bury(c) \/ \E prio \in Prios : LateNew(c, prio)
      <3>1. (BootNew(c) \/ \E prio \in Prios : LateNew(c, prio)) => UNCHANGED <<active, inactive, n>>
        <4>1. \A prio : DrawPid(c, prio) => UNCHANGED <<active, inactive, n>>
          BY DEF DrawPid, queueVars
        <4> QED BY <4>1 DEF BootNew, LateNew
      <3>2. (ScanCpu(c) \/ \E q \in Cpus : SchedLock(c, q)) => UNCHANGED <<active, inactive, n>>
        BY DEF ScanCpu, SchedLock, queueVars
      <3>3. NewProc(c) \/ SchedWild(c) \/ SchedBegin(c) \/ Bury(c) => UNCHANGED <<active, inactive, n>>
        BY DEF NewProc, SchedWild, SchedBegin, Bury, queueVars
      <3>4. TimerTick(c) \/ NextLock(c) \/ SyscallExit(c) \/ UnschedLock(c)
            => UNCHANGED <<active, inactive, n>>
        BY DEF TimerTick, NextLock, SyscallExit, UnschedLock, queueVars
      <3> QED BY <2>1, <2>4, <3>1, <3>2, <3>3, <3>4
    <2>5. CASE SchedPush(c)
      BY <2>0, <2>5, CountPush
    <2>6. CASE NextPop(c) \/ NextSweep(c)
      BY <2>0, <2>6, CountPop
    <2>7. CASE UnschedRemove(c)
      BY <2>0, <2>7, CountRemove
    <2> QED BY <2>2, <2>3, <2>4, <2>5, <2>6, <2>7 DEF Creation, Switch, Exit
  <1>2. SafeInv /\ SafeInv' /\ [Next]_vars
        => [\A c \in Cpus : (n'[c] - n[c]) % NWRAP = (Nodes(c)' - Nodes(c)) % NWRAP]_vars
    BY <1>1 DEF Moved
  <1> QED BY <1>2, AlwaysSafe, PTL DEF Spec, CountMovesWithNodes
=============================================================================
