---------------------------- MODULE Sched_proofs ----------------------------
(***************************************************************************)
(* The scheduler for any number of CPUs, processes and priorities, any     *)
(* width and any initial contents of the counters, and however many CPUs   *)
(* create processes.                                                       *)
(* Part 1 is what the queue operations of sched.c do to the set of the     *)
(* pids of a queue: push_unlocked adds one, pop_unlocked takes one away    *)
(* that was there, queue_tryremove takes away the one it is asked for, and *)
(* none of them repeats a pid.                                             *)
(* Part 2 is types, the spinlocks, and the panic of proc_next.             *)
(***************************************************************************)
EXTENDS Sched, SequenceTheorems, WellFoundedInduction, TLAPS

(* Part 1: the queue operations. *)
Queues(P) == [Prios -> Seq(P)]

(* No pid hangs off the queue twice. *)
Distinct(q) ==
  \A p, r \in Prios : \A i \in DOMAIN q[p], j \in DOMAIN q[r] :
    q[p][i] = q[r][j] => p = r /\ i = j

(* A nonempty set of numbers has a smallest one, the first that a scan from 0
   up meets. *)
LEMMA Smallest ==
  ASSUME NEW T \in SUBSET Nat, T # {}
  PROVE  \E m \in T : \A k \in T : m <= k
  <1>1. PICK m \in T : \A k \in T : ~(<<k, m>> \in OpToRel(<, Nat))
    BY NatLessThanWellFounded, WFMin
  <1>2. ASSUME NEW k \in T PROVE ~(k < m)
    <2>1. k < m => <<k, m>> \in OpToRel(<, Nat)
      BY DEF OpToRel
    <2> QED BY <1>1, <2>1, Zenon
  <1>3. \A k \in T : m <= k
    BY <1>2
  <1> QED BY <1>3

(* The levels and positions of a queue. *)
LEMMA Shape ==
  ASSUME NEW P, NEW q \in Queues(P), NEW p \in Prios
  PROVE  /\ q[p] \in Seq(P) /\ Len(q[p]) \in Nat
         /\ DOMAIN q[p] = 1..Len(q[p])
         /\ \A i \in DOMAIN q[p] : q[p][i] \in P
  BY LenProperties, ElementOfSeq DEF Queues

LEMMA Member ==
  ASSUME NEW q, NEW x
  PROVE  x \in Members(q) <=> \E p \in Prios : \E i \in DOMAIN q[p] : q[p][i] = x
  BY DEF Members

LEMMA MembersTyped ==
  ASSUME NEW P, NEW q \in Queues(P)
  PROVE  Members(q) \in SUBSET P
  BY Member, Shape

LEMMA EmptyFacts ==
  ASSUME NEW P
  PROVE  EmptyQueue \in Queues(P) /\ Members(EmptyQueue) = {} /\ Distinct(EmptyQueue)
  <1>1. EmptyQueue \in Queues(P)
    BY DEF EmptyQueue, Queues
  <1>2. \A p \in Prios : DOMAIN EmptyQueue[p] = {}
    BY DEF EmptyQueue
  <1> QED BY <1>1, <1>2 DEF Members, Distinct

(* A queue without levels is empty, and the other way round. *)
LEMMA NoLevels ==
  ASSUME NEW P, NEW q \in Queues(P)
  PROVE  Levels(q) = {} <=> Members(q) = {}
  <1>1. ASSUME NEW p \in Prios PROVE q[p] = <<>> <=> DOMAIN q[p] = {}
    BY Shape, EmptySeq
  <1>2. Levels(q) = {} <=> \A p \in Prios : DOMAIN q[p] = {}
    BY <1>1 DEF Levels
  <1>3. Members(q) = {} <=> \A p \in Prios : DOMAIN q[p] = {}
    <2>1. ASSUME NEW p \in Prios, NEW i \in DOMAIN q[p] PROVE q[p][i] \in Members(q)
      BY Member
    <2>2. ASSUME NEW x \in Members(q) PROVE \E p \in Prios : DOMAIN q[p] # {}
      BY Member
    <2> QED BY <2>1, <2>2
  <1> QED BY <1>2, <1>3

(* push_unlocked. *)
LEMMA PushFacts ==
  ASSUME NEW P, NEW q \in Queues(P), NEW x \in P, NEW prio \in Prios
  PROVE  /\ Push(q, x, prio) \in Queues(P)
         /\ Members(Push(q, x, prio)) = Members(q) \cup {x}
         /\ Distinct(q) /\ x \notin Members(q) => Distinct(Push(q, x, prio))
  <1> DEFINE s == q[prio]
             t == Append(s, x)
             u == Push(q, x, prio)
  <1>1. s \in Seq(P) /\ t \in Seq(P) /\ Len(s) \in Nat
        /\ DOMAIN s = 1..Len(s) /\ DOMAIN t = 1..(Len(s) + 1)
        /\ (\A i \in DOMAIN s : t[i] = s[i]) /\ t[Len(s) + 1] = x
    BY Shape, AppendProperties, LenProperties
  <1>2. u \in Queues(P) /\ u[prio] = t /\ \A p \in Prios \ {prio} : u[p] = q[p]
    BY <1>1 DEF Push, Queues
  <1>3. ASSUME NEW y PROVE y \in Members(u) <=> y \in Members(q) \/ y = x
    <2>1. ASSUME NEW p \in Prios, NEW i \in DOMAIN u[p], u[p][i] = y
          PROVE  y \in Members(q) \/ y = x
      <3>1. CASE p # prio
        BY <1>2, <2>1, <3>1, Member
      <3>2. CASE p = prio /\ i \in DOMAIN s
        BY <1>1, <1>2, <2>1, <3>2, Member
      <3>3. CASE p = prio /\ i = Len(s) + 1
        BY <1>1, <1>2, <2>1, <3>3
      <3>4. p = prio => i \in DOMAIN s \/ i = Len(s) + 1
        BY <1>1, <1>2
      <3> QED BY <3>1, <3>2, <3>3, <3>4
    <2>2. ASSUME NEW p \in Prios, NEW i \in DOMAIN q[p], q[p][i] = y
          PROVE  i \in DOMAIN u[p] /\ u[p][i] = y
      <3>1. CASE p # prio
        BY <1>2, <2>2, <3>1
      <3>2. CASE p = prio
        BY <1>1, <1>2, <2>2, <3>2
      <3> QED BY <3>1, <3>2
    <2>3. Len(s) + 1 \in DOMAIN u[prio] /\ u[prio][Len(s) + 1] = x
      BY <1>1, <1>2
    <2> QED BY <2>1, <2>2, <2>3, Member
  <1>4. ASSUME Distinct(q), x \notin Members(q) PROVE Distinct(u)
    <2> SUFFICES ASSUME NEW p \in Prios, NEW r \in Prios,
                        NEW i \in DOMAIN u[p], NEW j \in DOMAIN u[r], u[p][i] = u[r][j]
                 PROVE  p = r /\ i = j
      BY DEF Distinct
    <2>1. \A a \in Prios : \A k \in DOMAIN u[a] :
            \/ k \in DOMAIN q[a] /\ u[a][k] = q[a][k] /\ u[a][k] # x
            \/ a = prio /\ k = Len(s) + 1 /\ u[a][k] = x
      <3>1. \A a \in Prios : \A k \in DOMAIN q[a] : q[a][k] # x
        BY <1>4, Member
      <3>2. ASSUME NEW a \in Prios \ {prio}, NEW k \in DOMAIN u[a]
            PROVE  k \in DOMAIN q[a] /\ u[a][k] = q[a][k] /\ u[a][k] # x
        BY <1>2, <3>1, <3>2
      <3>3. ASSUME NEW k \in DOMAIN u[prio], k \in DOMAIN s
            PROVE  u[prio][k] = q[prio][k] /\ u[prio][k] # x
        BY <1>1, <1>2, <3>1, <3>3
      <3>4. \A k \in DOMAIN u[prio] : k \in DOMAIN s \/ k = Len(s) + 1
        BY <1>1, <1>2
      <3> QED BY <1>1, <1>2, <3>2, <3>3, <3>4
    <2> QED BY <2>1, <1>4 DEF Distinct
  <1> QED BY <1>2, <1>3, <1>4

(* Without the node at position z of level top, a queue of distinct pids has
   just that pid less.  Position k of a level of u was position from(a, k). *)
LEMMA DropFacts ==
  ASSUME NEW P, NEW q \in Queues(P), NEW u \in Queues(P), Distinct(q),
         NEW top \in Prios, NEW z \in DOMAIN q[top],
         DOMAIN u[top] = 1..(Len(q[top]) - 1),
         \A i \in DOMAIN u[top] : u[top][i] = IF i < z THEN q[top][i] ELSE q[top][i + 1],
         \A p \in Prios \ {top} : u[p] = q[p]
  PROVE  Members(u) = Members(q) \ {q[top][z]} /\ Distinct(u)
  <1> DEFINE x == q[top][z]
             from(a, k) == IF a = top /\ ~(k < z) THEN k + 1 ELSE k
  <1>1. Len(q[top]) \in Nat /\ DOMAIN q[top] = 1..Len(q[top]) /\ z \in 1..Len(q[top])
    BY Shape
  <1>2. ASSUME NEW a \in Prios, NEW k \in DOMAIN u[a]
        PROVE  /\ k \in Nat
               /\ from(a, k) \in DOMAIN q[a] /\ u[a][k] = q[a][from(a, k)]
               /\ a = top => from(a, k) # z
    <2>1. CASE a = top
      <3>1. k \in 1..(Len(q[top]) - 1)
        BY <2>1
      <3>2. from(a, k) \in 1..Len(q[top]) /\ from(a, k) # z /\ k \in Nat
        BY <1>1, <2>1, <3>1
      <3> QED BY <1>1, <2>1, <3>2
    <2>2. CASE a # top
      BY <2>2, Shape
    <2> QED BY <2>1, <2>2
  <1>3. ASSUME NEW a \in Prios, NEW k \in DOMAIN q[a], a # top \/ k # z
        PROVE  \E j \in DOMAIN u[a] : u[a][j] = q[a][k]
    <2>1. CASE a = top /\ k < z
      <3>1. k \in 1..(Len(q[top]) - 1)
        BY <1>1, <2>1
      <3> QED BY <2>1, <3>1
    <2>2. CASE a = top /\ ~(k < z)
      <3>1. k - 1 \in 1..(Len(q[top]) - 1) /\ (k - 1) + 1 = k /\ ~(k - 1 < z)
        BY <1>1, <1>3, <2>2
      <3>2. k - 1 \in DOMAIN u[top] /\ u[top][k - 1] = q[top][k]
        BY <3>1
      <3> QED BY <2>2, <3>2
    <2> QED BY <2>1, <2>2
  <1> HIDE DEF from
  <1>4. ASSUME NEW y \in Members(u) PROVE y \in Members(q) /\ y # x
    <2>1. PICK a \in Prios : \E k \in DOMAIN u[a] : u[a][k] = y
      BY Member
    <2>2. PICK k \in DOMAIN u[a] : u[a][k] = y
      BY <2>1
    <2>3. y = q[a][from(a, k)] /\ from(a, k) \in DOMAIN q[a]
      BY <1>2, <2>2
    <2>4. y # x
      BY <1>2, <2>3 DEF Distinct
    <2> QED BY <2>3, <2>4, Member
  <1>5. ASSUME NEW y \in Members(q), y # x PROVE y \in Members(u)
    <2>1. PICK a \in Prios : \E k \in DOMAIN q[a] : q[a][k] = y
      BY Member
    <2>2. PICK k \in DOMAIN q[a] : q[a][k] = y
      BY <2>1
    <2>3. a # top \/ k # z
      BY <1>5, <2>2
    <2> QED BY <1>3, <2>2, <2>3, Member
  <1>6. Distinct(u)
    <2> SUFFICES ASSUME NEW a \in Prios, NEW b \in Prios,
                        NEW i \in DOMAIN u[a], NEW j \in DOMAIN u[b], u[a][i] = u[b][j]
                 PROVE  a = b /\ i = j
      BY DEF Distinct
    <2>1. a = b /\ from(a, i) = from(b, j)
      BY <1>2 DEF Distinct
    <2> QED BY <1>1, <1>2, <2>1 DEF from
  <1> QED BY <1>4, <1>5, <1>6

(* pop_unlocked: the level it takes from is not empty, and what it takes is no
   longer in the queue. *)
LEMMA TopLevelIsALevel ==
  ASSUME NEW q, Levels(q) # {}
  PROVE  TopLevel(q) \in Levels(q) /\ TopLevel(q) \in Prios
  <1>1. Levels(q) \in SUBSET Nat /\ Levels(q) \in SUBSET Prios
    BY NPriorAssumption DEF Levels, Prios
  <1>2. \E p \in Levels(q) : \A r \in Levels(q) : p <= r
    BY <1>1, Smallest
  <1> QED BY <1>1, <1>2 DEF TopLevel

LEMMA PopFacts ==
  ASSUME NEW P, NEW q \in Queues(P), Levels(q) # {}
  PROVE  /\ TopLevel(q) \in Prios
         /\ TopPid(q) \in Members(q) /\ TopPid(q) \in P
         /\ Pop(q) \in Queues(P)
         /\ Distinct(q) => /\ Members(Pop(q)) = Members(q) \ {TopPid(q)}
                           /\ Distinct(Pop(q))
  <1> DEFINE top == TopLevel(q)
             s == q[top]
  <1>0. top \in Prios /\ s # <<>>
    BY TopLevelIsALevel DEF Levels
  <1> HIDE DEF top
  <1>1. /\ s \in Seq(P) /\ Len(s) \in Nat \ {0} /\ DOMAIN s = 1..Len(s)
        /\ Tail(s) \in Seq(P) /\ DOMAIN Tail(s) = 1..(Len(s) - 1)
        /\ (\A i \in DOMAIN Tail(s) : Tail(s)[i] = s[i + 1])
    BY <1>0, Shape, EmptySeq, HeadTailProperties, LenProperties
  <1>2. TopPid(q) = s[1] /\ s[1] \in P /\ 1 \in DOMAIN s
    BY <1>0, <1>1, Shape DEF TopPid, top
  <1>3. TopPid(q) \in Members(q)
    BY <1>0, <1>2, Member
  <1>4. /\ Pop(q) \in Queues(P) /\ Pop(q)[top] = Tail(s)
        /\ \A p \in Prios \ {top} : Pop(q)[p] = q[p]
    BY <1>0, <1>1 DEF Pop, Queues, top
  <1>5. ASSUME Distinct(q)
        PROVE  Members(Pop(q)) = Members(q) \ {s[1]} /\ Distinct(Pop(q))
    <2>1. \A i \in DOMAIN Tail(s) : ~(i < 1)
      BY <1>1
    <2>2. DOMAIN Pop(q)[top] = 1..(Len(q[top]) - 1)
      BY <1>1, <1>4
    <2>3. \A i \in DOMAIN Pop(q)[top] :
            Pop(q)[top][i] = IF i < 1 THEN q[top][i] ELSE q[top][i + 1]
      BY <1>1, <1>4, <2>1
    <2> DEFINE u == Pop(q)
    <2>4. u \in Queues(P) /\ \A p \in Prios \ {top} : u[p] = q[p]
      BY <1>4
    <2>5. /\ DOMAIN u[top] = 1..(Len(q[top]) - 1)
          /\ \A i \in DOMAIN u[top] :
               u[top][i] = IF i < 1 THEN q[top][i] ELSE q[top][i + 1]
      BY <2>2, <2>3
    <2>6. top \in Prios /\ 1 \in DOMAIN q[top]
      BY <1>0, <1>2
    <2> HIDE DEF u
    <2>7. Members(u) = Members(q) \ {q[top][1]} /\ Distinct(u)
      BY <1>5, <2>4, <2>5, <2>6, DropFacts
    <2> QED BY <2>7 DEF u
  <1> QED BY <1>0, <1>2, <1>3, <1>4, <1>5 DEF top

(* queue_tryremove. *)
LEMMA TryRemoveFacts ==
  ASSUME NEW P, NEW q \in Queues(P), NEW x
  PROVE  /\ Holding(q, x) # {} <=> x \in Members(q)
         /\ TryRemove(q, x) \in Queues(P)
         /\ Distinct(q) => /\ Members(TryRemove(q, x)) = Members(q) \ {x}
                           /\ Distinct(TryRemove(q, x))
  <1>1. Holding(q, x) # {} <=> x \in Members(q)
    BY Member DEF Holding
  <1>2. CASE Holding(q, x) = {}
    BY <1>1, <1>2 DEF TryRemove
  <1>3. CASE Holding(q, x) # {}
    <2> DEFINE lev == FirstLevel(q, x)
               s == q[lev]
               z == FirstIndex(s, x)
               u == TryRemove(q, x)
    <2>1. lev \in Holding(q, x)
      <3>1. Holding(q, x) \in SUBSET Nat
        BY NPriorAssumption DEF Holding, Prios
      <3>2. \E p \in Holding(q, x) : \A r \in Holding(q, x) : p <= r
        BY <1>3, <3>1, Smallest
      <3> QED BY <3>2 DEF FirstLevel
    <2>2. lev \in Prios /\ \E i \in DOMAIN s : s[i] = x
      BY <2>1 DEF Holding
    <2> HIDE DEF lev
    <2>3. s \in Seq(P) /\ Len(s) \in Nat /\ DOMAIN s = 1..Len(s) /\ \A i \in DOMAIN s : s[i] \in P
      BY <2>2, Shape
    <2>4. z \in DOMAIN s /\ s[z] = x
      <3> DEFINE T == {i \in DOMAIN s : s[i] = x}
      <3>1. T \in SUBSET Nat /\ T # {}
        BY <2>2, <2>3
      <3>2. \E i \in T : \A j \in T : i <= j
        BY <3>1, Smallest
      <3>3. \E i \in DOMAIN s : s[i] = x /\ \A j \in DOMAIN s : s[j] = x => i <= j
        BY <3>2
      <3> QED BY <3>3 DEF FirstIndex
    <2> HIDE DEF z
    <2>5. /\ Unlink(s, z) \in [1..(Len(s) - 1) -> P]
          /\ \A i \in 1..(Len(s) - 1) : Unlink(s, z)[i] = IF i < z THEN s[i] ELSE s[i + 1]
      BY <2>3, <2>4 DEF Unlink
    <2>6. Unlink(s, z) \in Seq(P)
      <3>1. Len(s) - 1 \in Nat
        BY <2>3, <2>4
      <3> QED BY <2>5, <3>1, SeqDef
    <2>7. u = [q EXCEPT ![lev] = Unlink(s, z)]
      BY <1>3 DEF TryRemove, lev, z
    <2>8. u \in Queues(P) /\ u[lev] = Unlink(s, z) /\ \A p \in Prios \ {lev} : u[p] = q[p]
      BY <2>2, <2>6, <2>7 DEF Queues
    <2> HIDE DEF u
    <2>9. ASSUME Distinct(q) PROVE Members(u) = Members(q) \ {x} /\ Distinct(u)
      <3>1. DOMAIN u[lev] = 1..(Len(q[lev]) - 1)
        BY <2>5, <2>8
      <3>2. \A i \in DOMAIN u[lev] : u[lev][i] = IF i < z THEN q[lev][i] ELSE q[lev][i + 1]
        BY <2>5, <2>8
      <3> QED BY <2>2, <2>4, <2>8, <2>9, <3>1, <3>2, DropFacts
    <2> QED BY <1>1, <2>8, <2>9 DEF u
  <1> QED BY <1>2, <1>3

-----------------------------------------------------------------------------
(* Part 2: types, locks and the panic. *)
Reqs == [pid : 0..MAXPID, prio : Prios, cpu : 0..NCPUS,
         n_min : 0..(NWRAP - 1), cpu_min : 0..NCPUS]

(* The locals of a handler that is running have been assigned. *)
LocalsOK ==
  \A c \in Cpus : /\ pc[c] \in {"new", "scan", "push", "wild"} => req[c].pid \in 1..pid_cur
                  /\ pc[c] = "push" => req[c].cpu_min \in Cpus
                  /\ pc[c] \in {"unsched", "remove", "bury"} => current[c] \in Pids

TypeInv == TypeOK /\ LocalsOK

-----------------------------------------------------------------------------
(* Arithmetic of a width and of the timer. *)
LEMMA Wraps == ASSUME NEW a \in Int PROVE a % NWRAP \in 0..(NWRAP - 1)
  BY SchedAssumption

LEMMA PeriodIsNat == ASSUME NEW us \in Nat PROVE TimerPeriod(us) \in Nat
  <1>1. (TICKS * us) % NWRAP \in Nat
    BY SchedAssumption, Wraps
  <1>2. ((TICKS * us) % NWRAP) \div 1000 \in Nat
    BY <1>1
  <1> QED BY <1>2 DEF TimerPeriod, AtLeastOne

LEMMA ShareIsNat == ASSUME NEW k \in 0..(NWRAP - 1) PROVE SweepShare(k) \in Nat
  <1>1. AtLeastOne(k) \in Nat \ {0}
    BY SchedAssumption DEF AtLeastOne
  <1>2. SWEEP_US % NWRAP \in Nat
    BY SchedAssumption
  <1>3. (SWEEP_US % NWRAP) \div AtLeastOne(k) \in Nat
    BY <1>1, <1>2
  <1> QED BY <1>3 DEF SweepShare, AtLeastOne

LEMMA NoReqTyped == NoReq \in Reqs /\ NoReq.pid = 0 /\ 0 \in Cpus
  BY SchedAssumption, NPriorAssumption DEF NoReq, Reqs, Prios, NULL, UNSET, Cpus

(* Only CPU c moves. *)
LEMMA Moves ==
  ASSUME TypeOK, NEW c \in Cpus, NEW l \in Labels, Goto(c, l)
  PROVE  /\ pc' \in [Cpus -> Labels]
         /\ pc'[c] = l
         /\ \A d \in Cpus \ {c} : pc'[d] = pc[d]
  BY DEF TypeOK, Goto

LEMMA InitTypeInv == Init => TypeInv
  <1> SUFFICES ASSUME Init PROVE TypeInv
    OBVIOUS
  <1>1. active \in [Cpus -> [Prios -> Seq(Pids)]] /\ inactive \in [Cpus -> [Prios -> Seq(Pids)]]
    BY EmptyFacts DEF Init, Queues
  <1>2. n \in [Cpus -> 0..(NWRAP - 1)] /\ lock \in [Cpus -> BOOLEAN]
    <2>1. n \in [Cpus -> Garbage] /\ Garbage \subseteq 0..(NWRAP - 1)
      BY SchedAssumption DEF Init
    <2>2. lock = [c \in Cpus |-> FALSE]
      BY DEF Init
    <2> QED BY <2>1, <2>2
  <1>3. period \in [Cpus -> Nat]
    <2>1. 10000 % NWRAP \in Nat
      BY SchedAssumption, Wraps
    <2> QED BY <2>1, PeriodIsNat DEF Init
  <1>4. sched_ready \in BOOLEAN /\ pid_cur \in 0..MAXPID /\ procmap \in [Pids -> 0..MAXPID]
        /\ current \in [Cpus -> Pids \cup {NULL, KPROC}]
    <2>1. 0 \in 0..MAXPID
      BY SchedAssumption
    <2>2. /\ sched_ready = FALSE /\ pid_cur = 0
          /\ procmap = [k \in Pids |-> NULL]
          /\ current = [c \in Cpus |-> KPROC]
      BY DEF Init
    <2> QED BY <2>1, <2>2 DEF NULL
  <1>5. pc \in [Cpus -> Labels] /\ \A c \in Cpus : pc[c] \in {"kmain", "run"}
    BY DEF Init, Labels
  <1>6. req \in [Cpus -> Reqs]
    BY NoReqTyped DEF Init
  <1>7. TypeOK
    BY <1>1, <1>2, <1>3, <1>4, <1>5, <1>6 DEF TypeOK, Reqs
  <1> QED BY <1>5, <1>7 DEF TypeInv, LocalsOK

(* proc_new and schedule. *)
LEMMA DrawPidType ==
  ASSUME TypeInv, NEW c \in Cpus, NEW prio \in Prios, pid_cur < MAXPID, DrawPid(c, prio)
  PROVE  TypeInv'
  <1>0. pid_cur \in 0..MAXPID /\ MAXPID \in Nat /\ pid_cur' = pid_cur + 1
    BY SchedAssumption DEF DrawPid, TypeInv, TypeOK
  <1>1. /\ pid_cur \in Nat /\ pid_cur' \in Nat /\ pid_cur' = pid_cur + 1
        /\ pid_cur' \in 0..MAXPID /\ pid_cur' \in 1..pid_cur'
        /\ \A k \in 1..pid_cur : k \in 1..pid_cur'
    BY <1>0
  <1> DEFINE r == [NoReq EXCEPT !.pid = pid_cur + 1, !.prio = prio]
  <1>2. r \in Reqs /\ r.pid = pid_cur + 1
    BY <1>1, NoReqTyped DEF Reqs
  <1>3. req' \in [Cpus -> Reqs] /\ req'[c] = r /\ \A d \in Cpus \ {c} : req'[d] = req[d]
    BY <1>2 DEF DrawPid, TypeInv, TypeOK, Reqs
  <1>4. /\ pc' \in [Cpus -> Labels] /\ pc'[c] = "new"
        /\ \A d \in Cpus \ {c} : pc'[d] = pc[d]
    BY Moves DEF DrawPid, TypeInv, Labels
  <1>5. TypeOK'
    BY <1>1, <1>3, <1>4 DEF DrawPid, queueVars, TypeInv, TypeOK, Reqs
  <1>6. LocalsOK'
    <2>1. current' = current /\ LocalsOK
      BY DEF DrawPid, TypeInv
    <2> QED BY <1>1, <1>2, <1>3, <1>4, <2>1 DEF LocalsOK
  <1> QED BY <1>5, <1>6 DEF TypeInv

(* A step of c that leaves pid_cur alone disturbs the locals of c at most. *)
LEMMA LocalsStep ==
  ASSUME TypeInv, NEW c \in Cpus, NEW l \in Labels, Goto(c, l), UNCHANGED pid_cur,
         \A d \in Cpus \ {c} : req'[d] = req[d] /\ current'[d] = current[d],
         l \in {"new", "scan", "push", "wild"} => req'[c].pid \in 1..pid_cur,
         l = "push" => req'[c].cpu_min \in Cpus,
         l \in {"unsched", "remove", "bury"} => current'[c] \in Pids
  PROVE  LocalsOK'
  <1>1. pc'[c] = l /\ \A d \in Cpus \ {c} : pc'[d] = pc[d]
    BY Moves DEF TypeInv
  <1> QED BY <1>1 DEF TypeInv, LocalsOK

(* A step that only moves, or that only moves and takes a lock. *)
LEMMA QuietType ==
  ASSUME TypeInv, NEW c \in Cpus, NEW l \in Labels, Goto(c, l),
         UNCHANGED <<active, inactive, n, period, sched_ready, pid_cur, procmap, current, req>>,
         lock' = lock \/ \E q \in Cpus : lock' = [lock EXCEPT ![q] = TRUE],
         l \in {"new", "scan", "push", "wild"} => req[c].pid \in 1..pid_cur,
         l = "push" => req[c].cpu_min \in Cpus,
         l \in {"unsched", "remove", "bury"} => current[c] \in Pids
  PROVE  TypeInv'
  <1>1. lock' \in [Cpus -> BOOLEAN]
    BY DEF TypeInv, TypeOK
  <1>2. pc' \in [Cpus -> Labels]
    BY Moves DEF TypeInv
  <1>3. TypeOK'
    BY <1>1, <1>2 DEF TypeInv, TypeOK
  <1>4. LocalsOK'
    BY LocalsStep
  <1> QED BY <1>3, <1>4 DEF TypeInv

LEMMA NewProcType == ASSUME TypeInv, NEW c \in Cpus, NewProc(c) PROVE TypeInv'
  <1>1. req[c].pid \in 1..pid_cur /\ pid_cur \in 0..MAXPID /\ MAXPID \in Nat
    BY SchedAssumption DEF NewProc, TypeInv, TypeOK, LocalsOK
  <1>2. pid_cur \in 1..pid_cur /\ pid_cur \in 0..MAXPID
    BY <1>1
  <1>3. procmap' \in [Pids -> 0..MAXPID]
    BY <1>2 DEF NewProc, TypeInv, TypeOK
  <1>4. req' \in [Cpus -> Reqs] /\ req'[c].pid = pid_cur /\ \A d \in Cpus \ {c} : req'[d] = req[d]
    <2>1. req \in [Cpus -> Reqs]
      BY DEF TypeInv, TypeOK, Reqs
    <2>2. req' = [req EXCEPT ![c] = [req[c] EXCEPT !.pid = pid_cur]]
      BY DEF NewProc
    <2>3. [req[c] EXCEPT !.pid = pid_cur] \in Reqs /\ [req[c] EXCEPT !.pid = pid_cur].pid = pid_cur
      BY <1>2, <2>1 DEF Reqs
    <2> QED BY <2>1, <2>2, <2>3
  <1>5. Goto(c, "scan") /\ "scan" \in Labels
    BY DEF NewProc, Labels
  <1>6. pc' \in [Cpus -> Labels]
    BY <1>5, Moves DEF TypeInv
  <1>7. TypeOK'
    BY <1>3, <1>4, <1>6 DEF NewProc, queueVars, TypeInv, TypeOK, Reqs
  <1>8. LocalsOK'
    BY <1>2, <1>4, <1>5, LocalsStep DEF NewProc
  <1> QED BY <1>7, <1>8 DEF TypeInv

LEMMA ScanCpuType == ASSUME TypeInv, NEW c \in Cpus, ScanCpu(c) PROVE TypeInv'
  <1> DEFINE k == req[c].cpu
  <1>1. /\ req \in [Cpus -> Reqs] /\ n \in [Cpus -> 0..(NWRAP - 1)]
        /\ k < NCPUS /\ k \in 0..NCPUS /\ NCPUS \in Nat
    BY SchedAssumption DEF ScanCpu, TypeInv, TypeOK, Reqs
  <1>2. k \in Cpus /\ k \in 0..NCPUS /\ k + 1 \in 0..NCPUS
    BY <1>1 DEF Cpus
  <1>3. n[k] \in 0..(NWRAP - 1)
    BY <1>1, <1>2
  <1>4. /\ [req[c] EXCEPT !.cpu = k + 1, !.cpu_min = k, !.n_min = n[k]] \in Reqs
        /\ [req[c] EXCEPT !.cpu = k + 1] \in Reqs
    BY <1>1, <1>2, <1>3 DEF Reqs
  <1>5. /\ req' \in [Cpus -> Reqs] /\ \A d \in Cpus \ {c} : req'[d] = req[d]
        /\ req'[c] \in {[req[c] EXCEPT !.cpu = k + 1, !.cpu_min = k, !.n_min = n[k]],
                        [req[c] EXCEPT !.cpu = k + 1]}
    BY <1>1, <1>4 DEF ScanCpu
  <1>6. req'[c].pid = req[c].pid
    BY <1>1, <1>5 DEF Reqs
  <1>7. TypeOK'
    BY <1>5 DEF ScanCpu, queueVars, TypeInv, TypeOK, Reqs
  <1>8. LocalsOK'
    BY <1>5, <1>6 DEF ScanCpu, TypeInv, LocalsOK
  <1> QED BY <1>7, <1>8 DEF TypeInv

LEMMA SchedLockType ==
  ASSUME TypeInv, NEW c \in Cpus, NEW q \in Cpus, SchedLock(c, q) PROVE TypeInv'
  <1>1. req[c].pid \in 1..pid_cur /\ q \in 0..NCPUS
    BY SchedAssumption DEF SchedLock, TypeInv, LocalsOK, Cpus
  <1>2. /\ req' \in [Cpus -> Reqs] /\ req'[c].pid = req[c].pid /\ req'[c].cpu_min = q
        /\ \A d \in Cpus \ {c} : req'[d] = req[d]
    <2>1. req \in [Cpus -> Reqs] /\ req' = [req EXCEPT ![c].cpu_min = q]
      BY DEF SchedLock, TypeInv, TypeOK, Reqs
    <2>2. [req[c] EXCEPT !.cpu_min = q] \in Reqs
      BY <1>1, <2>1 DEF Reqs
    <2>3. req' \in [Cpus -> Reqs] /\ req'[c] = [req[c] EXCEPT !.cpu_min = q]
          /\ \A d \in Cpus \ {c} : req'[d] = req[d]
      BY <2>1, <2>2
    <2> QED BY <2>1, <2>3 DEF Reqs
  <1>3. Goto(c, "push") /\ "push" \in Labels
    BY DEF SchedLock, Labels
  <1>4. pc' \in [Cpus -> Labels] /\ lock' \in [Cpus -> BOOLEAN]
    BY <1>3, Moves DEF SchedLock, TypeInv, TypeOK
  <1>5. TypeOK'
    BY <1>2, <1>4 DEF SchedLock, TypeInv, TypeOK, Reqs
  <1>6. LocalsOK'
    BY <1>1, <1>2, <1>3, LocalsStep DEF SchedLock
  <1> QED BY <1>5, <1>6 DEF TypeInv

LEMMA SchedPushType == ASSUME TypeInv, NEW c \in Cpus, SchedPush(c) PROVE TypeInv'
  <1> DEFINE q == req[c].cpu_min
             l == IF sched_ready THEN "run" ELSE "kmain"
  <1>1. q \in Cpus /\ req[c].pid \in Pids /\ req[c].prio \in Prios
    BY SchedAssumption DEF SchedPush, TypeInv, TypeOK, LocalsOK, Pids
  <1>2. n' \in [Cpus -> 0..(NWRAP - 1)]
    <2>1. n \in [Cpus -> 0..(NWRAP - 1)] /\ n' = [n EXCEPT ![q] = (n[q] + 1) % NWRAP]
      BY DEF SchedPush, TypeInv, TypeOK
    <2>2. n[q] \in Int
      BY <1>1, <2>1, SchedAssumption
    <2>3. (n[q] + 1) % NWRAP \in 0..(NWRAP - 1)
      BY <2>2, Wraps
    <2> QED BY <2>1, <2>3
  <1>3. inactive' \in [Cpus -> [Prios -> Seq(Pids)]]
    <2>1. inactive[q] \in Queues(Pids)
      BY <1>1 DEF TypeInv, TypeOK, Queues
    <2>2. Push(inactive[q], req[c].pid, req[c].prio) \in Queues(Pids)
      BY <1>1, <2>1, PushFacts
    <2> QED BY <2>2 DEF SchedPush, TypeInv, TypeOK, Queues
  <1>4. lock' \in [Cpus -> BOOLEAN]
    BY DEF SchedPush, TypeInv, TypeOK
  <1>5. req' \in [Cpus -> Reqs] /\ \A d \in Cpus \ {c} : req'[d] = req[d]
    BY NoReqTyped DEF SchedPush, TypeInv, TypeOK, Reqs
  <1>6. Goto(c, l) /\ l \in Labels /\ l \in {"run", "kmain"}
    BY DEF SchedPush, Labels
  <1> HIDE DEF l
  <1>7. pc' \in [Cpus -> Labels]
    BY <1>6, Moves DEF TypeInv
  <1>8. TypeOK'
    BY <1>2, <1>3, <1>4, <1>5, <1>7 DEF SchedPush, TypeInv, TypeOK, Reqs
  <1>9. LocalsOK'
    BY <1>5, <1>6, LocalsStep DEF SchedPush
  <1> QED BY <1>8, <1>9 DEF TypeInv

(* proc_next. *)
LEMMA PopFromType ==
  ASSUME TypeInv, NEW c \in Cpus, NEW act \in Queues(Pids), NEW ina \in Queues(Pids),
         PopFrom(c, act, ina)
  PROVE  TypeInv'
  <1> DEFINE pid == TopPid(act)
             found == procmap[pid] # NULL
             l == IF found THEN "run" ELSE "assert_failed"
  <1>1. /\ pid \in Pids /\ TopLevel(act) \in Prios /\ Pop(act) \in Queues(Pids)
        /\ Push(ina, pid, TopLevel(act)) \in Queues(Pids)
    BY PopFacts, PushFacts DEF PopFrom
  <1>2. active' \in [Cpus -> [Prios -> Seq(Pids)]] /\ inactive' \in [Cpus -> [Prios -> Seq(Pids)]]
    BY <1>1 DEF PopFrom, TypeInv, TypeOK, Queues
  <1>3. current' \in [Cpus -> Pids \cup {NULL, KPROC}] /\ \A d \in Cpus \ {c} : current'[d] = current[d]
    BY <1>1 DEF PopFrom, TypeInv, TypeOK
  <1>4. lock' \in [Cpus -> BOOLEAN]
    <2>1. lock \in [Cpus -> BOOLEAN] /\ lock' = [lock EXCEPT ![c] = ~found]
      BY DEF PopFrom, TypeInv, TypeOK
    <2>2. \A f \in [Cpus -> BOOLEAN], b \in BOOLEAN : [f EXCEPT ![c] = b] \in [Cpus -> BOOLEAN]
      OBVIOUS
    <2> QED BY <2>1, <2>2, Zenon
  <1>5. Goto(c, l) /\ l \in Labels /\ l \in {"run", "assert_failed"}
    BY DEF PopFrom, Labels
  <1> HIDE DEF l
  <1>6. pc' \in [Cpus -> Labels]
    BY <1>5, Moves DEF TypeInv
  <1>7. TypeOK'
    BY <1>2, <1>3, <1>4, <1>6 DEF PopFrom, TypeInv, TypeOK
  <1>8. LocalsOK'
    BY <1>3, <1>5, LocalsStep DEF PopFrom
  <1> QED BY <1>7, <1>8 DEF TypeInv

LEMMA NextPanicType == ASSUME TypeInv, NEW c \in Cpus, NextPanic(c) PROVE TypeInv'
  <1>1. active' \in [Cpus -> [Prios -> Seq(Pids)]] /\ inactive' \in [Cpus -> [Prios -> Seq(Pids)]]
    BY DEF NextPanic, TypeInv, TypeOK
  <1>2. Goto(c, "frozen") /\ "frozen" \in Labels
    BY DEF NextPanic, Labels
  <1>3. pc' \in [Cpus -> Labels]
    BY <1>2, Moves DEF TypeInv
  <1>4. TypeOK'
    BY <1>1, <1>3 DEF NextPanic, TypeInv, TypeOK
  <1>5. LocalsOK'
    BY <1>2, LocalsStep DEF NextPanic
  <1> QED BY <1>4, <1>5 DEF TypeInv

(* syscall_exit. *)
LEMMA UnschedRemoveType == ASSUME TypeInv, NEW c \in Cpus, UnschedRemove(c) PROVE TypeInv'
  <1>1. n' \in [Cpus -> 0..(NWRAP - 1)]
    <2>1. n \in [Cpus -> 0..(NWRAP - 1)] /\ n' = [n EXCEPT ![c] = (n[c] - 1) % NWRAP]
      BY DEF UnschedRemove, TypeInv, TypeOK
    <2>2. n[c] \in Int
      BY <2>1, SchedAssumption
    <2>3. (n[c] - 1) % NWRAP \in 0..(NWRAP - 1)
      BY <2>2, Wraps
    <2> QED BY <2>1, <2>3
  <1>2. period' \in [Cpus -> Nat]
    <2>1. TimerPeriod(SweepShare(n'[c])) \in Nat
      BY <1>1, ShareIsNat, PeriodIsNat
    <2> QED BY <2>1 DEF UnschedRemove, TypeInv, TypeOK
  <1>3. active' \in [Cpus -> [Prios -> Seq(Pids)]] /\ inactive' \in [Cpus -> [Prios -> Seq(Pids)]]
    <2>1. active[c] \in Queues(Pids) /\ inactive[c] \in Queues(Pids)
      BY DEF TypeInv, TypeOK, Queues
    <2>2. \A x : TryRemove(active[c], x) \in Queues(Pids) /\ TryRemove(inactive[c], x) \in Queues(Pids)
      BY <2>1, TryRemoveFacts
    <2>3. \/ active' = [active EXCEPT ![c] = TryRemove(active[c], procmap[current[c]])]
             /\ inactive' = inactive
          \/ inactive' = [inactive EXCEPT ![c] = TryRemove(inactive[c], procmap[current[c]])]
             /\ active' = active
      BY DEF UnschedRemove
    <2>4. active \in [Cpus -> Queues(Pids)] /\ inactive \in [Cpus -> Queues(Pids)]
      BY DEF TypeInv, TypeOK, Queues
    <2>5. active' \in [Cpus -> Queues(Pids)] /\ inactive' \in [Cpus -> Queues(Pids)]
      BY <2>2, <2>3, <2>4
    <2> QED BY <2>5 DEF Queues
  <1>4. Goto(c, "bury") /\ "bury" \in Labels /\ current[c] \in Pids
    BY DEF UnschedRemove, Labels, TypeInv, LocalsOK
  <1>5. pc' \in [Cpus -> Labels] /\ lock' \in [Cpus -> BOOLEAN]
    BY <1>4, Moves DEF UnschedRemove, TypeInv, TypeOK
  <1>6. TypeOK'
    BY <1>1, <1>2, <1>3, <1>5 DEF UnschedRemove, TypeInv, TypeOK
  <1>7. LocalsOK'
    BY <1>4, LocalsStep DEF UnschedRemove
  <1> QED BY <1>6, <1>7 DEF TypeInv

LEMMA BuryType == ASSUME TypeInv, NEW c \in Cpus, Bury(c) PROVE TypeInv'
  <1>1. procmap' \in [Pids -> 0..MAXPID]
    <2>1. NULL \in 0..MAXPID
      BY SchedAssumption DEF NULL
    <2> QED BY <2>1 DEF Bury, TypeInv, TypeOK
  <1>2. current' \in [Cpus -> Pids \cup {NULL, KPROC}] /\ \A d \in Cpus \ {c} : current'[d] = current[d]
    BY DEF Bury, TypeInv, TypeOK
  <1>3. Goto(c, "next") /\ "next" \in Labels
    BY DEF Bury, Labels
  <1>4. pc' \in [Cpus -> Labels]
    BY <1>3, Moves DEF TypeInv
  <1>5. TypeOK'
    BY <1>1, <1>2, <1>4 DEF Bury, queueVars, TypeInv, TypeOK
  <1>6. LocalsOK'
    BY <1>2, <1>3, LocalsStep DEF Bury
  <1> QED BY <1>5, <1>6 DEF TypeInv

LEMMA SchedBeginType == ASSUME TypeInv, NEW c \in Cpus, SchedBegin(c) PROVE TypeInv'
  <1>1. Goto(c, "run") /\ "run" \in Labels
    BY DEF SchedBegin, Labels
  <1>2. pc' \in [Cpus -> Labels]
    BY <1>1, Moves DEF TypeInv
  <1>3. TypeOK'
    BY <1>2 DEF SchedBegin, queueVars, TypeInv, TypeOK
  <1>4. LocalsOK'
    BY <1>1, LocalsStep DEF SchedBegin
  <1> QED BY <1>3, <1>4 DEF TypeInv

(* The handlers' other steps. *)
LEMMA QuietStepsType ==
  ASSUME TypeInv, NEW c \in Cpus,
         SchedWild(c) \/ TimerTick(c) \/ NextLock(c) \/ SyscallExit(c) \/ UnschedLock(c)
  PROVE  TypeInv'
  <1>1. PICK l \in {"wild", "next", "pop", "unsched", "remove"} : Goto(c, l)
                /\ (l = "wild" => pc[c] = "scan")
                /\ (l \in {"unsched", "remove"} => current[c] \in Pids)
    BY DEF SchedWild, TimerTick, NextLock, SyscallExit, UnschedLock, TypeInv, LocalsOK
  <1>2. l \in Labels /\ (l = "wild" => req[c].pid \in 1..pid_cur)
    BY <1>1 DEF Labels, TypeInv, LocalsOK
  <1>3. /\ UNCHANGED <<active, inactive, n, period, sched_ready, pid_cur, procmap, current, req>>
        /\ lock' = lock \/ \E q \in Cpus : lock' = [lock EXCEPT ![q] = TRUE]
    BY DEF SchedWild, TimerTick, NextLock, SyscallExit, UnschedLock, queueVars
  <1> QED BY <1>1, <1>2, <1>3, QuietType

LEMMA NextTypeInv == ASSUME TypeInv, [Next]_vars PROVE TypeInv'
  <1>1. CASE UNCHANGED vars
    BY <1>1 DEF vars, TypeInv, TypeOK, LocalsOK
  <1>2. ASSUME NEW c \in Cpus, BootNew(c) \/ \E prio \in Prios : LateNew(c, prio)
        PROVE  TypeInv'
    <2>1. CASE BootNew(c)
      <3>1. pid_cur \in Nat /\ pid_cur + 1 \in 1..Len(BootPrios) /\ pid_cur < MAXPID
        BY <2>1, SchedAssumption DEF BootNew, TypeInv, TypeOK
      <3>2. BootPrios[pid_cur + 1] \in Prios
        BY <3>1, SchedAssumption, ElementOfSeq
      <3> QED BY <2>1, <3>1, <3>2, DrawPidType DEF BootNew
    <2>2. CASE \E prio \in Prios : LateNew(c, prio)
      BY <2>2, DrawPidType DEF LateNew
    <2> QED BY <1>2, <2>1, <2>2
  <1>3. ASSUME NEW c \in Cpus, NextPop(c) \/ NextSweep(c)
        PROVE  TypeInv'
    <2>1. active[c] \in Queues(Pids) /\ inactive[c] \in Queues(Pids)
      BY DEF TypeInv, TypeOK, Queues
    <2> QED BY <1>3, <2>1, PopFromType DEF NextPop, NextSweep
  <1> QED
    BY <1>1, <1>2, <1>3, NewProcType, ScanCpuType, SchedLockType, SchedPushType,
       NextPanicType, UnschedRemoveType, BuryType, SchedBeginType, QuietStepsType
    DEF Next, Creation, Switch, Exit

(* Type correctness, whatever the constants. *)
THEOREM TypeCorrect == Spec => []TypeOK
  <1>1. Spec => []TypeInv
    BY InitTypeInv, NextTypeInv, PTL DEF Spec
  <1> QED BY <1>1, PTL DEF TypeInv

-----------------------------------------------------------------------------
(* CPU c is inside the critical section of queue q. *)
Holds(c, q) == \/ pc[c] = "push" /\ req[c].cpu_min = q
               \/ pc[c] \in {"pop", "remove", "frozen", "assert_failed"} /\ c = q

Excl == \A q \in Cpus : /\ \A c, d \in Cpus : Holds(c, q) /\ Holds(d, q) => c = d
                        /\ lock[q] <=> \E c \in Cpus : Holds(c, q)

PanicEmpty == \A c \in Cpus : pc[c] = "frozen" => Members(active[c]) = {} /\ Members(inactive[c]) = {}

LockInv == TypeInv /\ Excl /\ PanicEmpty

(* A step of c that leaves the others where they are. *)
Alone(c) == \A d \in Cpus \ {c} : pc'[d] = pc[d] /\ req'[d] = req[d]

LEMMA AloneHolds ==
  ASSUME NEW c \in Cpus, Alone(c), NEW d \in Cpus \ {c}, NEW q
  PROVE  Holds(d, q)' <=> Holds(d, q)
  BY DEF Alone, Holds

(* The three ways in which a step of c can meet the spinlocks: not at all, *)
LEMMA ExclQuiet ==
  ASSUME Excl, NEW c \in Cpus, Alone(c), lock' = lock,
         \A q \in Cpus : Holds(c, q)' <=> Holds(c, q)
  PROVE  Excl'
  <1>1. \A d, q \in Cpus : Holds(d, q)' <=> Holds(d, q)
    BY AloneHolds
  <1> HIDE DEF Holds
  <1> QED BY <1>1 DEF Excl

(* by ACQUIRE, *)
LEMMA ExclAcquire ==
  ASSUME TypeOK, Excl, NEW c \in Cpus, Alone(c), NEW q \in Cpus,
         ~lock[q], lock' = [lock EXCEPT ![q] = TRUE],
         \A r \in Cpus : ~Holds(c, r) /\ (Holds(c, r)' <=> r = q)
  PROVE  Excl'
  <1>1. \A d \in Cpus \ {c}, r \in Cpus : Holds(d, r)' <=> Holds(d, r)
    BY AloneHolds
  <1>2. lock'[q] /\ \A r \in Cpus \ {q} : lock'[r] = lock[r]
    BY DEF TypeOK
  <1> HIDE DEF Holds
  <1>3. ASSUME NEW r \in Cpus
        PROVE  /\ \A a, b \in Cpus : Holds(a, r)' /\ Holds(b, r)' => a = b
               /\ lock'[r] <=> \E a \in Cpus : Holds(a, r)'
    <2>1. CASE r = q
      BY <1>1, <1>2, <2>1 DEF Excl
    <2>2. CASE r # q
      BY <1>1, <1>2, <2>2 DEF Excl
    <2> QED BY <2>1, <2>2
  <1> QED BY <1>3 DEF Excl

(* or by RELEASE. *)
LEMMA ExclRelease ==
  ASSUME TypeOK, Excl, NEW c \in Cpus, Alone(c), NEW q \in Cpus,
         lock' = [lock EXCEPT ![q] = FALSE],
         \A r \in Cpus : (Holds(c, r) <=> r = q) /\ ~Holds(c, r)'
  PROVE  Excl'
  <1>1. \A d \in Cpus \ {c}, r \in Cpus : Holds(d, r)' <=> Holds(d, r)
    BY AloneHolds
  <1>2. ~lock'[q] /\ \A r \in Cpus \ {q} : lock'[r] = lock[r]
    BY DEF TypeOK
  <1> HIDE DEF Holds
  <1>3. ASSUME NEW r \in Cpus
        PROVE  /\ \A a, b \in Cpus : Holds(a, r)' /\ Holds(b, r)' => a = b
               /\ lock'[r] <=> \E a \in Cpus : Holds(a, r)'
    <2>1. CASE r = q
      BY <1>1, <1>2, <2>1 DEF Excl
    <2>2. CASE r # q
      BY <1>1, <1>2, <2>2 DEF Excl
    <2> QED BY <2>1, <2>2
  <1> QED BY <1>3 DEF Excl

(* Every step is one of these. *)
LEMMA NextExcl == ASSUME TypeInv, Excl, [Next]_vars PROVE Excl'
  <1>0. TypeOK /\ req \in [Cpus -> Reqs] /\ pc \in [Cpus -> Labels]
    BY DEF TypeInv, TypeOK, Reqs
  <1>1. CASE UNCHANGED vars
    BY <1>1 DEF vars, Excl, Holds
  <1>2. ASSUME NEW c \in Cpus, NEW prio, DrawPid(c, prio), pc[c] \in {"kmain", "run"} PROVE Excl'
    <2>1. Alone(c) /\ pc'[c] = "new" /\ lock' = lock
      BY <1>0, <1>2 DEF DrawPid, Goto, Alone, queueVars
    <2>2. \A q \in Cpus : ~Holds(c, q) /\ ~Holds(c, q)'
      BY <1>2, <2>1 DEF Holds
    <2> QED BY <2>1, <2>2, ExclQuiet
  <1>3. ASSUME NEW c \in Cpus, NewProc(c) \/ ScanCpu(c) \/ SchedWild(c) \/ SchedBegin(c) PROVE Excl'
    <2>1. Alone(c) /\ lock' = lock
      BY <1>0, <1>3 DEF NewProc, ScanCpu, SchedWild, SchedBegin, Goto, Alone, queueVars
    <2>2. pc[c] \in {"new", "scan", "kmain"} /\ pc'[c] \in {"scan", "wild", "run"}
      BY <1>0, <1>3 DEF NewProc, ScanCpu, SchedWild, SchedBegin, Goto
    <2>3. \A q \in Cpus : ~Holds(c, q) /\ ~Holds(c, q)'
      BY <2>2 DEF Holds
    <2> QED BY <2>1, <2>3, ExclQuiet
  <1>4. ASSUME NEW c \in Cpus, TimerTick(c) \/ SyscallExit(c) \/ Bury(c) PROVE Excl'
    <2>1. Alone(c) /\ lock' = lock
      BY <1>0, <1>4 DEF TimerTick, SyscallExit, Bury, Goto, Alone, queueVars
    <2>2. pc[c] \in {"run", "bury"} /\ pc'[c] \in {"next", "unsched"}
      BY <1>0, <1>4 DEF TimerTick, SyscallExit, Bury, Goto
    <2>3. \A q \in Cpus : ~Holds(c, q) /\ ~Holds(c, q)'
      BY <2>2 DEF Holds
    <2> QED BY <2>1, <2>3, ExclQuiet
  <1>5. ASSUME NEW c \in Cpus, NEW q \in Cpus, SchedLock(c, q) PROVE Excl'
    <2>1. Alone(c) /\ pc[c] = "scan" /\ pc'[c] = "push"
      BY <1>0, <1>5 DEF SchedLock, Goto, Alone
    <2>2. req'[c].cpu_min = q
      BY <1>0, <1>5 DEF SchedLock, Reqs
    <2>3. \A r \in Cpus : ~Holds(c, r) /\ (Holds(c, r)' <=> r = q)
      BY <2>1, <2>2 DEF Holds
    <2> QED BY <1>0, <1>5, <2>1, <2>3, ExclAcquire DEF SchedLock
  <1>6. ASSUME NEW c \in Cpus, NextLock(c) \/ UnschedLock(c) PROVE Excl'
    <2>1. Alone(c) /\ pc[c] \in {"next", "unsched"} /\ pc'[c] \in {"pop", "remove"}
      BY <1>0, <1>6 DEF NextLock, UnschedLock, Goto, Alone
    <2>2. \A r \in Cpus : ~Holds(c, r) /\ (Holds(c, r)' <=> r = c)
      BY <2>1 DEF Holds
    <2> QED BY <1>0, <1>6, <2>1, <2>2, ExclAcquire DEF NextLock, UnschedLock
  <1>7. ASSUME NEW c \in Cpus, SchedPush(c) PROVE Excl'
    <2>1. Alone(c) /\ pc[c] = "push" /\ pc'[c] \in {"run", "kmain"} /\ req[c].cpu_min \in Cpus
      BY <1>0, <1>7 DEF SchedPush, Goto, Alone, TypeInv, LocalsOK
    <2>2. \A r \in Cpus : (Holds(c, r) <=> r = req[c].cpu_min) /\ ~Holds(c, r)'
      BY <2>1 DEF Holds
    <2> QED BY <1>0, <1>7, <2>1, <2>2, ExclRelease DEF SchedPush
  <1>8. ASSUME NEW c \in Cpus, UnschedRemove(c) PROVE Excl'
    <2>1. Alone(c) /\ pc[c] = "remove" /\ pc'[c] = "bury"
      BY <1>0, <1>8 DEF UnschedRemove, Goto, Alone
    <2>2. \A r \in Cpus : (Holds(c, r) <=> r = c) /\ ~Holds(c, r)'
      BY <2>1 DEF Holds
    <2> QED BY <1>0, <1>8, <2>1, <2>2, ExclRelease DEF UnschedRemove
  <1>9. ASSUME NEW c \in Cpus, NextPanic(c) PROVE Excl'
    <2>1. Alone(c) /\ lock' = lock /\ pc[c] = "pop" /\ pc'[c] = "frozen"
      BY <1>0, <1>9 DEF NextPanic, Goto, Alone
    <2>2. \A q \in Cpus : Holds(c, q)' <=> Holds(c, q)
      BY <2>1 DEF Holds
    <2> QED BY <2>1, <2>2, ExclQuiet
  <1>10. ASSUME NEW c \in Cpus, NEW act, NEW ina, PopFrom(c, act, ina) PROVE Excl'
    <2> DEFINE found == procmap[TopPid(act)] # NULL
    <2>1. CASE found
      <3>1. Alone(c) /\ pc[c] = "pop" /\ pc'[c] = "run"
        BY <1>0, <1>10, <2>1 DEF PopFrom, Goto, Alone
      <3>2. lock' = [lock EXCEPT ![c] = FALSE]
        BY <1>10, <2>1 DEF PopFrom
      <3>3. \A r \in Cpus : (Holds(c, r) <=> r = c) /\ ~Holds(c, r)'
        BY <3>1 DEF Holds
      <3> QED BY <1>0, <3>1, <3>2, <3>3, ExclRelease
    <2>2. CASE ~found
      <3>1. Alone(c) /\ pc[c] = "pop" /\ pc'[c] = "assert_failed"
        BY <1>0, <1>10, <2>2 DEF PopFrom, Goto, Alone
      <3>2. lock[c] = TRUE /\ lock \in [Cpus -> BOOLEAN]
        BY <1>0, <3>1 DEF Excl, Holds, TypeOK
      <3>3. lock' = [lock EXCEPT ![c] = TRUE]
        BY <1>10, <2>2 DEF PopFrom
      <3>4. lock' = lock
        BY <3>2, <3>3
      <3>5. \A q \in Cpus : Holds(c, q)' <=> Holds(c, q)
        BY <3>1 DEF Holds
      <3> QED BY <3>1, <3>4, <3>5, ExclQuiet
    <2> QED BY <2>1, <2>2
  <1> QED
    BY <1>1, <1>2, <1>3, <1>4, <1>5, <1>6, <1>7, <1>8, <1>9, <1>10
    DEF Next, Creation, Switch, Exit, BootNew, LateNew, NextPop, NextSweep

(* The queues of a CPU that panicked stay as they are: its lock is never
   released, and whoever changes a queue holds its lock. *)
LEMMA Untouched ==
  ASSUME TypeInv, Excl, [Next]_vars, NEW c \in Cpus, pc[c] = "frozen"
  PROVE  active'[c] = active[c] /\ inactive'[c] = inactive[c]
  <1>0. /\ active \in [Cpus -> Queues(Pids)] /\ inactive \in [Cpus -> Queues(Pids)]
        /\ Holds(c, c)
    BY DEF TypeInv, TypeOK, Queues, Holds
  <1>1. CASE UNCHANGED <<active, inactive>>
    BY <1>1
  <1>2. ASSUME NEW d \in Cpus, SchedPush(d) PROVE active'[c] = active[c] /\ inactive'[c] = inactive[c]
    <2>1. req[d].cpu_min \in Cpus /\ Holds(d, req[d].cpu_min) /\ d # c
      BY <1>2 DEF SchedPush, TypeInv, LocalsOK, Holds
    <2>2. req[d].cpu_min # c
      BY <1>0, <2>1 DEF Excl
    <2> QED BY <1>0, <1>2, <2>1, <2>2 DEF SchedPush
  <1>3. ASSUME NEW d \in Cpus, NEW act, NEW ina, PopFrom(d, act, ina)
        PROVE  active'[c] = active[c] /\ inactive'[c] = inactive[c]
    <2>1. d # c
      BY <1>3 DEF PopFrom
    <2> QED BY <1>0, <1>3, <2>1 DEF PopFrom
  <1>4. ASSUME NEW d \in Cpus, NextPanic(d) PROVE active'[c] = active[c] /\ inactive'[c] = inactive[c]
    <2>1. d # c
      BY <1>4 DEF NextPanic
    <2> QED BY <1>0, <1>4, <2>1 DEF NextPanic
  <1>5. ASSUME NEW d \in Cpus, UnschedRemove(d) PROVE active'[c] = active[c] /\ inactive'[c] = inactive[c]
    <2>1. d # c
      BY <1>5 DEF UnschedRemove
    <2> QED BY <1>0, <1>5, <2>1 DEF UnschedRemove
  <1> QED
    BY <1>1, <1>2, <1>3, <1>4, <1>5
    DEF Next, Creation, Switch, Exit, BootNew, LateNew, DrawPid, NewProc, ScanCpu, SchedLock,
        SchedWild, SchedBegin, TimerTick, NextLock, NextPop, NextSweep, SyscallExit,
        UnschedLock, Bury, queueVars, vars

(* A CPU gets to "frozen" only through the panic, with both queues empty. *)
LEMMA Freezes ==
  ASSUME TypeInv, [Next]_vars, NEW c \in Cpus, pc'[c] = "frozen", pc[c] # "frozen"
  PROVE  NextPanic(c)
  <1>0. pc \in [Cpus -> Labels]
    BY DEF TypeInv, TypeOK
  <1>1. ASSUME NEW d \in Cpus, NEW l, Goto(d, l), l # "frozen" PROVE FALSE
    BY <1>0, <1>1 DEF Goto
  <1>2. ASSUME NEW d \in Cpus, NextPanic(d) PROVE NextPanic(c)
    BY <1>0, <1>2 DEF NextPanic, Goto
  <1>3. UNCHANGED pc => FALSE
    OBVIOUS
  <1> QED
    BY <1>1, <1>2, <1>3, ZenonT(40)
    DEF Next, Creation, Switch, Exit, BootNew, LateNew, DrawPid, NewProc, ScanCpu, SchedLock,
        SchedWild, SchedPush, SchedBegin, TimerTick, NextLock, NextPop, NextSweep, PopFrom,
        SyscallExit, UnschedLock, UnschedRemove, Bury, vars

LEMMA NextPanicEmpty == ASSUME TypeInv, Excl, PanicEmpty, [Next]_vars PROVE PanicEmpty'
  <1> SUFFICES ASSUME NEW c \in Cpus, pc'[c] = "frozen"
               PROVE  Members(active'[c]) = {} /\ Members(inactive'[c]) = {}
    BY DEF PanicEmpty
  <1>1. CASE pc[c] = "frozen"
    BY <1>1, Untouched DEF PanicEmpty
  <1>2. CASE pc[c] # "frozen"
    <2>1. NextPanic(c)
      BY <1>2, Freezes
    <2>2. active[c] \in Queues(Pids) /\ inactive[c] \in Queues(Pids)
      BY DEF TypeInv, TypeOK, Queues
    <2>3. Members(active[c]) = {} /\ Members(inactive[c]) = {}
      BY <2>1, <2>2, NoLevels DEF NextPanic
    <2>4. active'[c] = inactive[c] /\ inactive'[c] = active[c]
      BY <2>1 DEF NextPanic, TypeInv, TypeOK
    <2> QED BY <2>3, <2>4
  <1> QED BY <1>1, <1>2

LEMMA InitLockInv == Init => LockInv
  <1> SUFFICES ASSUME Init PROVE LockInv
    OBVIOUS
  <1>1. \A c \in Cpus : pc[c] \in {"kmain", "run"} /\ lock[c] = FALSE
    BY DEF Init
  <1>2. Excl /\ PanicEmpty
    BY <1>1 DEF Excl, PanicEmpty, Holds
  <1> QED BY <1>2, InitTypeInv DEF LockInv

LEMMA Locks == Spec => []LockInv
  <1>1. ASSUME LockInv, [Next]_vars PROVE LockInv'
    BY <1>1, NextTypeInv, NextExcl, NextPanicEmpty DEF LockInv
  <1> QED BY InitLockInv, <1>1, PTL DEF Spec

(* The spinlocks of sched_cpu_queues exclude, whoever takes them: schedule on
   any CPU, and proc_next and unschedule on the CPU of the queue. *)
THEOREM LocksExclude == Spec => []Exclusion
  <1>1. LockInv => Exclusion
    BY DEF LockInv, Excl, Holds, Exclusion, Inside
  <1> QED BY <1>1, Locks, PTL

(* "No processes available!" of proc_next stays true: no CPU can queue a process
   on one that panicked. *)
THEOREM PanicIsFinal == Spec => []PanicOnlyWhenEmpty
  <1>1. LockInv => PanicOnlyWhenEmpty
    BY DEF LockInv, PanicEmpty, PanicOnlyWhenEmpty, Queued
  <1> QED BY <1>1, Locks, PTL
=============================================================================
