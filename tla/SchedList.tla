----------------------------- MODULE SchedList -----------------------------
(***************************************************************************)
(* The run queues of one CPU as kernel/sched.c stores them: nodes linked   *)
(* through next, and per level a start and an end pointer.  All of it runs *)
(* under the lock of the queue, so an operation is one step.               *)
(***************************************************************************)
EXTENDS RunQueue, FiniteSets

CONSTANT Pids         \* a node is named by its pid

VARIABLES next,       \* next[n]: the next pointer of node n
          start, end, \* start[q][p], end[q][p]: the struct queue q
          act         \* the struct that the active pointer leads to

vars == <<next, start, end, act>>

NULL == 0
Ptr == Pids \cup {NULL}
Structs == {"A", "B"}
Other(q) == IF q = "A" THEN "B" ELSE "A"

ASSUME PidAssumption == NULL \notin Pids /\ IsFiniteSet(Pids)

(* A node is only written when it is linked: what kalloc returned is in it. *)
Init == /\ next \in [Pids -> Ptr]
        /\ start = [q \in Structs |-> [p \in Prios |-> NULL]]
        /\ end = [q \in Structs |-> [p \in Prios |-> NULL]]
        /\ act = "A"

-----------------------------------------------------------------------------
(* The nodes that following the next pointers nx from node n visits, cut off
   after limit of them. *)
Walk(nx, limit) ==
  LET from[k \in 0..limit] ==
        [n \in Ptr |-> IF n = NULL \/ k = 0 THEN <<>> ELSE <<n>> \o from[k - 1][nx[n]]]
  IN from[limit]
Chain(q, p) == Walk(next, Cardinality(Pids) + 1)[start[q][p]]
Chains(q) == [p \in Prios |-> Chain(q, p)]
Linked == Members(Chains("A")) \cup Members(Chains("B"))

-----------------------------------------------------------------------------
(* push_unlocked(new, prio) on struct q, in a memory nx, st, en. *)
PushUnlocked(nx, st, en, q, new, prio) ==
  /\ next' = IF en[q][prio] # NULL THEN [nx EXCEPT ![en[q][prio]] = new] ELSE nx
  /\ end' = [en EXCEPT ![q][prio] = new]
  /\ start' = [st EXCEPT ![q][prio] = IF @ = NULL THEN new ELSE @]

(* Mutant: next of the fresh node is left as kalloc returned it. *)
ScheduleUnset(new, prio) ==
  /\ new \notin Linked
  /\ PushUnlocked(next, start, end, Other(act), new, prio)
  /\ UNCHANGED act

(* schedule: a fresh node with next = NULL goes to the inactive queue. *)
Schedule(new, prio) ==
  /\ new \notin Linked
  /\ PushUnlocked([next EXCEPT ![new] = NULL], start, end, Other(act), new, prio)
  /\ UNCHANGED act

(* Mutant: the levels are searched downwards. *)
PopUnlockedLowest(q) ==
  \E p \in Prios :
    LET node == start[q][p] IN
    /\ node # NULL
    /\ \A r \in Prios : r > p => start[q][r] = NULL
    /\ PushUnlocked([next EXCEPT ![node] = NULL],
                    [start EXCEPT ![q][p] = next[node]],
                    [end EXCEPT ![q][p] = IF @ = node THEN NULL ELSE @],
                    Other(q), node, p)

(* pop_unlocked when q is the active queue: the head of the first level with
   a start moves to the inactive queue. *)
PopUnlocked(q) ==
  \E p \in Prios :
    LET node == start[q][p] IN
    /\ node # NULL
    /\ \A r \in Prios : r < p => start[q][r] = NULL
    /\ PushUnlocked([next EXCEPT ![node] = NULL],
                    [start EXCEPT ![q][p] = next[node]],
                    [end EXCEPT ![q][p] = IF @ = node THEN NULL ELSE @],
                    Other(q), node, p)

NoStart(q) == \A p \in Prios : start[q][p] = NULL

(* proc_next, with the exchange of the queues when the active one is empty. *)
ProcNext == PopUnlocked(act) /\ UNCHANGED act
ProcNextSwap == NoStart(act) /\ PopUnlocked(Other(act)) /\ act' = Other(act)

(* queue_tryremove of node n, at level p of struct q. *)
Unlinked(q, p, n) ==
  LET c == Chain(q, p)
      i == FirstIndex(c, n)
      prev == IF i = 1 THEN NULL ELSE c[i - 1]
  IN /\ end' = [end EXCEPT ![q][p] = IF @ = n THEN prev ELSE @]
     /\ IF prev # NULL
          THEN next' = [next EXCEPT ![prev] = next[n]] /\ UNCHANGED start
          ELSE start' = [start EXCEPT ![q][p] = next[n]] /\ UNCHANGED next

(* unschedule: the active queue first, the levels upwards.  After kfree the
   node's memory belongs to the heap again. *)
Unschedule(n) ==
  LET q == IF Holding(Chains(act), n) # {} THEN act ELSE Other(act)
  IN /\ n \in Linked
     /\ Unlinked(q, FirstLevel(Chains(q), n), n)
     /\ UNCHANGED act

Next == \/ \E n \in Pids, prio \in Prios : Schedule(n, prio)
        \/ ProcNext \/ ProcNextSwap
        \/ \E n \in Pids : Unschedule(n)

Spec == Init /\ [][Next]_vars

-----------------------------------------------------------------------------
(* The end pointers that push_unlocked appends through are never stale: end is
   the last node reached from start, NULL exactly when there is none, and the
   chain ends there. *)
EndIsLast ==
  \A q \in Structs, p \in Prios :
    LET c == Chain(q, p)
    IN IF c = <<>> THEN end[q][p] = NULL
                   ELSE end[q][p] = c[Len(c)] /\ next[c[Len(c)]] = NULL

(* The pointer code does what the queue operators of module RunQueue say. *)
Queues == INSTANCE RunQueueSpec WITH
  active <- Chains(act), inactive <- Chains(Other(act))
ImplementsQueues == Queues!Spec
=============================================================================
