---------------------------- MODULE RunQueueSpec ----------------------------
(***************************************************************************)
(* The queues of one CPU as sequences: what module Sched takes the code    *)
(* under a queue lock to do.  Module SchedList implements it.              *)
(***************************************************************************)
EXTENDS RunQueue

CONSTANT Pids

VARIABLES active, inactive

vars == <<active, inactive>>

Queued == Members(active) \cup Members(inactive)

Init == active = EmptyQueue /\ inactive = EmptyQueue

(* schedule *)
Enter(pid, prio) ==
  /\ pid \notin Queued
  /\ inactive' = Push(inactive, pid, prio)
  /\ UNCHANGED active

(* proc_next, with act and ina the queues after a possible exchange *)
Rotate(act, ina) ==
  /\ Levels(act) # {}
  /\ active' = Pop(act)
  /\ inactive' = Push(ina, TopPid(act), TopLevel(act))

(* unschedule *)
Remove(pid) ==
  /\ pid \in Queued
  /\ active' = TryRemove(active, pid)
  /\ inactive' = IF Holding(active, pid) # {} THEN inactive ELSE TryRemove(inactive, pid)

Next == \/ \E pid \in Pids, prio \in Prios : Enter(pid, prio)
        \/ Rotate(active, inactive)
        \/ Levels(active) = {} /\ Rotate(inactive, active)
        \/ \E pid \in Pids : Remove(pid)

Spec == Init /\ [][Next]_vars
=============================================================================
