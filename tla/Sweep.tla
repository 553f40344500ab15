------------------------------- MODULE Sweep -------------------------------
(***************************************************************************)
(* What the scheduler promises, without queues, priorities, counters or    *)
(* locks.  Every CPU owns a set of processes.  It serves them in sweeps:   *)
(* a process is dispatched at most once per sweep, and a new sweep starts  *)
(* only when every process the CPU owns has been served.  A process added  *)
(* or removed meanwhile changes nothing for the others.                    *)
(***************************************************************************)
CONSTANTS Cpus,       \* the CPUs
          Procs,      \* the processes
          Idle        \* what a CPU runs when it runs no process

VARIABLES pending,    \* pending[c]: not yet served in the sweep of c
          served,     \* served[c]: already served in it
          running     \* running[c]: what c executes

vars == <<pending, served, running>>

Owned(c) == pending[c] \cup served[c]
Known == UNION {Owned(c) : c \in Cpus}

Init == /\ pending = [c \in Cpus |-> {}]
        /\ served  = [c \in Cpus |-> {}]
        /\ running \in [Cpus -> Idle]

(* A process nobody owns is given to one CPU; it waits for the next sweep. *)
Add(c, p) ==
  /\ p \notin Known
  /\ served' = [served EXCEPT ![c] = @ \cup {p}]
  /\ UNCHANGED <<pending, running>>

(* c turns to a process of its current sweep ... *)
Dispatch(c, p) ==
  /\ p \in pending[c]
  /\ pending' = [pending EXCEPT ![c] = @ \ {p}]
  /\ served'  = [served EXCEPT ![c] = @ \cup {p}]
  /\ running' = [running EXCEPT ![c] = p]

(* ... or, when all have been served, starts a new sweep with one of them. *)
NewSweep(c, p) ==
  /\ pending[c] = {}
  /\ p \in served[c]
  /\ pending' = [pending EXCEPT ![c] = served[c] \ {p}]
  /\ served'  = [served EXCEPT ![c] = {p}]
  /\ running' = [running EXCEPT ![c] = p]

(* The process c runs gives up its place, *)
Retire(c) ==
  /\ running[c] \in Owned(c)
  /\ pending' = [pending EXCEPT ![c] = @ \ {running[c]}]
  /\ served'  = [served EXCEPT ![c] = @ \ {running[c]}]
  /\ UNCHANGED running

(* and is gone once it has none. *)
Leave(c) ==
  /\ running[c] \notin Owned(c)
  /\ \E i \in Idle : running' = [running EXCEPT ![c] = i]
  /\ UNCHANGED <<pending, served>>

Next == \E c \in Cpus :
          \/ \E p \in Procs : Add(c, p) \/ Dispatch(c, p) \/ NewSweep(c, p)
          \/ Retire(c)
          \/ Leave(c)

Spec == Init /\ [][Next]_vars
=============================================================================
