------------------------------ MODULE RunQueue ------------------------------
(***************************************************************************)
(* The multi-level queue of kernel/sched.c as data: a struct queue is a    *)
(* function from priority levels to the sequence of the pids of its nodes, *)
(* start[] first, end[] last.  These operators are what push_unlocked,     *)
(* pop_unlocked and queue_tryremove do to such a queue; module SchedList   *)
(* shows that the pointer code does exactly this.                          *)
(***************************************************************************)
EXTENDS Integers, Sequences

CONSTANT NPRIOR       \* number of priority levels, sched.c:11

ASSUME NPriorAssumption == NPRIOR \in Nat \ {0}

Prios == 0..(NPRIOR - 1)

(* A zeroed struct queue (kzalloc in sched_init). *)
EmptyQueue == [p \in Prios |-> <<>>]

(* The pids of the nodes that hang off a queue. *)
Members(q) == UNION {{q[p][i] : i \in DOMAIN q[p]} : p \in Prios}

-----------------------------------------------------------------------------
(* push_unlocked: at the tail of its priority level. *)
Push(q, pid, prio) == [q EXCEPT ![prio] = Append(@, pid)]

(* Mutant: start[] is not advanced. *)
PopKeepsHead(q) == q

(* pop_unlocked takes the head of the first level, from 0 up, that is not
   empty: 0 is the most urgent priority. *)
Levels(q) == {p \in Prios : q[p] # <<>>}
TopLevel(q) == CHOOSE p \in Levels(q) : \A r \in Levels(q) : p <= r
TopPid(q) == Head(q[TopLevel(q)])
Pop(q) == [q EXCEPT ![TopLevel(q)] = Tail(@)]

(* Mutant: the node is freed, and its pid overwritten, but it stays linked. *)
UnlinkFreesOnly(s, i) == [s EXCEPT ![i] = 0]

(* queue_tryremove unlinks the first node with this pid, scanning the levels
   upwards and each level from its start. *)
Holding(q, pid) == {p \in Prios : \E i \in DOMAIN q[p] : q[p][i] = pid}
FirstLevel(q, pid) == CHOOSE p \in Holding(q, pid) : \A r \in Holding(q, pid) : p <= r
FirstIndex(s, pid) ==
  CHOOSE i \in DOMAIN s : s[i] = pid /\ \A j \in DOMAIN s : s[j] = pid => i <= j
Unlink(s, i) == [j \in 1..(Len(s) - 1) |-> IF j < i THEN s[j] ELSE s[j + 1]]
TryRemove(q, pid) ==
  IF Holding(q, pid) = {}
    THEN q
    ELSE [q EXCEPT ![FirstLevel(q, pid)] = Unlink(@, FirstIndex(@, pid))]
=============================================================================
