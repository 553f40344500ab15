------------------------------ MODULE HashMap ------------------------------
(***************************************************************************)
(* The hash map of kernel/map.c, one map used by one caller at a time, as  *)
(* procmap and the physmap of an address space are.  A key is a model      *)
(* value with the 64-bit hash the constant Hash gives it.                  *)
(***************************************************************************)
EXTENDS Integers, FiniteSets

CONSTANTS
  Keys, Vals,
  Hash,       \* Hash[k]: what hash(k) returns
  NULL,       \* no value, no key
  JUNK,       \* a key that compares equal to none
  CAP,        \* the first capacity; map_new makes it at least 8
  MAXCAP      \* bound: the map grows no further

ASSUME MapAssumption ==
  /\ Hash \in [Keys -> Nat]
  /\ CAP \in Nat /\ CAP >= 4 /\ MAXCAP \in Nat
  /\ NULL \notin Keys \cup Vals
  /\ JUNK \notin Keys \cup {NULL}

VARIABLES
  cell,       \* cell[i]: the key and value in cell i, and the cached hash
  cap, max,   \* as in the struct
  stored,     \* stored[k]: the value the caller put under k last
  grown,      \* map_grow has run
  blind       \* map_del returned early although the key was there

vars == <<cell, cap, max, stored, grown, blind>>

Empty == [key |-> NULL, val |-> NULL, h |-> 0]
Used(c, i) == c[i].key # NULL

Init ==
  /\ cap = CAP /\ max = 0
  /\ cell = [i \in 0..(CAP - 1) |-> Empty]
  /\ stored = [k \in Keys |-> NULL]
  /\ grown = FALSE /\ blind = FALSE

-----------------------------------------------------------------------------
(* Mutant: the search ends before max. *)
MatchesBelowMax(k) == IF max = 0 THEN {} ELSE {i \in 0..(max - 1) : cell[i].key = k}

(* map_get and map_del look at the cells 0..max, from the one after idx round
   to idx; a map whose max is 0 they take for empty. *)
Clipped(k) == IF Hash[k] % cap > max THEN max ELSE Hash[k] % cap
Distance(k, i) == (i - Clipped(k) - 1) % (max + 1)
Matches(k) == IF max = 0 THEN {} ELSE {i \in 0..max : cell[i].key = k}
Found(k) == CHOOSE i \in Matches(k) : \A j \in Matches(k) : Distance(k, i) <= Distance(k, j)

map_get(k) == IF Matches(k) = {} THEN NULL ELSE cell[Found(k)].val

(* The first empty cell after idx, going round at n; idx itself if none. *)
Probe(c, idx, n) ==
  LET frees == {d \in 1..n : ~Used(c, (idx + d) % n)}
  IN IF frees = {} THEN idx
     ELSE (idx + (CHOOSE d \in frees : \A e \in frees : d <= e)) % n

(* Mutant: the copy does not look for an empty cell. *)
GrowNoProbe(c, idx) == idx

(* map_grow copies every cell up to max; its probe starts at idx and goes
   round at the old capacity. *)
GrowProbe(c, idx) == IF Used(c, idx) THEN Probe(c, idx, cap) ELSE idx
CopyCell(c, i, ncap) ==
  IF Used(cell, i) THEN [c EXCEPT ![GrowProbe(c, cell[i].h % ncap)] = cell[i]] ELSE c
Regrown(ncap) ==
  LET copy[i \in 0..(max + 1)] ==
        IF i = 0 THEN [j \in 0..(ncap - 1) |-> Empty] ELSE CopyCell(copy[i - 1], i - 1, ncap)
  IN copy[max + 1]

(* Mutants: max is one too large, or stays. *)
PutInPastMax(c, n, m, k, entry) ==
  LET i == Probe(c, Hash[k] % n, n)
  IN /\ cell' = [c EXCEPT ![i] = entry]
     /\ max' = IF i >= m THEN i + 1 ELSE m
     /\ cap' = n

PutInKeepsMax(c, n, m, k, entry) ==
  LET i == Probe(c, Hash[k] % n, n)
  IN /\ cell' = [c EXCEPT ![i] = entry]
     /\ max' = m
     /\ cap' = n

(* map_insert stores the entry in the cell its probe found. *)
PutIn(c, n, m, k, entry) ==
  LET i == Probe(c, Hash[k] % n, n)
  IN /\ cell' = [c EXCEPT ![i] = entry]
     /\ max' = IF i > m THEN i ELSE m
     /\ cap' = n

HasRoom(c) == \E i \in DOMAIN c : ~Used(c, i)

(* Mutant: the new map is as small as the old one. *)
NewCapSame == cap

(* A full map grows by half.  The new map has max 0, and the key and value are
   copied over the length fields of their buffers instead of into them. *)
NewCap == (cap * 3) \div 2
map_insert(c, k, v) ==
  \/ /\ HasRoom(c)
     /\ PutIn(c, cap, max, k, [key |-> k, val |-> v, h |-> Hash[k]])
     /\ UNCHANGED grown
  \/ /\ ~HasRoom(c) /\ NewCap <= MAXCAP
     /\ PutIn(Regrown(NewCap), NewCap, 0, k, [key |-> JUNK, val |-> JUNK, h |-> Hash[k]])
     /\ grown' = TRUE

(* map_del clears the cell it finds, and max stays. *)
Deleted(k) == IF Matches(k) = {} THEN cell ELSE [cell EXCEPT ![Found(k)] = Empty]
Overlooked(k) == max = 0 /\ cell[0].key = k

-----------------------------------------------------------------------------
(* The callers insert a key that is not there: proc_new a new pid, tab_new the
   address of a page it has just been given. *)
Insert(k, v) ==
  /\ stored[k] = NULL
  /\ map_insert(cell, k, v)
  /\ stored' = [stored EXCEPT ![k] = v]
  /\ UNCHANGED blind

Delete(k) ==
  /\ cell' = Deleted(k)
  /\ blind' = (blind \/ Overlooked(k))
  /\ stored' = [stored EXCEPT ![k] = NULL]
  /\ UNCHANGED <<cap, max, grown>>

(* map_set: map_del, then map_insert. *)
Set(k, v) ==
  /\ map_insert(Deleted(k), k, v)
  /\ blind' = (blind \/ Overlooked(k))
  /\ stored' = [stored EXCEPT ![k] = v]

Next == \E k \in Keys : \/ Delete(k)
                        \/ \E v \in Vals : Insert(k, v) \/ Set(k, v)

Spec == Init /\ [][Next]_vars

-----------------------------------------------------------------------------
Entry == [key : Keys \cup {NULL, JUNK}, val : Vals \cup {NULL, JUNK}, h : Nat]

TypeOK ==
  /\ cap \in Nat /\ max \in 0..(cap - 1)
  /\ cell \in [0..(cap - 1) -> Entry]
  /\ stored \in [Keys -> Vals \cup {NULL}]
  /\ grown \in BOOLEAN /\ blind \in BOOLEAN

(* Until the map grows, and unless a deletion was overlooked, map_get returns
   what was stored last, for every key and after any insertions, deletions and
   replacements; it misses only the one entry of a map whose max is 0. *)
GetIsLookup ==
  ~grown /\ ~blind => \A k \in Keys : map_get(k) = stored[k] \/ Overlooked(k)

(* No step drops or changes an entry that its caller did not, the copying of map_grow
   with its probe at the old capacity included. *)
Entries(k) == {e \in {cell[i] : i \in DOMAIN cell} : e.key = k}
OthersKept ==
  [][\A j \in Keys : ~grown /\ ~blind /\ stored[j] # NULL /\ stored'[j] = stored[j]
                       => Entries(j)' = Entries(j)]_vars

(* The unreachable statement of map_insert is: a map that has grown has an
   empty cell other than the one the probe starts from. *)
GrowthFindsRoom ==
  ~grown /\ ~HasRoom(cell) =>
    \A k \in Keys : LET idx == Hash[k] % NewCap
                    IN Probe(Regrown(NewCap), idx, NewCap) # idx
=============================================================================
