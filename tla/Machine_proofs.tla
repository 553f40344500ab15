--------------------------- MODULE Machine_proofs ---------------------------
(***************************************************************************)
(* What the kernel does with its CPUs and devices, for any number of them. *)
(* Part 1, MpBoot: the barrier of mp_init and the lock of printf.  The     *)
(* central fact is that cpus_ready, incremented without a lock, never      *)
(* exceeds the number of CPUs that are ready.                              *)
(* Part 2, Entry: the registers of a CPU, for any set of processes and any *)
(* number of register versions, from two invariants: which frame is where, *)
(* and what the processor holds (selectors, and how far a CPU must have    *)
(* set itself up to have a tick).                                          *)
(* Part 3, Devices: the arithmetic of pci.c for every size of the          *)
(* configuration space, and what it means for the bytes that LAI reads and *)
(* writes.                                                                 *)
(* Part 4, AddrSpace: the address spaces of processes, wherever their      *)
(* roots lie.                                                              *)
(***************************************************************************)
EXTENDS MpBoot, Entry, Devices, AddrSpace, FiniteSetTheorems, TLAPS

(* Part 1: bringing up the CPUs. *)
(* Scheduling starts only after the wait. *)
ReadyAfterWait == sched_ready => at[0] \notin {"wake", "wait", "setup"}

(* BarrierHolds is inductive together with the bound on the counter, of which
   the value in flight between the load and the store of ++ is part. *)
IInv == TypeOK /\ NeverOvercounts /\ ReadyAfterWait /\ BarrierHolds

(* The APs are a finite set of ncpus - 1 CPUs. *)
LEMMA APsFinite == /\ IsFiniteSet(APs)
                   /\ Cardinality(APs) = NCPUS - 1
  <1>1. /\ IsFiniteSet(1..(NCPUS - 1))
        /\ Cardinality(1..(NCPUS - 1)) = IF 1 > NCPUS - 1 THEN 0 ELSE NCPUS - 1 - 1 + 1
    BY FS_Interval, NCpusAssumption
  <1> QED BY <1>1, NCpusAssumption DEF APs

(* A set of APs is finite and no larger than all of them; equal in number, it
   is all of them. *)
LEMMA SomeAPs ==
  ASSUME NEW S \in SUBSET APs
  PROVE  /\ IsFiniteSet(S)
         /\ Cardinality(S) \in Nat
         /\ Cardinality(S) <= NCPUS - 1
         /\ Cardinality(S) >= NCPUS - 1 => S = APs
  <1>1. IsFiniteSet(S) /\ Cardinality(S) <= Cardinality(APs)
        /\ (Cardinality(APs) = Cardinality(S) => APs = S)
    BY FS_Subset, APsFinite
  <1>2. Cardinality(S) \in Nat
    BY <1>1, FS_CardinalityType
  <1> QED BY <1>1, <1>2, APsFinite, NCpusAssumption

(* More APs that are done do not make their number smaller. *)
LEMMA MoreAPs ==
  ASSUME NEW S \in SUBSET APs, NEW T \in SUBSET APs, S \subseteq T
  PROVE  Cardinality(S) <= Cardinality(T)
  BY FS_Subset, SomeAPs

(* The initial state. *)
LEMMA InitIInv == MpInit => IInv
  <1> SUFFICES ASSUME MpInit PROVE IInv
    OBVIOUS
  <1>1. TypeOK
    <2>1. at \in [Cpus -> Labels]
      BY DEF MpInit, Labels, BspLabels, ApLabels
    <2>2. woken \in 0..NCPUS /\ cpus_ready \in 1..NCPUS /\ loaded \in [Cpus -> 0..NCPUS]
      BY NCpusAssumption DEF MpInit
    <2> QED BY <2>1, <2>2 DEF MpInit, TypeOK
  <1>2. Done = {}
    BY NCpusAssumption DEF MpInit, Done, APs, Cpus
  <1>3. NeverOvercounts
    BY <1>2, FS_EmptySet, NCpusAssumption DEF MpInit, NeverOvercounts, APs, Cpus
  <1>4. ReadyAfterWait /\ BarrierHolds
    BY NCpusAssumption DEF MpInit, ReadyAfterWait, BarrierHolds, Cpus
  <1> QED BY <1>1, <1>3, <1>4 DEF IInv

(* A step that moves no AP back before its increment, leaves the counter alone
   and brings no AP to its store, keeps the bound and the barrier. *)
LEMMA QuietStep ==
  ASSUME IInv, TypeOK', cpus_ready' = cpus_ready, loaded' = loaded,
         Done \subseteq Done',
         \A c \in APs : at'[c] = "store" => at[c] = "store",
         ReadyAfterWait',
         at[0] \in {"wake", "wait"} => at'[0] \in {"wake", "wait"}
  PROVE  IInv'
  <1>1. Done \in SUBSET APs /\ Done' \in SUBSET APs
    BY DEF Done
  <1>2. Cardinality(Done) \in Nat /\ Cardinality(Done') \in Nat
    BY <1>1, SomeAPs
  <1>3. Cardinality(Done) <= Cardinality(Done')
    BY <1>1, MoreAPs
  <1>4. NeverOvercounts'
    <2>1. cpus_ready' <= 1 + Cardinality(Done')
      BY <1>2, <1>3 DEF IInv, TypeOK, NeverOvercounts
    <2>2. ASSUME NEW c \in APs, at'[c] = "store"
          PROVE  loaded'[c] <= 1 + Cardinality(Done')
      <3>1. loaded[c] <= 1 + Cardinality(Done)
        BY <2>2 DEF IInv, NeverOvercounts
      <3>2. loaded[c] \in Int
        BY NCpusAssumption DEF IInv, TypeOK, APs, Cpus
      <3> QED BY <3>1, <3>2, <1>2, <1>3
    <2> QED BY <2>1, <2>2 DEF NeverOvercounts
  <1>5. BarrierHolds'
    BY <1>1 DEF IInv, BarrierHolds
  <1> QED BY <1>4, <1>5 DEF IInv

(* The steps of mp_init.  The wait ends when the counter has reached ncpus;
   then there are at least ncpus - 1 APs done, and there are no more. *)
LEMMA BspStep == ASSUME IInv, Bsp PROVE IInv'
  <1>0. 0 \in Cpus /\ 0 \notin APs
    BY NCpusAssumption DEF Cpus, APs
  <1>1. CASE WakeCpu
    <2>1. TypeOK'
      BY <1>1, NCpusAssumption DEF WakeCpu, IInv, TypeOK
    <2>2. Done' = Done /\ ReadyAfterWait'
      BY <1>1 DEF WakeCpu, Done, IInv, ReadyAfterWait
    <2> QED BY <1>1, <2>1, <2>2, QuietStep DEF WakeCpu
  <1>2. CASE WakeDone
    <2>1. TypeOK'
      BY <1>0, <1>2 DEF WakeDone, Goto, IInv, TypeOK, Labels, BspLabels
    <2>2. \A c \in APs : at'[c] = at[c]
      BY <1>0, <1>2 DEF WakeDone, Goto, IInv, TypeOK
    <2>3. Done' = Done
      BY <2>2 DEF Done
    <2>4. ReadyAfterWait' /\ at'[0] = "wait"
      BY <1>0, <1>2 DEF WakeDone, Goto, IInv, TypeOK, ReadyAfterWait
    <2> QED BY <1>2, <2>1, <2>2, <2>3, <2>4, QuietStep DEF WakeDone
  <1>3. CASE WaitDone
    <2>1. TypeOK'
      BY <1>0, <1>3 DEF WaitDone, Goto, IInv, TypeOK, Labels, BspLabels
    <2>2. \A c \in APs : at'[c] = at[c]
      BY <1>0, <1>3 DEF WaitDone, Goto, IInv, TypeOK
    <2>3. Done' = Done /\ Done \in SUBSET APs
      BY <2>2 DEF Done
    <2>4. Done = APs
      BY <1>3, <2>3, SomeAPs, NCpusAssumption DEF WaitDone, IInv, NeverOvercounts
    <2>5. NeverOvercounts'
      BY <1>3, <2>2, <2>3 DEF WaitDone, IInv, NeverOvercounts
    <2>6. ReadyAfterWait'
      BY <1>3 DEF WaitDone, IInv, ReadyAfterWait
    <2> QED BY <2>1, <2>3, <2>4, <2>5, <2>6 DEF IInv, BarrierHolds
  <1>4. CASE SchedBegin
    <2>1. TypeOK'
      BY <1>0, <1>4 DEF SchedBegin, Goto, IInv, TypeOK, Labels
    <2>2. \A c \in APs : at'[c] = at[c]
      BY <1>0, <1>4 DEF SchedBegin, Goto, IInv, TypeOK
    <2>3. Done' = Done
      BY <2>2 DEF Done
    <2>4. ReadyAfterWait'
      BY <1>0, <1>4 DEF SchedBegin, Goto, IInv, TypeOK, ReadyAfterWait
    <2> QED BY <1>4, <2>1, <2>2, <2>3, <2>4, QuietStep DEF SchedBegin
  <1> QED BY <1>1, <1>2, <1>3, <1>4 DEF Bsp

(* What an AP's own step leaves alone. *)
LEMMA OneApMoves ==
  ASSUME TypeOK, NEW c \in APs, NEW l \in Labels, Goto(c, l)
  PROVE  /\ at' \in [Cpus -> Labels]
         /\ at'[c] = l /\ at'[0] = at[0]
         /\ \A d \in APs \ {c} : at'[d] = at[d]
         /\ (c \notin Done \/ l \notin {"off", "init", "load", "store"}) => Done \subseteq Done'
  <1>1. c \in Cpus /\ c # 0 /\ 0 \in Cpus /\ APs \subseteq Cpus
    BY NCpusAssumption DEF Cpus, APs
  <1>2. /\ at' \in [Cpus -> Labels]
        /\ at'[c] = l /\ at'[0] = at[0]
        /\ \A d \in APs \ {c} : at'[d] = at[d]
    BY <1>1 DEF TypeOK, Goto
  <1> QED BY <1>2 DEF Done

(* The steps of an AP.  A load takes a counter that does not overcount, and the
   AP that stores is done from then on, one more than when it loaded. *)
LEMMA ApStep == ASSUME IInv, NEW c \in APs, Ap(c) PROVE IInv'
  <1>0. c \in Cpus /\ TypeOK /\ Done \in SUBSET APs /\ Done' \in SUBSET APs
    BY NCpusAssumption DEF Cpus, APs, IInv, Done
  <1>1. CASE ApEnter(c) \/ ApInit(c)
    <2>1. PICK l \in {"init", "load"} : Goto(c, l)
      BY <1>1 DEF ApEnter, ApInit
    <2>2. c \notin Done
      BY <1>1 DEF ApEnter, ApInit, Done
    <2>3. l \in Labels
      BY DEF Labels, ApLabels
    <2>4. UNCHANGED <<woken, cpus_ready, loaded, sched_ready, printf_lock, cut>>
      BY <1>1 DEF ApEnter, ApInit
    <2>5. TypeOK' /\ ReadyAfterWait'
      BY <1>0, <2>1, <2>3, <2>4, OneApMoves DEF TypeOK, IInv, ReadyAfterWait
    <2> QED BY <1>0, <2>1, <2>2, <2>3, <2>4, <2>5, OneApMoves, QuietStep
  <1>2. CASE ApLoad(c)
    <2>1. Goto(c, "store") /\ "store" \in Labels /\ c \notin Done
      BY <1>2 DEF ApLoad, Labels, ApLabels, Done
    <2>2. /\ at' \in [Cpus -> Labels] /\ at'[0] = at[0] /\ at'[c] = "store"
          /\ \A d \in APs \ {c} : at'[d] = at[d]
      BY <1>0, <2>1, OneApMoves
    <2>3. Done' = Done
      BY <2>1, <2>2 DEF Done
    <2>4. loaded' \in [Cpus -> 0..NCPUS] /\ loaded'[c] = cpus_ready
          /\ \A d \in APs \ {c} : loaded'[d] = loaded[d]
      BY <1>0, <1>2, NCpusAssumption DEF ApLoad, TypeOK, APs, Cpus
    <2>5. TypeOK'
      BY <1>0, <1>2, <2>2, <2>4 DEF ApLoad, TypeOK
    <2>6. NeverOvercounts'
      BY <1>2, <2>2, <2>3, <2>4 DEF ApLoad, IInv, NeverOvercounts
    <2>7. ReadyAfterWait' /\ BarrierHolds'
      BY <1>2, <2>2, <2>3 DEF ApLoad, IInv, ReadyAfterWait, BarrierHolds
    <2> QED BY <2>5, <2>6, <2>7 DEF IInv
  <1>3. CASE ApStore(c)
    <2>1. Goto(c, "ready") /\ "ready" \in Labels /\ c \notin Done /\ at[c] = "store"
      BY <1>3 DEF ApStore, Labels, ApLabels, Done
    <2>2. /\ at' \in [Cpus -> Labels] /\ at'[0] = at[0] /\ at'[c] = "ready"
          /\ \A d \in APs \ {c} : at'[d] = at[d]
      BY <1>0, <2>1, OneApMoves
    <2>3. Done' = Done \cup {c}
      BY <2>1, <2>2 DEF Done
    <2>4. IsFiniteSet(Done) /\ Cardinality(Done) \in Nat /\ Cardinality(Done') <= NCPUS - 1
      BY <1>0, SomeAPs
    <2>5. Cardinality(Done') = Cardinality(Done) + 1
      BY <2>1, <2>3, <2>4, FS_AddElement
    <2>6. loaded[c] \in Nat /\ cpus_ready \in Nat /\ loaded[c] <= 1 + Cardinality(Done)
      BY <1>0, <2>1, NCpusAssumption DEF TypeOK, IInv, NeverOvercounts
    <2>7. cpus_ready' = loaded[c] + 1 /\ cpus_ready' <= 1 + Cardinality(Done')
      BY <1>3, <2>4, <2>5, <2>6 DEF ApStore
    <2>8. TypeOK'
      <3>1. cpus_ready' \in 1..NCPUS
        BY <2>4, <2>5, <2>6, <2>7, NCpusAssumption
      <3> QED BY <1>0, <1>3, <2>2, <3>1 DEF ApStore, TypeOK
    <2>9. NeverOvercounts'
      <3>1. ASSUME NEW d \in APs, at'[d] = "store"
            PROVE  loaded'[d] <= 1 + Cardinality(Done')
        <4>1. d # c /\ at[d] = "store"
          BY <2>2, <3>1
        <4>2. loaded[d] <= 1 + Cardinality(Done) /\ loaded[d] \in Nat
          BY <1>0, <4>1, NCpusAssumption DEF TypeOK, IInv, NeverOvercounts, APs, Cpus
        <4> QED BY <1>3, <2>4, <2>5, <4>2 DEF ApStore
      <3> QED BY <2>7, <3>1 DEF NeverOvercounts
    <2>10. ReadyAfterWait' /\ BarrierHolds'
      BY <1>0, <1>3, <2>2, <2>3 DEF ApStore, IInv, ReadyAfterWait, BarrierHolds
    <2> QED BY <2>8, <2>9, <2>10 DEF IInv
  <1>4. CASE ApPrint(c) \/ ApPrinted(c)
    <2>1. PICK l \in {"print", "idle"} : Goto(c, l)
      BY <1>4 DEF ApPrint, ApPrinted
    <2>2. l \in Labels
      BY DEF Labels
    <2>3. UNCHANGED <<woken, cpus_ready, loaded, sched_ready, cut>> /\ printf_lock' \in BOOLEAN
      BY <1>4 DEF ApPrint, ApPrinted
    <2>4. TypeOK' /\ ReadyAfterWait'
      BY <1>0, <2>1, <2>2, <2>3, OneApMoves DEF TypeOK, IInv, ReadyAfterWait
    <2> QED BY <1>0, <2>1, <2>2, <2>3, <2>4, OneApMoves, QuietStep
  <1> QED BY <1>1, <1>2, <1>3, <1>4 DEF Ap

(* The steps of scheduling: they start after the wait and bring no CPU back to
   the part of the code in front of it. *)
LEMMA SchedStep ==
  ASSUME IInv, NEW c \in Cpus,
         \/ TickSwitches(c) \/ Syscall(c) \/ SwitchPrint(c)
         \/ \E l \in {"user", "frozen"} : SwitchPrinted(c, l)
  PROVE  IInv'
  <1>1. PICK l \in {"switch", "swprint", "user", "frozen"} : Goto(c, l)
    BY DEF TickSwitches, Syscall, SwitchPrint, SwitchPrinted
  <1>2. UNCHANGED <<woken, cpus_ready, loaded, sched_ready>> /\ printf_lock' \in BOOLEAN
        /\ cut' \in SUBSET Cpus
    BY DEF TickSwitches, Syscall, SwitchPrint, SwitchPrinted, IInv, TypeOK
  <1>3. c = 0 => at[0] \notin {"wake", "wait", "setup"}
    BY DEF TickSwitches, Syscall, SwitchPrint, SwitchPrinted, IInv, ReadyAfterWait
  <1>4. l \in Labels /\ 0 \in Cpus /\ APs \subseteq Cpus
    BY NCpusAssumption DEF Labels, Cpus, APs
  <1>5. /\ at' \in [Cpus -> Labels] /\ at'[c] = l
        /\ \A d \in Cpus \ {c} : at'[d] = at[d]
    BY <1>1, <1>4 DEF Goto, IInv, TypeOK
  <1>6. TypeOK'
    BY <1>2, <1>5 DEF IInv, TypeOK
  <1>7. Done \subseteq Done' /\ \A d \in APs : at'[d] = "store" => at[d] = "store"
    BY <1>4, <1>5 DEF Done
  <1>8. ReadyAfterWait' /\ (at[0] \in {"wake", "wait"} => at'[0] \in {"wake", "wait"})
    BY <1>2, <1>3, <1>4, <1>5 DEF IInv, ReadyAfterWait
  <1> QED BY <1>2, <1>6, <1>7, <1>8, QuietStep

(* The inductive invariant holds throughout. *)
THEOREM Inductive == MpSpec => []IInv
  <1>1. ASSUME IInv, [MpNext]_mpVars PROVE IInv'
    <2>1. CASE UNCHANGED mpVars
      BY <1>1, <2>1 DEF mpVars, IInv, TypeOK, NeverOvercounts, ReadyAfterWait, BarrierHolds, Done
    <2>2. CASE MpNext
      BY <1>1, <2>2, BspStep, ApStep, SchedStep DEF MpNext
    <2> QED BY <1>1, <2>1, <2>2
  <1> QED BY InitIInv, <1>1, PTL DEF MpSpec

(* mp_init is a barrier for any number of CPUs: kmain goes on to sched_init only
   when every AP has finished its own initialisation. *)
THEOREM Barrier == MpSpec => []BarrierHolds
  BY Inductive, PTL DEF IInv

(* The counter of mp_start never exceeds the number of CPUs that are ready. *)
THEOREM NoOvercount == MpSpec => []NeverOvercounts
  BY Inductive, PTL DEF IInv

(* Type correctness, of which the bound of cpus_ready by ncpus is part. *)
THEOREM TypeCorrect == MpSpec => []TypeOK
  BY Inductive, PTL DEF IInv

-----------------------------------------------------------------------------
(* With two CPUs the only AP loads the BSP's 1 and stores 2. *)
Early == {"off", "init", "load", "store"}
OneApInv ==
  NCPUS = 2 => /\ at[1] \in Early => cpus_ready = 1
               /\ at[1] = "store" => loaded[1] = 1
               /\ at[1] \notin Early => cpus_ready = 2

LEMMA OneApNext == ASSUME IInv, OneApInv, [MpNext]_mpVars PROVE OneApInv'
  <1> SUFFICES ASSUME NCPUS = 2 PROVE OneApInv'
    BY DEF OneApInv
  <1>1. APs = {1} /\ Cpus = {0, 1}
    BY DEF APs, Cpus
  <1>2. at \in [{0, 1} -> Labels] /\ loaded \in [{0, 1} -> 0..NCPUS]
    BY <1>1 DEF IInv, TypeOK
  <1>3. CASE UNCHANGED mpVars
    BY <1>3 DEF mpVars, OneApInv
  <1>4. CASE Bsp
    BY <1>2, <1>4 DEF Bsp, WakeCpu, WakeDone, WaitDone, SchedBegin, Goto, OneApInv
  <1>5. CASE Ap(1)
    BY <1>2, <1>5
    DEF Ap, ApEnter, ApInit, ApLoad, ApStore, ApPrint, ApPrinted, Goto, OneApInv, Early
  <1>6. ASSUME NEW c \in Cpus,
               \/ TickSwitches(c) \/ Syscall(c) \/ SwitchPrint(c)
               \/ \E l \in {"user", "frozen"} : SwitchPrinted(c, l)
        PROVE  OneApInv'
    <2>1. c = 1 => at[1] \notin Early
      <3>1. sched_ready => 1 \in Done
        BY <1>1 DEF IInv, ReadyAfterWait, BarrierHolds
      <3> QED BY <1>6, <3>1 DEF TickSwitches, Syscall, SwitchPrint, SwitchPrinted, Early, Done
    <2>2. PICK l \in {"switch", "swprint", "user", "frozen"} : Goto(c, l)
      BY <1>6 DEF TickSwitches, Syscall, SwitchPrint, SwitchPrinted
    <2>3. UNCHANGED <<cpus_ready, loaded>>
      BY <1>6 DEF TickSwitches, Syscall, SwitchPrint, SwitchPrinted
    <2> QED BY <1>1, <1>2, <2>1, <2>2, <2>3 DEF Goto, OneApInv, Early
  <1> QED BY <1>1, <1>3, <1>4, <1>5, <1>6 DEF MpNext

(* On the two cores the Makefile starts, the unlocked ++cpus_ready of mp_start
   loses nothing. *)
THEOREM TwoCpus == MpSpec => []TwoCpusLoseNothing
  <1>1. MpInit => OneApInv
    BY DEF MpInit, OneApInv, Early, Cpus
  <1>2. ASSUME OneApInv PROVE TwoCpusLoseNothing
    <2> SUFFICES ASSUME NCPUS = 2 PROVE ~LostIncrement
      BY DEF TwoCpusLoseNothing
    <2>1. APs = {1}
      BY DEF APs
    <2>2. CASE at[1] \in Early
      <3>1. Done = {}
        BY <2>1, <2>2 DEF Done, Early
      <3> QED BY <1>2, <2>2, <3>1, FS_EmptySet DEF OneApInv, LostIncrement
    <2>3. CASE at[1] \notin Early
      <3>1. Done = {1}
        BY <2>1, <2>3 DEF Done, Early
      <3> QED BY <1>2, <2>3, <3>1, FS_Singleton DEF OneApInv, LostIncrement
    <2> QED BY <2>2, <2>3
  <1> QED BY <1>1, <1>2, OneApNext, Inductive, PTL DEF MpSpec

-----------------------------------------------------------------------------
(* Who answers for printf_lock: nobody, the one CPU inside printf, or the one
   AP that a tick took out of its "CPU %d ready" message, and then nobody gets
   in any more.  Only an AP is ever at "print". *)
LockShape ==
  /\ at[0] # "print"
  /\ \/ ~printf_lock /\ PrintHolders = {} /\ cut = {}
     \/ printf_lock /\ cut = {} /\ \E c \in Cpus : PrintHolders = {c}
     \/ printf_lock /\ PrintHolders = {} /\ \E c \in APs : cut = {c}

(* A step that moves one CPU changes the holders by that CPU at most. *)
LEMMA HolderMoves ==
  ASSUME TypeOK, NEW c \in Cpus, NEW l, Goto(c, l)
  PROVE  /\ at'[c] = l /\ \A d \in Cpus \ {c} : at'[d] = at[d]
         /\ PrintHolders' = IF l \in {"print", "swprint"} THEN PrintHolders \cup {c}
                            ELSE PrintHolders \ {c}
  <1>1. at'[c] = l /\ \A d \in Cpus \ {c} : at'[d] = at[d]
    BY DEF TypeOK, Goto
  <1> QED BY <1>1 DEF PrintHolders

(* A step outside printf. *)
LEMMA SilentMove ==
  ASSUME TypeOK, LockShape, NEW c \in Cpus, NEW l,
         at[c] \notin {"print", "swprint"}, l \notin {"print", "swprint"}, Goto(c, l),
         UNCHANGED <<printf_lock, cut>>
  PROVE  LockShape'
  <1>1. PrintHolders' = PrintHolders
    BY HolderMoves DEF PrintHolders
  <1>2. at'[0] # "print"
    BY HolderMoves, NCpusAssumption DEF LockShape, Cpus
  <1> QED BY <1>1, <1>2 DEF LockShape

(* The spin on printf_lock ends only when nobody answers for it. *)
LEMMA TakesLock ==
  ASSUME TypeOK, LockShape, NEW c \in Cpus, NEW l \in {"print", "swprint"},
         c = 0 => l # "print", ~printf_lock, printf_lock', Goto(c, l), cut' = cut
  PROVE  LockShape'
  <1>1. PrintHolders' = {c} /\ cut' = {}
    BY HolderMoves DEF LockShape
  <1>2. at'[0] # "print"
    BY HolderMoves, NCpusAssumption DEF LockShape, Cpus
  <1> QED BY <1>1, <1>2 DEF LockShape

(* A CPU that leaves printf was the only one inside. *)
LEMMA LeavesPrintf ==
  ASSUME TypeOK, LockShape, NEW c \in Cpus, NEW l,
         at[c] \in {"print", "swprint"}, l \notin {"print", "swprint"}, Goto(c, l)
  PROVE  /\ PrintHolders' = {} /\ cut = {} /\ printf_lock
         /\ at'[0] # "print"
         /\ at[c] = "print" => c \in APs
  <1>1. c \in PrintHolders
    BY DEF PrintHolders
  <1>2. PrintHolders = {c} /\ cut = {} /\ printf_lock
    BY <1>1 DEF LockShape
  <1>3. at'[0] # "print" /\ PrintHolders' = {}
    BY <1>2, HolderMoves, NCpusAssumption DEF LockShape, Cpus
  <1>4. at[c] = "print" => c \in APs
    BY NCpusAssumption DEF LockShape, Cpus, APs
  <1> QED BY <1>2, <1>3, <1>4

LEMMA LockNext == ASSUME TypeOK, LockShape, [MpNext]_mpVars PROVE LockShape'
  <1>0. 0 \in Cpus /\ APs \subseteq Cpus /\ 0 \notin APs
    BY NCpusAssumption DEF Cpus, APs
  <1>1. CASE UNCHANGED mpVars
    BY <1>1 DEF mpVars, LockShape, PrintHolders
  <1>2. CASE WakeCpu
    BY <1>2 DEF WakeCpu, LockShape, PrintHolders
  <1>3. CASE WakeDone \/ WaitDone \/ SchedBegin
    <2>1. PICK l \in {"wait", "setup", "idle"} : Goto(0, l)
      BY <1>3 DEF WakeDone, WaitDone, SchedBegin
    <2>2. at[0] \notin {"print", "swprint"} /\ UNCHANGED <<printf_lock, cut>>
      BY <1>3 DEF WakeDone, WaitDone, SchedBegin
    <2> QED BY <1>0, <2>1, <2>2, SilentMove
  <1>4. ASSUME NEW c \in APs, ApEnter(c) \/ ApInit(c) \/ ApLoad(c) \/ ApStore(c)
        PROVE  LockShape'
    <2>1. PICK l \in {"init", "load", "store", "ready"} : Goto(c, l)
      BY <1>4 DEF ApEnter, ApInit, ApLoad, ApStore
    <2>2. at[c] \notin {"print", "swprint"} /\ UNCHANGED <<printf_lock, cut>>
      BY <1>4 DEF ApEnter, ApInit, ApLoad, ApStore
    <2> QED BY <1>0, <2>1, <2>2, SilentMove
  <1>5. ASSUME NEW c \in APs, ApPrint(c) PROVE LockShape'
    BY <1>0, <1>5, TakesLock DEF ApPrint
  <1>6. ASSUME NEW c \in APs, ApPrinted(c) PROVE LockShape'
    <2>1. PrintHolders' = {} /\ cut' = {} /\ ~printf_lock' /\ at'[0] # "print"
      BY <1>0, <1>6, LeavesPrintf DEF ApPrinted
    <2> QED BY <2>1 DEF LockShape
  <1>7. ASSUME NEW c \in Cpus, TickSwitches(c) PROVE LockShape'
    <2>1. CASE at[c] = "print"
      <3>1. PrintHolders' = {} /\ cut = {} /\ printf_lock /\ at'[0] # "print" /\ c \in APs
        BY <1>7, <2>1, LeavesPrintf DEF TickSwitches
      <3>2. cut' = {c} /\ printf_lock'
        BY <1>7, <2>1, <3>1 DEF TickSwitches
      <3> QED BY <3>1, <3>2 DEF LockShape
    <2>2. CASE at[c] # "print"
      <3>1. at[c] \notin {"print", "swprint"} /\ Goto(c, "switch") /\ UNCHANGED <<printf_lock, cut>>
        BY <1>7, <2>2 DEF TickSwitches, TickedAt
      <3> QED BY <3>1, SilentMove
    <2> QED BY <2>1, <2>2
  <1>8. ASSUME NEW c \in Cpus, Syscall(c) PROVE LockShape'
    BY <1>8, SilentMove DEF Syscall
  <1>9. ASSUME NEW c \in Cpus, SwitchPrint(c) PROVE LockShape'
    BY <1>9, TakesLock DEF SwitchPrint
  <1>10. ASSUME NEW c \in Cpus, NEW l \in {"user", "frozen"}, SwitchPrinted(c, l)
         PROVE  LockShape'
    <2>1. PrintHolders' = {} /\ cut' = {} /\ ~printf_lock' /\ at'[0] # "print"
      BY <1>10, LeavesPrintf DEF SwitchPrinted
    <2> QED BY <2>1 DEF LockShape
  <1> QED BY <1>1, <1>2, <1>3, <1>4, <1>5, <1>6, <1>7, <1>8, <1>9, <1>10 DEF MpNext, Bsp, Ap

(* For any number of CPUs: printf_lock always has at most one CPU that answers
   for it, and the only message a tick can cut off, leaving the lock taken for
   good, is the "CPU %d ready" of an AP. *)
THEOREM OnlyApMessageCut == MpSpec => []OnlyReadyMessageIsCut
  <1>1. MpInit => LockShape
    BY NCpusAssumption DEF MpInit, LockShape, PrintHolders, Cpus
  <1>2. ASSUME LockShape PROVE OnlyReadyMessageIsCut
    <2>1. Cardinality({}) = 0 /\ \A c : Cardinality({c}) = 1
      BY FS_EmptySet, FS_Singleton
    <2>2. cut \subseteq APs /\ (printf_lock <=> PrintHolders \cup cut # {})
      BY <1>2 DEF LockShape
    <2>3. /\ Cardinality(PrintHolders) \in {0, 1} /\ Cardinality(cut) \in {0, 1}
          /\ Cardinality(PrintHolders) = 0 \/ Cardinality(cut) = 0
      BY <1>2, <2>1, Zenon DEF LockShape
    <2>4. Cardinality(PrintHolders) + Cardinality(cut) <= 1
      BY <2>3
    <2> QED BY <2>2, <2>4 DEF OnlyReadyMessageIsCut
  <1> QED BY <1>1, <1>2, LockNext, TypeCorrect, PTL DEF MpSpec

-----------------------------------------------------------------------------
(* Part 2: the registers of a CPU. *)
States == Procs \cup {"kproc"}
InKernel == pc \in {"idt", "gdt", "apic", "kernel"}
OfKernel == InKernel \/ (pc = "isr" /\ from # "user")
OfUser == pc = "user" \/ (pc = "isr" /\ from = "user")

(* While a process runs or is being interrupted its frame is in the registers;
   the frames of the others, and its own once saved, are in arch_state. *)
FrameInv ==
  /\ pc \in {"idt", "gdt", "apic", "kernel", "user", "isr", "return", "frozen"}
  /\ pc = "isr" => from \in {"gdt", "apic", "kernel", "user"}
  /\ cur \in States
  /\ saved \in [States -> [fr : Nat, gp : Nat \cup {JUNK}]]
  /\ mine \in [States -> [fr : Nat, gp : Nat \cup {JUNK}]]
  /\ reg \in [fr : Nat, gp : Nat \cup {JUNK}]
  /\ OfKernel => cur = "kproc"
  /\ OfUser => cur \in Procs /\ reg.fr = mine[cur].fr
  /\ pc = "return" => cur \in Procs
  /\ \A p \in Procs : p # cur \/ pc = "return" => saved[p].fr = mine[p].fr

CpuType ==
  [idt : BOOLEAN, tss : BOOLEAN, timer : BOOLEAN, inservice : BOOLEAN,
   pending : BOOLEAN, cs : Nat, ss : Nat, ist : BOOLEAN]

(* The selectors are those of iretq in a process, and those of flush_gdt, of a
   gate or of STAR in the kernel; the timer runs only where there is a TSS. *)
CpuInv ==
  /\ cpu \in CpuType
  /\ pc = "user" => cpu.cs = 35 /\ cpu.ss = 27
  /\ pc # "user" => cpu.cs \in {0, 8} /\ cpu.ss \in {0, 16}
  /\ cpu.timer => cpu.tss
  /\ cpu.pending => cpu.timer
  /\ pc \in {"apic", "kernel", "user", "isr", "return"} => cpu.tss
  /\ pc \in {"user", "return"} \/ (pc = "isr" /\ from = "user") => ready
  /\ pc = "isr" => from \in {"gdt", "apic", "kernel", "user"}
  /\ TickHasStack

-----------------------------------------------------------------------------
(* The order of mp_start, step by step. *)
LEMMA Order ==
  After("idt") = "gdt" /\ After("gdt") = "apic" /\ After("apic") = "kernel"
  <1>1. mp_start[1] = "idt" /\ mp_start[2] = "gdt" /\ mp_start[3] = "apic" /\ mp_start[4] = "kernel"
    BY DEF mp_start
  <1>2. (CHOOSE i \in 1..3 : mp_start[i] = "idt") = 1
    BY <1>1, SMT
  <1>3. (CHOOSE i \in 1..3 : mp_start[i] = "gdt") = 2
    BY <1>1, SMT
  <1>4. (CHOOSE i \in 1..3 : mp_start[i] = "apic") = 3
    BY <1>1, SMT
  <1> QED BY <1>1, <1>2, <1>3, <1>4 DEF After

LEMMA Selectors ==
  /\ Sel(1, 0) = 8 /\ Sel(2, 0) = 16 /\ Sel(3, 3) = 27 /\ Sel(4, 3) = 35
  /\ GateCs = 8 /\ StarKernel = 8 /\ StarKernel + 8 = 16 /\ StarUser = 19
  /\ {0, 8, 16, 27, 35} \subseteq Nat
  BY DEF Sel, GateCs, StarKernel, StarUser

(* What the setting-up steps leave alone. *)
LEMMA SetupStep ==
  ASSUME idt_load \/ gdt_init \/ apic_start
  PROVE  /\ pc \in {"idt", "gdt", "apic"} /\ pc' \in {"gdt", "apic", "kernel"}
         /\ UNCHANGED <<from, ready, cur, reg, saved, mine>>
  BY Order DEF idt_load, gdt_init, apic_start, Setup

-----------------------------------------------------------------------------
LEMMA FrameInit == Init => FrameInv
  <1> SUFFICES ASSUME Init PROVE FrameInv
    OBVIOUS
  <1>1. Start \in [fr : Nat, gp : Nat \cup {JUNK}]
    BY DEF Start
  <1>2. pc = "idt" /\ cur = "kproc"
    BY DEF Init, mp_start
  <1>3. saved = [p \in States |-> Start] /\ mine = saved /\ reg = Start
    BY DEF Init, States
  <1> QED BY <1>1, <1>2, <1>3, EntryAssumption DEF FrameInv, OfKernel, OfUser, InKernel, States

LEMMA FrameStep == FrameInv /\ [Next]_vars => FrameInv'
  <1> SUFFICES ASSUME FrameInv, [Next]_vars PROVE FrameInv'
    OBVIOUS
  <1> USE DEF OfKernel, OfUser, InKernel
  <1>1. CASE idt_load \/ gdt_init \/ apic_start
    BY <1>1, SetupStep DEF FrameInv
  <1>2. CASE sched_begin
    BY <1>2 DEF sched_begin, FrameInv
  <1>3. CASE UserStep
    <2>1. PICK fr, gp \in 1..MAXV : reg' = [fr |-> fr, gp |-> gp]
      BY <1>3 DEF UserStep
    <2>2. reg' \in [fr : Nat, gp : Nat \cup {JUNK}]
      BY <2>1, EntryAssumption
    <2>3. cur \in Procs /\ cur \in States /\ mine' = [mine EXCEPT ![cur] = reg']
      BY <1>3 DEF UserStep, FrameInv, States
    <2>4. mine'[cur] = reg' /\ \A p \in States : p # cur => mine'[p] = mine[p]
      BY <2>3 DEF FrameInv
    <2>5. mine' \in [States -> [fr : Nat, gp : Nat \cup {JUNK}]]
      BY <2>2, <2>3 DEF FrameInv
    <2> QED BY <1>3, <2>2, <2>3, <2>4, <2>5 DEF UserStep, FrameInv, States
  <1>4. CASE Tick
    BY <1>4 DEF Tick, FrameInv
  <1>5. CASE TakeTick
    BY <1>5 DEF TakeTick, Interruptible, FrameInv
  <1>6. CASE TakeOther \/ syscall_entry
    BY <1>6 DEF TakeOther, syscall_entry, FrameInv
  <1>7. CASE IsrReturn
    BY <1>7 DEF IsrReturn, FrameInv
  <1>8. CASE ctx_switch
    <2>1. saved' = [saved EXCEPT ![cur] = reg] /\ cur' \in Procs /\ pc' = "return"
      BY <1>8 DEF ctx_switch
    <2>2. saved' \in [States -> [fr : Nat, gp : Nat \cup {JUNK}]]
      BY <2>1 DEF FrameInv
    <2>3. ASSUME NEW p \in Procs PROVE saved'[p].fr = mine'[p].fr
      <3>1. mine' = mine /\ pc = "isr"
        BY <1>8 DEF ctx_switch
      <3>2. CASE p = cur
        <4>1. from = "user"
          BY <3>1, <3>2, EntryAssumption DEF FrameInv
        <4> QED BY <2>1, <3>1, <3>2, <4>1 DEF FrameInv
      <3>3. CASE p # cur
        BY <2>1, <3>1, <3>3 DEF FrameInv, States
      <3> QED BY <3>2, <3>3
    <2> QED BY <1>8, <2>1, <2>2, <2>3 DEF ctx_switch, FrameInv, States
  <1>9. CASE return_user_
    <2>1. cur \in Procs /\ saved[cur].fr = mine[cur].fr /\ saved[cur].fr \in Nat
      BY <1>9 DEF return_user_, FrameInv, States
    <2>2. reg' \in [fr : Nat, gp : Nat \cup {JUNK}] /\ reg'.fr = saved[cur].fr
      BY <1>9, <2>1 DEF return_user_
    <2> QED BY <1>9, <2>1, <2>2 DEF return_user_, FrameInv
  <1>10. CASE UNCHANGED vars
    BY <1>10 DEF vars, FrameInv
  <1> QED BY <1>1, <1>2, <1>3, <1>4, <1>5, <1>6, <1>7, <1>8, <1>9, <1>10 DEF Next, KernelStep

(* A process goes on with the frame of its last interrupt: what return_user_
   makes iretq load is what irq2state saved when the process last ran. *)
THEOREM FramesComeBack == Spec => []FrameComesBack
  <1>1. FrameInv => FrameComesBack
    BY DEF FrameInv, FrameComesBack, OfUser
  <1> QED BY <1>1, FrameInit, FrameStep, PTL DEF Spec

-----------------------------------------------------------------------------
LEMMA CpuInit == Init => CpuInv
  <1> SUFFICES ASSUME Init PROVE CpuInv
    OBVIOUS
  <1>1. cpu \in CpuType
    BY Zenon, Selectors DEF Init, CpuType
  <1>2. pc = "idt" /\ cpu.cs = 0 /\ cpu.ss = 0
    BY DEF Init, mp_start
  <1>3. ~cpu.timer /\ ~cpu.pending /\ ~cpu.ist
    BY Zenon DEF Init
  <1> QED BY <1>1, <1>2, <1>3, Zenon DEF CpuInv, TickHasStack

LEMMA CpuNext == CpuInv /\ [Next]_vars => CpuInv'
  <1> SUFFICES ASSUME CpuInv, [Next]_vars PROVE CpuInv'
    OBVIOUS
  <1> USE Zenon DEF CpuInv, TickHasStack
  <1>0. cpu \in CpuType
    OBVIOUS
  <1>1. CASE idt_load
    <2>1. pc = "idt" /\ pc' = "gdt"
      BY <1>1, Order DEF idt_load, Setup
    <2>2. cpu' = [cpu EXCEPT !.idt = TRUE]
      BY <1>1 DEF idt_load
    <2>3. cpu' \in CpuType
      BY <1>0, <2>2 DEF CpuType
    <2>4. /\ cpu'.cs = cpu.cs /\ cpu'.ss = cpu.ss /\ cpu'.ist = cpu.ist
          /\ cpu'.tss = cpu.tss /\ cpu'.timer = cpu.timer /\ cpu'.pending = cpu.pending
      BY <1>0, <2>2 DEF CpuType
    <2> QED BY <2>1, <2>3, <2>4
  <1>2. CASE gdt_init
    <2>1. pc = "gdt" /\ pc' = "apic"
      BY <1>2, Order DEF gdt_init, Setup
    <2>2. cpu' = [cpu EXCEPT !.tss = TRUE, !.cs = 8, !.ss = 16]
      BY <1>2, Selectors DEF gdt_init
    <2>3. cpu' \in CpuType
      BY <1>0, <2>2, Selectors DEF CpuType
    <2>4. /\ cpu'.cs = 8 /\ cpu'.ss = 16 /\ cpu'.tss
          /\ cpu'.timer = cpu.timer /\ cpu'.pending = cpu.pending
      BY <1>0, <2>2 DEF CpuType
    <2> QED BY <2>1, <2>3, <2>4
  <1>3. CASE apic_start
    <2>1. pc = "apic" /\ pc' = "kernel"
      BY <1>3, Order DEF apic_start, Setup
    <2>2. cpu' = [cpu EXCEPT !.timer = TRUE]
      BY <1>3 DEF apic_start
    <2>3. cpu' \in CpuType
      BY <1>0, <2>2 DEF CpuType
    <2>4. /\ cpu'.cs = cpu.cs /\ cpu'.ss = cpu.ss /\ cpu'.ist = cpu.ist
          /\ cpu'.tss = cpu.tss /\ cpu'.timer
      BY <1>0, <2>2 DEF CpuType
    <2> QED BY <2>1, <2>3, <2>4
  <1>4. CASE sched_begin \/ UserStep
    BY <1>4 DEF sched_begin, UserStep
  <1>5. CASE ctx_switch
    BY <1>5 DEF ctx_switch
  <1>6. CASE Tick
    <2>1. cpu.timer /\ cpu' = [cpu EXCEPT !.pending = TRUE] /\ UNCHANGED <<pc, from, ready>>
      BY <1>6 DEF Tick
    <2>2. cpu' \in CpuType
      BY <1>0, <2>1 DEF CpuType
    <2>3. /\ cpu'.cs = cpu.cs /\ cpu'.ss = cpu.ss /\ cpu'.ist = cpu.ist
          /\ cpu'.tss = cpu.tss /\ cpu'.timer = cpu.timer
      BY <1>0, <2>1 DEF CpuType
    <2> QED BY <2>1, <2>2, <2>3
  <1>7. CASE TakeTick
    <2>1. /\ cpu.pending /\ cpu.tss /\ pc \in {"gdt", "apic", "kernel", "user"}
          /\ pc' = "isr" /\ from' = pc /\ ready' = ready
      BY <1>7 DEF TakeTick, Interruptible
    <2>2. PICK ss \in {0, 16, cpu.ss} :
            /\ pc = "user" => ss = 0
            /\ pc # "user" => ss = cpu.ss
            /\ cpu' = [cpu EXCEPT !.cs = 8, !.ss = ss, !.ist = TRUE, !.pending = FALSE, !.inservice = TRUE]
      BY <1>7, Selectors DEF TakeTick, Entered
    <2>3. cpu' \in CpuType
      BY <1>0, <2>2, Selectors DEF CpuType
    <2>4. /\ cpu'.cs = 8 /\ cpu'.ss = ss
          /\ cpu'.tss = cpu.tss /\ cpu'.timer = cpu.timer /\ ~cpu'.pending
      BY <1>0, <2>2 DEF CpuType
    <2> QED BY <2>1, <2>2, <2>3, <2>4
  <1>8. CASE TakeOther
    <2>1. cpu.tss /\ pc' = "frozen"
      BY <1>8 DEF TakeOther
    <2>2. PICK ss \in {0, 16, cpu.ss} :
            /\ pc = "user" => ss = 0
            /\ pc # "user" => ss = cpu.ss
            /\ cpu' = [cpu EXCEPT !.cs = 8, !.ss = ss, !.ist = TRUE]
      BY <1>8, Selectors DEF TakeOther, Entered
    <2>3. cpu' \in CpuType
      BY <1>0, <2>2, Selectors DEF CpuType
    <2>4. /\ cpu'.cs = 8 /\ cpu'.ss = ss
          /\ cpu'.tss = cpu.tss /\ cpu'.timer = cpu.timer /\ cpu'.pending = cpu.pending
      BY <1>0, <2>2 DEF CpuType
    <2> QED BY <2>1, <2>2, <2>3, <2>4
  <1>9. CASE syscall_entry
    <2>1. cpu.tss /\ pc' = "frozen"
      BY <1>9 DEF syscall_entry
    <2>2. cpu' = [cpu EXCEPT !.cs = 8, !.ss = 16]
      BY <1>9, Selectors DEF syscall_entry
    <2>3. cpu' \in CpuType
      BY <1>0, <2>2, Selectors DEF CpuType
    <2>4. /\ cpu'.cs = 8 /\ cpu'.ss = 16
          /\ cpu'.tss = cpu.tss /\ cpu'.timer = cpu.timer /\ cpu'.pending = cpu.pending
      BY <1>0, <2>2 DEF CpuType
    <2> QED BY <2>1, <2>3, <2>4
  <1>10. CASE IsrReturn
    <2>1. pc = "isr" /\ pc' = from /\ from # "user" /\ ~ready /\ UNCHANGED <<from, ready>>
      BY <1>10 DEF IsrReturn
    <2>2. cpu' = [cpu EXCEPT !.inservice = FALSE, !.ist = FALSE]
      BY <1>10 DEF IsrReturn
    <2>3. cpu' \in CpuType
      BY <1>0, <2>2 DEF CpuType
    <2>4. /\ cpu'.cs = cpu.cs /\ cpu'.ss = cpu.ss /\ ~cpu'.ist
          /\ cpu'.tss = cpu.tss /\ cpu'.timer = cpu.timer /\ cpu'.pending = cpu.pending
      BY <1>0, <2>2 DEF CpuType
    <2> QED BY <2>1, <2>3, <2>4
  <1>11. CASE return_user_
    <2>1. pc = "return" /\ pc' = "user" /\ ready' = ready
      BY <1>11 DEF return_user_
    <2>2. cpu' = [cpu EXCEPT !.inservice = FALSE, !.cs = 35, !.ss = 27, !.ist = FALSE]
      BY <1>11, Selectors DEF return_user_, Returned
    <2>3. cpu' \in CpuType
      BY <1>0, <2>2, Selectors DEF CpuType
    <2>4. /\ cpu'.cs = 35 /\ cpu'.ss = 27 /\ ~cpu'.ist
          /\ cpu'.tss = cpu.tss /\ cpu'.timer = cpu.timer /\ cpu'.pending = cpu.pending
      BY <1>0, <2>2 DEF CpuType
    <2> QED BY <2>1, <2>3, <2>4
  <1>12. CASE UNCHANGED vars
    BY <1>12 DEF vars
  <1> QED
    BY <1>1, <1>2, <1>3, <1>4, <1>5, <1>6, <1>7, <1>8, <1>9, <1>10, <1>11, <1>12
    DEF Next, KernelStep

(* The privilege level fits the descriptors of the selectors, on every way into
   the kernel and out of it. *)
THEOREM SegmentsAlwaysFit == Spec => []SegmentsFit
  <1>1. CpuInv => SegmentsFit
    <2> SUFFICES ASSUME CpuInv PROVE SegmentsFit
      OBVIOUS
    <2>1. Fits(35, 27, 3)
      BY DEF Fits, Code, gdt_base, Desc
    <2>2. Fits(8, 0, 0) /\ Fits(8, 16, 0)
      BY DEF Fits, Code, gdt_base, Desc
    <2>3. Fits(StarUser + 16, StarUser + 8, 3)
      BY <2>1, Selectors
    <2> QED BY <2>1, <2>2, <2>3 DEF CpuInv, SegmentsFit
  <1> QED BY <1>1, CpuInit, CpuNext, PTL DEF Spec

(* No tick finds ist1 without a stack: apic_start comes after gdt_init, although
   idt_load, which turns interrupts on, comes before it. *)
THEOREM TicksHaveStacks == Spec => []TickHasStack
  <1>1. CpuInv => TickHasStack
    BY DEF CpuInv
  <1> QED BY <1>1, CpuInit, CpuNext, PTL DEF Spec

-----------------------------------------------------------------------------
(* Part 3: the registers of devices. *)

(* The width of a port, added to the double word that pciaddr names, gives back
   an aligned offset: shown for bytes, words and double words in turn. *)
LEMMA PciFirstExact ==
  ASSUME NEW off \in 0..(CFGBYTES - 1), NEW size \in {1, 2, 4}, off % size = 0
  PROVE  PciFirst(off, size) = off
  <1> DEFINE o == off % CFGBYTES
  <1>1. o = off
    BY DevicesAssumption
  <1>2. CASE size = 1
    <2>1. 4 * (off \div 4) + 1 * ((off % 4) \div 1) = off
      BY DevicesAssumption
    <2> QED BY <1>1, <1>2, <2>1 DEF PciFirst
  <1>3. CASE size = 2
    <2>1. 4 * (off \div 4) + 2 * ((off % 4) \div 2) = off
      BY DevicesAssumption, <1>3
    <2> QED BY <1>1, <1>3, <2>1 DEF PciFirst
  <1>4. CASE size = 4
    <2>1. 4 * (off \div 4) = off
      BY DevicesAssumption, <1>4
    <2> QED BY <1>1, <1>4, <2>1 DEF PciFirst
  <1> QED BY <1>2, <1>3, <1>4

(* What every step of LAI's accesses keeps. *)
ExactInv == exact \in BOOLEAN /\ (exact => dev = asked)

LEMMA ExactInit == DevInit => ExactInv
  BY DEF DevInit, ExactInv

LEMMA ExactStep == ExactInv /\ [DevNext]_devVars => ExactInv'
  <1> SUFFICES ASSUME ExactInv, [DevNext]_devVars PROVE ExactInv'
    OBVIOUS
  <1>1. ASSUME NEW size \in {1, 2, 4}, NEW tag \in Tags, NEW off \in Offsets, pci_write(off, size, tag)
        PROVE  ExactInv'
    <2>1. exact' = (exact /\ off % size = 0 /\ off + size <= CFGBYTES)
      BY <1>1 DEF pci_write
    <2>2. CASE exact'
      <3>1. off \in 0..(CFGBYTES - 1) /\ off % size = 0
        <4>1. off % size = 0 /\ off + size <= CFGBYTES
          BY <2>1, <2>2, Zenon
        <4>2. off \in Nat /\ CFGBYTES \in Nat
          BY DevicesAssumption
        <4> QED BY <4>1, <4>2
      <3>2. PciFirst(off, size) = off
        BY <3>1, PciFirstExact
      <3>3. dev = asked
        BY <2>1, <2>2 DEF ExactInv
      <3>4. dev' = asked'
        BY <1>1, <3>2, <3>3, Zenon DEF pci_write
      <3> QED BY <2>1, <3>4, Zenon DEF ExactInv
    <2> QED BY <2>1, <2>2, Zenon DEF ExactInv
  <1>2. ASSUME NEW size \in {1, 2, 4}, NEW tag \in Tags, NEW port \in 0..(IOBYTES - 4), PortOut(port, size, tag)
        PROVE  ExactInv'
    <2>1. exact' = (exact /\ size # 2)
      BY <1>2 DEF PortOut
    <2>2. CASE exact'
      <3>1. OutSize(size) = size /\ dev = asked
        BY <2>1, <2>2 DEF OutSize, ExactInv
      <3>2. dev' = asked'
        BY <1>2, <3>1, Zenon DEF PortOut
      <3> QED BY <2>1, <3>2, Zenon DEF ExactInv
    <2> QED BY <2>1, <2>2, Zenon DEF ExactInv
  <1>3. CASE UNCHANGED devVars
    BY <1>3 DEF devVars, ExactInv
  <1> QED BY <1>1, <1>2, <1>3 DEF DevNext

(* As long as LAI's accesses are aligned and within the first CFGBYTES bytes, and
   no word goes to a port, every register holds what was asked for. *)
THEOREM RegistersExact == DevInit /\ [][DevNext]_devVars => []DevicesExact
  <1>1. ExactInv => DevicesExact
    <2> SUFFICES ASSUME ExactInv, exact PROVE DevicesExact
      BY DEF DevicesExact
    <2>1. dev = asked
      BY DEF ExactInv
    <2>2. ASSUME NEW off \in 0..(CFGBYTES - 1), NEW size \in {1, 2, 4}, off % size = 0
          PROVE  pci_read(off, size) = asked[<<"pci", off>>]
      BY <2>1, <2>2, PciFirstExact, Zenon DEF pci_read
    <2> QED BY <2>1, <2>2 DEF DevicesExact
  <1> QED BY <1>1, ExactInit, ExactStep, PTL

-----------------------------------------------------------------------------
(* Part 4: address spaces. *)
Doings == {"kmain", "idle", "user", "next", "write", "invlpg", "read", "load",
           "exit", "stopped", "lost"}
Walks == [lvl : 1..3, right : BOOLEAN, crossed : BOOLEAN]

(* A CPU in one of these has a process that is whole. *)
Walking == {"write", "invlpg", "read", "load"}

Types ==
  /\ doing \in [CPUS -> Doings]
  /\ runs \in [CPUS -> Pids \cup {NONE}]
  /\ cr3 \in [CPUS -> Pids \cup {NONE}]
  /\ walk \in [CPUS -> Walks]
  /\ tlb = [c \in CPUS |-> tlb[c]]
  /\ waiting \subseteq Pids
  /\ made \in 0..NPROC
  /\ home = [p \in Pids |-> home[p]]
  /\ held \in [Pids -> SUBSET Pages]

(* Until sched_begin only the bootstrap CPU does anything. *)
Booting ==
  /\ \A c \in CPUS : doing[c] = "kmain" => c = BSP
  /\ doing[BSP] = "kmain" => \A c \in CPUS \ {BSP} : doing[c] = "idle"

(* Whoever has not been crossed finds in page_tmp what it has mapped there. *)
Uncrossed ==
  \A c \in CPUS :
    /\ doing[c] \in Walking \cup {"exit", "user"} => runs[c] \in Pids
    /\ doing[c] = "lost" => walk[c].crossed
    /\ ~walk[c].crossed =>
         /\ walk[c].right
         /\ doing[c] \in {"invlpg", "read"} => tmp = PathTo(runs[c])[walk[c].lvl]
         /\ doing[c] = "read" => tlb[c] = NONE \/ tlb[c] = tmp

WalkInv == Types /\ Booting /\ Uncrossed

-----------------------------------------------------------------------------
LEMMA WalkInit == SpaceInit => WalkInv
  <1> SUFFICES ASSUME SpaceInit PROVE WalkInv
    OBVIOUS
  <1>1. Types
    BY AddrSpaceAssumption DEF SpaceInit, Types, Doings, Walks, NoWalk, Pages, Tables
  <1>2. Booting
    BY DEF SpaceInit, Booting
  <1>3. Uncrossed
    BY DEF SpaceInit, Uncrossed, NoWalk, Walking
  <1> QED BY <1>1, <1>2, <1>3 DEF WalkInv

LEMMA WalkStep == WalkInv /\ [SpaceNext]_spaceVars => WalkInv'
  <1> SUFFICES ASSUME WalkInv, [SpaceNext]_spaceVars PROVE WalkInv'
    OBVIOUS
  <1> USE AddrSpaceAssumption
  <1>1. CASE proc_new
    <2>0. doing[BSP] = "kmain" /\ made < NPROC /\ UNCHANGED <<runs, cr3, walk>>
      BY <1>1 DEF proc_new
    <2>1. \A c \in CPUS : doing[c] \in {"kmain", "idle"} /\ doing'[c] \in {"kmain", "idle", "stopped"}
      BY <1>1, <2>0 DEF proc_new, WalkInv, Booting, Types
    <2>2. Types'
      <3>1. made' \in 0..NPROC /\ waiting' \subseteq Pids
        BY <1>1, <2>0 DEF proc_new, WalkInv, Types, Pids
      <3>2. held' \in [Pids -> SUBSET Pages]
        BY <1>1 DEF proc_new, WalkInv, Types
      <3>3. home' = [p \in Pids |-> home'[p]] /\ tlb' = [c \in CPUS |-> tlb'[c]]
        BY <1>1 DEF proc_new, WalkInv, Types
      <3>4. doing' \in [CPUS -> Doings]
        BY <1>1 DEF proc_new, WalkInv, Types, Doings
      <3> QED BY <2>0, <3>1, <3>2, <3>3, <3>4 DEF WalkInv, Types
    <2>3. Booting'
      BY <1>1 DEF proc_new, WalkInv, Booting, Types
    <2>4. Uncrossed'
      BY <2>0, <2>1 DEF WalkInv, Uncrossed, Walking
    <2> QED BY <2>2, <2>3, <2>4 DEF WalkInv
  <1>2. CASE KmainDone
    BY <1>2 DEF KmainDone, WalkInv, Types, Booting, Uncrossed, Doings, Walking
  <1>3. ASSUME NEW c \in CPUS, SwitchDue(c) PROVE WalkInv'
    BY <1>3 DEF SwitchDue, Begun, WalkInv, Types, Booting, Uncrossed, Doings, Walking
  <1>4. ASSUME NEW c \in CPUS, exit_free(c) PROVE WalkInv'
    BY <1>4 DEF exit_free, WalkInv, Types, Booting, Uncrossed, Doings, Walking, SegsFreed
  <1>5. ASSUME NEW c \in CPUS, exit_done(c) PROVE WalkInv'
    BY <1>5 DEF exit_done, WalkInv, Types, Booting, Uncrossed, Doings, Walking
  <1>6. ASSUME NEW c \in CPUS, proc_next(c) PROVE WalkInv'
    <2>0. doing[c] = "next" /\ UNCHANGED <<cr3, tmp, tlb, home, made, held>>
      BY <1>6 DEF proc_next
    <2>1. CASE Activate(c)
      <3>1. PICK p \in Choice(c) :
              /\ runs' = [runs EXCEPT ![c] = p] /\ waiting' = (waiting \cup Choice(c)) \ {p}
              /\ walk' = [walk EXCEPT ![c] = NoWalk] /\ doing' = [doing EXCEPT ![c] = "write"]
        BY <2>1 DEF Activate
      <3>2. Choice(c) \subseteq Pids
        BY DEF Choice, WalkInv, Types
      <3>3. NoWalk \in Walks /\ NoWalk.right
        BY DEF NoWalk, Walks
      <3>4. Types'
        BY <2>0, <3>1, <3>2, <3>3 DEF WalkInv, Types, Doings
      <3>5. Booting'
        BY <2>0, <3>1 DEF WalkInv, Types, Booting
      <3>6. ASSUME NEW d \in CPUS, d # c
            PROVE  doing'[d] = doing[d] /\ runs'[d] = runs[d] /\ walk'[d] = walk[d]
        BY <3>1, <3>6 DEF WalkInv, Types
      <3>7. doing'[c] = "write" /\ runs'[c] \in Pids /\ walk'[c].right
        BY <3>1, <3>2, <3>3 DEF WalkInv, Types
      <3>8. Uncrossed'
        BY <2>0, <3>6, <3>7 DEF WalkInv, Uncrossed, Walking, PathTo
      <3> QED BY <3>4, <3>5, <3>8 DEF WalkInv
    <2>2. CASE doing' = [doing EXCEPT ![c] = "stopped"] /\ UNCHANGED <<runs, walk, waiting>>
      BY <2>0, <2>2 DEF WalkInv, Types, Booting, Uncrossed, Doings, Walking, PathTo
    <2> QED BY <1>6, <2>1, <2>2 DEF proc_next
  <1>7. ASSUME NEW c \in CPUS, map_page_tmp(c) PROVE WalkInv'
    <2>0. doing[c] = "write" /\ doing' = [doing EXCEPT ![c] = "invlpg"]
          /\ UNCHANGED <<runs, cr3, tlb, waiting, home, made, held>>
      BY <1>7 DEF map_page_tmp
    <2>1. ASSUME NEW d \in CPUS
          PROVE  walk'[d] = IF d # c /\ doing[d] \in {"invlpg", "read"}
                            THEN [walk[d] EXCEPT !.crossed = TRUE] ELSE walk[d]
      BY <1>7 DEF map_page_tmp
    <2>2. walk' \in [CPUS -> Walks]
      <3>1. ASSUME NEW w \in Walks PROVE [w EXCEPT !.crossed = TRUE] \in Walks
        BY Zenon DEF Walks
      <3>2. ASSUME NEW d \in CPUS PROVE walk'[d] \in Walks
        <4>1. walk[d] \in Walks
          BY DEF WalkInv, Types
        <4>2. [walk[d] EXCEPT !.crossed = TRUE] \in Walks
          BY <3>1, <4>1, Zenon
        <4> QED BY <2>1, <4>1, <4>2, Zenon
      <3>3. walk' = [d \in CPUS |-> walk'[d]]
        BY <1>7, Zenon DEF map_page_tmp
      <3> HIDE DEF Walks
      <3> QED BY <3>2, <3>3
    <2>3. Types'
      BY <2>0, <2>2 DEF WalkInv, Types, Doings
    <2>4. Booting'
      BY <2>0 DEF WalkInv, Types, Booting
    <2>5. walk'[c] = walk[c] /\ doing'[c] = "invlpg"
      BY <2>0, <2>1 DEF WalkInv, Types
    <2>6. ASSUME NEW d \in CPUS, d # c
          PROVE  doing'[d] = doing[d]
                 /\ (walk'[d].crossed \/ (walk'[d] = walk[d] /\ doing[d] \notin {"invlpg", "read"}))
      <3>1. walk[d] \in Walks /\ doing'[d] = doing[d]
        BY <2>0, <2>6 DEF WalkInv, Types
      <3>2. [walk[d] EXCEPT !.crossed = TRUE].crossed
        BY <3>1, Zenon DEF Walks
      <3> QED BY <2>1, <2>6, <3>1, <3>2, Zenon
    <2>7. walk[c].right => tmp' = PathTo(runs[c])[walk[c].lvl]
      BY <1>7, Zenon DEF map_page_tmp
    <2>8. Uncrossed'
      BY <2>0, <2>5, <2>6, <2>7 DEF WalkInv, Uncrossed, Walking, PathTo
    <2> QED BY <2>3, <2>4, <2>8 DEF WalkInv
  <1>8. ASSUME NEW c \in CPUS, invlpg(c) PROVE WalkInv'
    <2>1. Types' /\ Booting'
      BY <1>8 DEF invlpg, WalkInv, Types, Booting, Doings
    <2>2. Uncrossed'
      BY <1>8 DEF invlpg, WalkInv, Types, Uncrossed, Walking, PathTo
    <2> QED BY <2>1, <2>2 DEF WalkInv
  <1>9. ASSUME NEW c \in CPUS, TlbFill(c) PROVE WalkInv'
    <2>1. Types' /\ Booting'
      BY <1>9 DEF TlbFill, WalkInv, Types, Booting
    <2>2. Uncrossed'
      BY <1>9 DEF TlbFill, WalkInv, Types, Uncrossed, PathTo
    <2> QED BY <2>1, <2>2 DEF WalkInv
  <1>10. ASSUME NEW c \in CPUS, ReadEntry(c) PROVE WalkInv'
    <2> DEFINE right == walk[c].right /\ tlb[c] = PathTo(runs[c])[walk[c].lvl]
               lvl == IF walk[c].lvl = 3 THEN 3 ELSE walk[c].lvl + 1
    <2>0. /\ doing[c] = "read" /\ tlb[c] # NONE
          /\ walk' = [walk EXCEPT ![c].right = right, ![c].lvl = lvl]
          /\ UNCHANGED <<runs, cr3, tmp, tlb, waiting, home, made, held>>
      BY <1>10 DEF ReadEntry
    <2>1. PICK l \in {"write", "load", "stopped"} : doing' = [doing EXCEPT ![c] = l]
      BY <1>10 DEF ReadEntry
    <2>2. right \in BOOLEAN /\ lvl \in 1..3 /\ walk[c] \in Walks
      BY DEF WalkInv, Types, Walks
    <2> HIDE DEF right, lvl
    <2>3. [walk[c] EXCEPT !.right = right, !.lvl = lvl] \in Walks
      BY <2>2, Zenon DEF Walks
    <2>4. walk' \in [CPUS -> Walks] /\ walk'[c] = [walk[c] EXCEPT !.right = right, !.lvl = lvl]
      BY <2>0, <2>3 DEF WalkInv, Types
    <2>5. walk'[c].crossed = walk[c].crossed /\ walk'[c].right = right
      BY <2>2, <2>4, Zenon DEF Walks
    <2>6. Types'
      BY <2>0, <2>1, <2>4 DEF WalkInv, Types, Doings
    <2>7. Booting'
      BY <2>0, <2>1 DEF WalkInv, Types, Booting
    <2>8. ~walk[c].crossed => right
      BY <2>0 DEF right, WalkInv, Uncrossed
    <2>9. doing'[c] = l /\ \A d \in CPUS : d # c => doing'[d] = doing[d] /\ walk'[d] = walk[d]
      BY <2>0, <2>1 DEF WalkInv, Types
    <2>10. runs[c] \in Pids
      BY <2>0 DEF WalkInv, Uncrossed, Walking
    <2>11. Uncrossed'
      BY <2>0, <2>5, <2>8, <2>9, <2>10 DEF WalkInv, Uncrossed, Walking, PathTo
    <2> QED BY <2>6, <2>7, <2>11 DEF WalkInv
  <1>11. ASSUME NEW c \in CPUS, LoadCr3(c) PROVE WalkInv'
    <2>1. runs[c] \in Pids
      BY <1>11 DEF LoadCr3, WalkInv, Uncrossed, Walking
    <2>2. Types' /\ Booting'
      BY <1>11, <2>1 DEF LoadCr3, WalkInv, Types, Booting, Doings
    <2>3. Uncrossed'
      BY <1>11, <2>1 DEF LoadCr3, WalkInv, Types, Uncrossed, Walking, PathTo
    <2> QED BY <2>2, <2>3 DEF WalkInv
  <1>12. CASE UNCHANGED spaceVars
    BY <1>12 DEF spaceVars, WalkInv, Types, Booting, Uncrossed, PathTo
  <1> QED
    BY <1>1, <1>2, <1>3, <1>4, <1>5, <1>6, <1>7, <1>8, <1>9, <1>10, <1>11, <1>12
    DEF SpaceNext, CpuStep

(* A walk of kvirt2phys goes wrong only when another CPU mapped page_tmp between
   its writing the entry and its reading through it. *)
THEOREM WalksGoRight == SpaceSpec => []WrongOnlyIfCrossed
  <1>1. WalkInv => WrongOnlyIfCrossed
    BY DEF WalkInv, Uncrossed, WrongOnlyIfCrossed
  <1> QED BY <1>1, WalkInit, WalkStep, PTL DEF SpaceSpec

-----------------------------------------------------------------------------
(* A process is at home on one CPU, where it waits or runs and whose CR3 alone
   may name its root; it has all its pages until it exits. *)
OwnInv ==
  /\ \A c \in CPUS :
       /\ runs[c] # NONE => /\ runs[c] <= made /\ home[runs[c]] = c /\ runs[c] \notin waiting
                            /\ doing[c] # "exit" => held[runs[c]] = Pages
       /\ cr3[c] # NONE => cr3[c] <= made /\ home[cr3[c]] = c
       /\ doing[c] = "user" => cr3[c] = runs[c]
  /\ \A p \in waiting : p <= made /\ held[p] = Pages

LEMMA OwnInit == SpaceInit => OwnInv
  BY DEF SpaceInit, OwnInv

LEMMA OwnStep == WalkInv /\ OwnInv /\ [SpaceNext]_spaceVars => OwnInv'
  <1> SUFFICES ASSUME WalkInv, OwnInv, [SpaceNext]_spaceVars PROVE OwnInv'
    OBVIOUS
  <1> USE AddrSpaceAssumption DEF WalkInv, Types
  <1>1. CASE proc_new
    <2>0. doing[BSP] = "kmain" /\ made < NPROC /\ UNCHANGED <<runs, cr3, walk>>
      BY <1>1 DEF proc_new
    <2>1. CASE doing' = doing
      <3>1. /\ made' = made + 1 /\ waiting' = waiting \cup {made + 1}
            /\ held' = [held EXCEPT ![made + 1] = Pages]
            /\ \E c \in CPUS : home' = [home EXCEPT ![made + 1] = c]
        BY <1>1, <2>1 DEF proc_new, Booting, Doings
      <3>2. made + 1 \in Pids /\ made + 1 > made /\ made + 1 # NONE
        BY <2>0 DEF Pids
      <3>3. \A p \in Pids : p <= made => p # made + 1 /\ p <= made'
        BY <3>1 DEF Pids
      <3>4. \A p \in Pids : p <= made => held'[p] = held[p] /\ home'[p] = home[p]
        BY <3>1, <3>3
      <3>5. held'[made + 1] = Pages
        BY <3>1, <3>2
      <3>6. \A c \in CPUS : runs[c] # NONE => runs[c] \in Pids /\ runs[c] <= made
        BY DEF OwnInv
      <3>7. \A c \in CPUS : cr3[c] # NONE => cr3[c] \in Pids /\ cr3[c] <= made
        BY DEF OwnInv
      <3>8. \A c \in CPUS : /\ runs[c] # NONE => runs[c] <= made' /\ runs[c] \notin waiting'
                            /\ cr3[c] # NONE => cr3[c] <= made'
        BY <3>1, <3>3, <3>6, <3>7 DEF OwnInv
      <3>9. \A p \in waiting' : p <= made' /\ held'[p] = Pages
        BY <3>1, <3>2, <3>3, <3>4, <3>5 DEF OwnInv
      <3> HIDE DEF WalkInv, Types
      <3>10. \A c \in CPUS : /\ runs[c] # NONE => home'[runs[c]] = c /\ (doing[c] # "exit" => held'[runs[c]] = Pages)
                             /\ cr3[c] # NONE => home'[cr3[c]] = c
        BY <3>4, <3>6, <3>7 DEF OwnInv
      <3> QED BY <2>0, <2>1, <3>8, <3>9, <3>10 DEF OwnInv
    <2>2. CASE doing' = [doing EXCEPT ![BSP] = "stopped"] /\ UNCHANGED <<made, held, home, waiting>>
      <3>1. doing'[BSP] = "stopped" /\ \A d \in CPUS : d # BSP => doing'[d] = doing[d]
        BY <2>2
      <3> QED BY <2>0, <2>2, <3>1 DEF OwnInv
    <2> QED BY <1>1, <2>1, <2>2 DEF proc_new
  <1>2. CASE KmainDone
    BY <1>2 DEF KmainDone, OwnInv
  <1>3. ASSUME NEW c \in CPUS, SwitchDue(c) PROVE OwnInv'
    BY <1>3 DEF SwitchDue, OwnInv
  <1>4. ASSUME NEW c \in CPUS, exit_free(c) PROVE OwnInv'
    <2>1. /\ doing[c] = "user" /\ doing' = [doing EXCEPT ![c] = "exit"]
          /\ held' = [held EXCEPT ![runs[c]] = (@ \ {"root"}) \ SegsFreed]
          /\ UNCHANGED <<runs, cr3, home, waiting, made>>
      BY <1>4 DEF exit_free
    <2>2. runs[c] \in Pids
      BY <2>1 DEF Uncrossed, Walking
    <2>3. \A p \in Pids : p # runs[c] => held'[p] = held[p]
      BY <2>1
    <2>4. doing'[c] = "exit" /\ \A d \in CPUS : d # c => doing'[d] = doing[d]
      BY <2>1
    <2>5. \A d \in CPUS : d # c => runs[d] # runs[c]
      BY <2>2 DEF OwnInv
    <2>6. \A p \in waiting : p # runs[c]
      BY <2>2 DEF OwnInv
    <2>7. \A d \in CPUS : d # c /\ runs[d] # NONE => held'[runs[d]] = held[runs[d]]
      BY <2>3, <2>5
    <2>8. \A p \in waiting : held'[p] = held[p]
      BY <2>3, <2>6
    <2> HIDE DEF WalkInv, Types
    <2>9. ASSUME NEW d \in CPUS
          PROVE  /\ runs[d] # NONE => /\ runs[d] <= made /\ home[runs[d]] = d /\ runs[d] \notin waiting
                                      /\ doing'[d] # "exit" => held'[runs[d]] = Pages
                 /\ cr3[d] # NONE => cr3[d] <= made /\ home[cr3[d]] = d
                 /\ doing'[d] = "user" => cr3[d] = runs[d]
      <3>1. CASE d = c
        BY <2>4, <3>1 DEF OwnInv
      <3>2. CASE d # c
        BY <2>4, <2>7, <3>2 DEF OwnInv
      <3> QED BY <3>1, <3>2
    <2>10. \A p \in waiting : p <= made /\ held'[p] = Pages
      BY <2>8 DEF OwnInv
    <2> QED BY <2>1, <2>9, <2>10 DEF OwnInv
  <1>5. ASSUME NEW c \in CPUS, exit_done(c) PROVE OwnInv'
    BY <1>5 DEF exit_done, OwnInv
  <1>6. ASSUME NEW c \in CPUS, proc_next(c) PROVE OwnInv'
    <2>0. doing[c] = "next" /\ UNCHANGED <<cr3, home, made, held>>
      BY <1>6 DEF proc_next
    <2>1. CASE Activate(c)
      <3>1. PICK p \in Choice(c) :
              /\ runs' = [runs EXCEPT ![c] = p] /\ waiting' = (waiting \cup Choice(c)) \ {p}
              /\ doing' = [doing EXCEPT ![c] = "write"]
        BY <2>1 DEF Activate
      <3>2. \A q \in Choice(c) : q \in Pids /\ q <= made /\ home[q] = c /\ held[q] = Pages
        BY <2>0 DEF Choice, OwnInv
      <3>3. doing'[c] = "write" /\ runs'[c] = p /\ p \notin waiting'
        BY <3>1
      <3>4. ASSUME NEW d \in CPUS, d # c
            PROVE  doing'[d] = doing[d] /\ runs'[d] = runs[d] /\ (runs[d] # NONE => runs[d] \notin waiting')
        BY <3>1, <3>2, <3>4 DEF OwnInv
      <3>5. \A q \in waiting' : q <= made /\ held[q] = Pages
        BY <3>1, <3>2 DEF OwnInv
      <3> QED BY <2>0, <3>2, <3>3, <3>4, <3>5 DEF OwnInv
    <2>2. CASE doing' = [doing EXCEPT ![c] = "stopped"] /\ UNCHANGED <<runs, walk, waiting>>
      BY <2>0, <2>2 DEF OwnInv
    <2> QED BY <1>6, <2>1, <2>2 DEF proc_next
  <1>7. ASSUME NEW c \in CPUS, map_page_tmp(c) PROVE OwnInv'
    BY <1>7 DEF map_page_tmp, OwnInv
  <1>8. ASSUME NEW c \in CPUS, invlpg(c) PROVE OwnInv'
    BY <1>8 DEF invlpg, OwnInv
  <1>9. ASSUME NEW c \in CPUS, TlbFill(c) PROVE OwnInv'
    BY <1>9 DEF TlbFill, OwnInv
  <1>10. ASSUME NEW c \in CPUS, ReadEntry(c) PROVE OwnInv'
    <2>1. doing[c] = "read" /\ UNCHANGED <<runs, cr3, waiting, home, made, held>>
      BY <1>10 DEF ReadEntry
    <2>2. PICK l \in {"write", "load", "stopped"} : doing' = [doing EXCEPT ![c] = l]
      BY <1>10 DEF ReadEntry
    <2>3. doing'[c] = l /\ \A d \in CPUS : d # c => doing'[d] = doing[d]
      BY <2>2
    <2> QED BY <2>1, <2>3 DEF OwnInv
  <1>11. ASSUME NEW c \in CPUS, LoadCr3(c) PROVE OwnInv'
    <2>1. doing[c] = "load" /\ UNCHANGED <<runs, waiting, home, made, held>>
      BY <1>11 DEF LoadCr3
    <2>2. runs[c] \in Pids /\ runs[c] # NONE
      BY <2>1 DEF Uncrossed, Walking
    <2>3. /\ cr3'[c] = (IF walk[c].right THEN runs[c] ELSE NONE)
          /\ doing'[c] = (IF walk[c].right THEN "user" ELSE "lost")
          /\ \A d \in CPUS : d # c => doing'[d] = doing[d] /\ cr3'[d] = cr3[d]
      BY <1>11 DEF LoadCr3
    <2>4. ASSUME NEW d \in CPUS
          PROVE  /\ doing[d] = "exit" => doing'[d] = "exit"
                 /\ cr3'[d] # NONE => cr3'[d] <= made /\ home[cr3'[d]] = d
                 /\ doing'[d] = "user" => cr3'[d] = runs[d]
      <3>1. CASE d = c
        BY <2>1, <2>2, <2>3, <3>1 DEF OwnInv
      <3>2. CASE d # c
        BY <2>3, <3>2 DEF OwnInv
      <3> QED BY <3>1, <3>2
    <2> QED BY <2>1, <2>4 DEF OwnInv
  <1>12. CASE UNCHANGED spaceVars
    BY <1>12 DEF spaceVars, OwnInv
  <1> QED
    BY <1>1, <1>2, <1>3, <1>4, <1>5, <1>6, <1>7, <1>8, <1>9, <1>10, <1>11, <1>12
    DEF SpaceNext, CpuStep

(* A process runs on one CPU, in its own address space and with its pages; a
   root that exit has freed is left in no CR3 but that of the CPU that exits. *)
THEOREM SpacesAreOwn == SpaceSpec => []RunsInOwnSpace
  <1>1. WalkInv /\ OwnInv => RunsInOwnSpace
    <2> SUFFICES ASSUME WalkInv, OwnInv, NEW c \in CPUS
                 PROVE  /\ doing[c] = "user" => /\ cr3[c] = runs[c] /\ held[runs[c]] = Pages
                                                /\ \A d \in CPUS \ {c} : runs[d] # runs[c]
                        /\ cr3[c] # NONE /\ "root" \notin held[cr3[c]] =>
                             /\ doing[c] # "user"
                             /\ \A d \in CPUS \ {c} : cr3[d] # cr3[c]
      BY DEF RunsInOwnSpace
    <2>1. "root" \in Pages
      BY DEF Pages
    <2>2. doing[c] = "user" => runs[c] # NONE
      BY AddrSpaceAssumption DEF WalkInv, Uncrossed, Walking
    <2>3. \A d \in CPUS : runs[d] # NONE => home[runs[d]] = d
      BY DEF OwnInv
    <2>4. \A d \in CPUS : cr3[d] # NONE => home[cr3[d]] = d
      BY DEF OwnInv
    <2>5. doing[c] = "user" => cr3[c] = runs[c] /\ held[runs[c]] = Pages
      BY <2>2 DEF OwnInv
    <2>6. doing[c] = "user" => \A d \in CPUS \ {c} : runs[d] # runs[c]
      BY <2>2, <2>3
    <2>7. cr3[c] # NONE => \A d \in CPUS \ {c} : cr3[d] # cr3[c]
      BY <2>4
    <2> QED BY <2>1, <2>5, <2>6, <2>7
  <1> QED BY <1>1, WalkInit, WalkStep, OwnInit, OwnStep, PTL DEF SpaceSpec
=============================================================================
