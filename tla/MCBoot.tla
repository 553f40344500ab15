------------------------------- MODULE MCBoot -------------------------------
(***************************************************************************)
(* Boot on small machines: where tables and records lie in their pages,    *)
(* how they are ordered, and how much memory there is to map varies.       *)
(***************************************************************************)
EXTENDS Boot

Tab(sig, phys, len) == [sig |-> sig, phys |-> phys, len |-> len]
Mem(usable, base, len) == [usable |-> usable, base |-> base, len |-> len]
Cpu(on) == [type |-> "lapic", on |-> on]

Base ==
  [mem |-> <<Mem(FALSE, 0, 8), Mem(TRUE, 400, 4), Mem(TRUE, 408, 2)>>,
   fbs |-> <<[width |-> 1, height |-> 3, pitch |-> 1, bytes |-> 1, paddr |-> 100]>>,
   xsdt |-> 200,
   tabs |-> <<Tab("FACP", 208, 2), Tab("APIC", 212, 4), Tab("HPET", 220, 2)>>,
   dsdt |-> [phys |-> 225, len |-> 5], hpet |-> 240, lapic |-> 260,
   madt |-> <<Cpu(TRUE), Cpu(TRUE)>>, ncpus |-> 2,
   aml |-> {}, smp |-> 300, cpus |-> 304, infos |-> <<308, 313>>]

(* Offsets in the page of the tables, and their order. *)
Tables3(a, b, c) == {<<a, b, c>>, <<c, a, b>>, <<b, c, a>>}
TabOrders ==
  UNION {Tables3(Tab("FACP", 208 + o, 2), Tab("APIC", 212 + (o % 2), 4), Tab("HPET", 220 + o, 2))
         : o \in 0..3}
SsdtOrders ==
  {<<Tab("SSDT", 230, 3), Tab("FACP", 208, 2), Tab("HPET", 220, 2),
     Tab("SSDT", 235, 6), Tab("APIC", 212, 4)>>}
Spoilt == {<<>>, <<Tab("APIC", 212, 4), Tab("HPET", 220, 2)>>,
           <<Tab("FACP", 208, 2), Tab("HPET", 220, 2)>>}

MCMachines ==
  {[Base EXCEPT !.tabs = t] : t \in TabOrders}
  \cup {[Base EXCEPT !.tabs = t, !.aml = {"scan"}] : t \in Spoilt}
  \cup {[Base EXCEPT !.tabs = t, !.aml = {"map", "scan"}, !.xsdt = 200 + o, !.dsdt.phys = 224 + o]
        : t \in SsdtOrders, o \in 0..3}
  \cup {[Base EXCEPT !.smp = 300 + o, !.cpus = 304 + p, !.infos = i, !.ncpus = n,
                     !.madt = [k \in 1..4 |-> Cpu(k <= n)], !.tabs[2].phys = 212, !.tabs[2].len = 6]
        : o \in {0, 3}, p \in 0..3, n \in {1, 3}, i \in {<<308>>, <<308, 313, 319>>}}
  \cup {[Base EXCEPT !.mem = <<Mem(TRUE, 400, 4 * n)>>, !.fbs = f, !.aml = {"map"}]
        : n \in {4, 16, 32},
          f \in {<<[width |-> 2, height |-> 2, pitch |-> 2, bytes |-> 2, paddr |-> 100],
                   [width |-> 2, height |-> 3, pitch |-> 2, bytes |-> 1, paddr |-> 120]>>}}
  \cup {[Base EXCEPT !.aml = {"device"}]}
  \cup {[Base EXCEPT !.mem = e] : e \in {<<>>, <<Mem(TRUE, 400, 2)>>}}
  \cup {[Base EXCEPT !.madt = <<Cpu(TRUE), Cpu(TRUE), [type |-> "64bit", on |-> FALSE, addr |-> 280]>>,
                     !.tabs[2].phys = 212, !.tabs[2].len = 5]}

MCLaiMaps == {[phys |-> 340, len |-> 4], [phys |-> 343, len |-> 3], [phys |-> 341, len |-> 6]}
MCOffsets == {1, 2, 6, 8}
=============================================================================
