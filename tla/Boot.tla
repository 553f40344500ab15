-------------------------------- MODULE Boot --------------------------------
(***************************************************************************)
(* The bootstrap processor from kmain to mp_init, as far as it maps        *)
(* memory: the kernel image, the screen, the page pools, the ACPI tables   *)
(* (acpi/acpi.c), the HPET and the local APIC, what LAI asks for through   *)
(* acpi/laihost.c, and the records of the other CPUs.  What the firmware   *)
(* and the boot loader hand over is a machine; reads of it go through the  *)
(* page tables, so a page that is missing or another's shows.              *)
(***************************************************************************)
EXTENDS VirtMap, Devices

CONSTANTS
  Machines,   \* what the kernel may be started on
  HDR,        \* sizeof(acpi_header_t)
  KPAGES,     \* pages of the kernel image
  KPHYS,      \* the page it was loaded at
  LaiMaps,    \* what LAI may ask laihost_map for: addresses and lengths
  NLAI        \* bound on LAI's calls

VARIABLES
  machine,
  stage,      \* what kmain or what it calls does next
  round,      \* of the loop under way
  m,          \* the kernel's map
  win,        \* the windows in use, by the name of their user
  find,       \* acpi_find: what was asked, count, the table returned, the caller
  tab,        \* the table that is being mapped, and for which step
  calls       \* LAI's calls

vars == <<machine, stage, round, m, win, find, tab, calls, devVars>>

Named(who, w) == [who |-> who, virt |-> w.virt, phys |-> w.phys, len |-> w.len]
NoFind == [sig |-> "none", index |-> 0, count |-> -1, res |-> NONE, back |-> "none"]

Init ==
  /\ machine \in Machines
  /\ stage = "memmap" /\ round = 1
  /\ \E cell0 \in BOOLEAN : m = EmptyMap(cell0)
  /\ win = {} /\ find = NoFind /\ tab = NONE /\ calls = 0
  /\ DevInit

(* The boot is at s; it goes to t, with m and win as they become. *)
At(s) == stage = s /\ m.status = "ok"
Goto(t, mm, ws) ==
  /\ stage' = t /\ round' = 1 /\ m' = mm /\ win' = ws
  /\ UNCHANGED <<machine, calls, devVars>>
Again(t, mm, ws) ==
  /\ stage' = t /\ round' = round + 1 /\ m' = mm /\ win' = ws
  /\ UNCHANGED <<machine, calls, devVars>>

(* panic, assert and a fault stop the CPU where it is. *)
Stop(why) ==
  /\ m' = Halt(m, why)
  /\ UNCHANGED <<machine, stage, round, win, calls, devVars>>

(* The kernel reads units js of window w: a page may not be present, or be the
   page of another window. *)
ReadStatus(w, js) ==
  LET at(j) == Translate(m, w.virt + j)
  IN IF \A j \in js : at(j) = w.phys + j THEN "ok"
     ELSE IF \E j \in js : at(j) = NONE THEN "fault" ELSE "misread"

-----------------------------------------------------------------------------
(* memmap_init: the map is an array in the miniheap.  Of an entry that is not
   usable only base is set, and len is what the miniheap held, 0. *)
Pools == SelectSeq(machine.mem, LAMBDA e : e.usable /\ e.len >= PAGE)
MemmapInit ==
  /\ At("memmap")
  /\ IF machine.mem = <<>> THEN Stop("panic")
     ELSE Goto("kern", miniheap_alloc(m, PagesOf(Len(machine.mem))), win)
  /\ UNCHANGED <<find, tab>>

(* map_kern_pages: the sections follow each other and start at pages. *)
MapKernPages ==
  /\ At("kern")
  /\ Goto("screen", [premap_pages(m, 0, PAGE * KPHYS, PAGE * KPAGES)
                       EXCEPT !.end_pos = PAGE * KPAGES], win)
  /\ UNCHANGED <<find, tab>>

(* init_fb takes the widest framebuffer, or a later one as wide whose height is
   more than that width; map_screen maps it at end_pos. *)
Screen ==
  FoldLeft(LAMBDA fb, g : IF g.width > fb.width \/ (g.width = fb.width /\ g.height > fb.width)
                          THEN g ELSE fb,
           Head(machine.fbs), Tail(machine.fbs))
ScreenLen == Screen.pitch * Screen.bytes * Screen.height
MapScreen ==
  /\ At("screen")
  /\ Goto("pools", Advance(premap_pages(m, m.end_pos, Screen.paddr, ScreenLen), ScreenLen),
          {[who |-> "screen", virt |-> m.end_pos, phys |-> Screen.paddr, len |-> ScreenLen]})
  /\ UNCHANGED <<find, tab>>

(* page_alloc_init: an array of pools in the miniheap, then a window for each.
   The entries here are powers of two of pages, so each makes one pool. *)
PageAllocInit ==
  /\ At("pools")
  /\ IF Pools = <<>> THEN Stop("assert")
     ELSE Goto("pool", miniheap_alloc(m, PagesOf(Len(Pools))), win)
  /\ UNCHANGED <<find, tab>>
MapPool ==
  /\ At("pool")
  /\ IF round > Len(Pools) THEN Goto("hpet", m, win)
     ELSE LET e == Pools[round]
          IN Again("pool", premap_anon(m, e.base, e.len),
                   win \cup {Named("pool", Window(m, e.base, e.len))})
  /\ UNCHANGED <<find, tab>>

-----------------------------------------------------------------------------
(* A call of acpi_find, for the DSDT a call for the FACP that names it. *)
acpi_find(sig, index, back) ==
  /\ find' = IF sig = "DSDT"
             THEN [NoFind EXCEPT !.sig = "FACP", !.back = "dsdt"]
             ELSE [NoFind EXCEPT !.sig = sig, !.index = index, !.back = back]
  /\ stage' = "xsdt" /\ round' = 1
  /\ UNCHANGED <<machine, m, win, tab, devVars>>

(* A table is mapped in three steps: its header, to read the length there; not
   any more; and as a whole. *)
MapTable(who, phys, len, back) ==
  /\ tab' = [who |-> who, phys |-> phys, len |-> len, back |-> back]
  /\ stage' = "header"
  /\ UNCHANGED <<machine, round, m, win, find, calls, devVars>>
TableHeader ==
  /\ At("header")
  /\ m' = map_anon(m, tab.phys, HDR)
  /\ win' = win \cup {Named("header", Window(m, tab.phys, HDR))}
  /\ stage' = "length"
  /\ UNCHANGED <<machine, round, find, tab, calls, devVars>>
TableLength ==
  \E w \in win :
    /\ At("length") /\ w.who = "header"
    /\ IF ReadStatus(w, {0}) # "ok" THEN Stop(ReadStatus(w, {0}))
       ELSE /\ m' = unmap_pages(m, w.virt, HDR) /\ win' = win \ {w} /\ stage' = "whole"
            /\ UNCHANGED <<machine, round, calls, devVars>>
    /\ UNCHANGED <<find, tab>>
TableWhole ==
  /\ At("whole")
  /\ m' = map_anon(m, tab.phys, tab.len)
  /\ win' = win \cup {Named(tab.who, Window(m, tab.phys, tab.len))}
  /\ stage' = tab.back
  /\ UNCHANGED <<machine, round, find, tab, calls, devVars>>

(* The XSDT is mapped by the first call, and stays. *)
FindXsdt ==
  /\ At("xsdt")
  /\ IF \E w \in win : w.who = "xsdt"
     THEN Goto("tables", m, win) /\ UNCHANGED <<find, tab>>
     ELSE MapTable("xsdt", machine.xsdt, HDR + Len(machine.tabs), "tables")

(* A round of the loop reads the address of the next table and maps it. *)
FindRound ==
  \E x \in win :
    LET read == ReadStatus(x, {0, HDR + round - 1})
    IN /\ At("tables") /\ x.who = "xsdt" /\ round <= Len(machine.tabs)
       /\ IF read # "ok" THEN Stop(read) /\ UNCHANGED <<find, tab>>
          ELSE MapTable("table", machine.tabs[round].phys, machine.tabs[round].len, "match")

(* Mutants: the count is one ahead; a table that is passed over stays mapped. *)
CountedTwice(t) == IF t.sig = find.sig THEN find.count + 2 ELSE find.count
PassedOverMapped(w) == m

Counted(t) == IF t.sig = find.sig THEN find.count + 1 ELSE find.count
PassedOver(w) == unmap_pages(m, w.virt, w.len)

(* The table is returned if it is the index-th with the signature, or unmapped. *)
FindMatch ==
  \E w \in win :
    LET t == machine.tabs[round]
    IN /\ At("match") /\ w.who = "table"
       /\ IF ReadStatus(w, {0}) # "ok" THEN Stop(ReadStatus(w, {0})) /\ UNCHANGED find
          ELSE /\ find' = [find EXCEPT !.count = Counted(t),
                                       !.res = IF Counted(t) = find.index THEN w ELSE NONE]
               /\ IF Counted(t) = find.index
                  THEN Goto(find.back, m, (win \ {w}) \cup {Named(find.sig, w)})
                  ELSE Again("tables", PassedOver(w), win \ {w})
       /\ UNCHANGED tab
FindNull ==
  /\ At("tables") /\ round > Len(machine.tabs)
  /\ Goto(find.back, m, win)
  /\ UNCHANGED <<find, tab>>

(* The DSDT, where the FACP says; the FACP stays mapped, and must be there. *)
FindDsdt ==
  /\ At("dsdt")
  /\ IF find.res = NONE THEN Stop("null") /\ UNCHANGED <<find, tab>>
     ELSE IF ReadStatus(find.res, {HDR}) # "ok"
     THEN Stop(ReadStatus(find.res, {HDR})) /\ UNCHANGED <<find, tab>>
     ELSE MapTable("DSDT", machine.dsdt.phys, machine.dsdt.len, "lai")

-----------------------------------------------------------------------------
(* hpet_init maps the registers at the address in the table that it finds, and
   then starts the counter. *)
HpetInit == At("hpet") /\ acpi_find("HPET", 0, "hpet_regs") /\ UNCHANGED calls
HpetRegs ==
  /\ At("hpet_regs")
  /\ IF find.res = NONE THEN Stop("panic")
     ELSE IF ReadStatus(find.res, {HDR}) # "ok" THEN Stop(ReadStatus(find.res, {HDR}))
     ELSE Goto("hpet_start", map_anon(m, machine.hpet, 1),
               win \cup {Named("hpet", Window(m, machine.hpet, 1))})
  /\ UNCHANGED <<find, tab>>
HpetStart ==
  \E w \in win :
    /\ At("hpet_start") /\ w.who = "hpet"
    /\ IF ReadStatus(w, {0}) # "ok" THEN Stop(ReadStatus(w, {0})) ELSE Goto("lai", m, win)
    /\ UNCHANGED <<find, tab>>

(* lai_create_namespace and lai_enable_acpi run the machine's AML, which calls
   laihost_map, laihost_unmap of what was mapped so, laihost_scan, and the
   devices. *)
LaiCall(kind) == At("lai") /\ kind \in machine.aml /\ calls < NLAI /\ calls' = calls + 1
laihost_map ==
  /\ LaiCall("map")
  /\ \E r \in LaiMaps : /\ m' = map_anon(m, r.phys, r.len)
                        /\ win' = win \cup {Named("lai", Window(m, r.phys, r.len))}
  /\ UNCHANGED <<machine, stage, round, find, tab, devVars>>
laihost_unmap ==
  /\ LaiCall("map")
  /\ \E w \in {v \in win : v.who = "lai"} : /\ m' = unmap_pages(m, w.virt, w.len)
                                            /\ win' = win \ {w}
  /\ UNCHANGED <<machine, stage, round, find, tab, devVars>>
laihost_scan ==
  /\ LaiCall("scan")
  /\ \E sig \in {"DSDT", "SSDT"}, index \in 0..1 : acpi_find(sig, index, "lai")
LaiDevice ==
  /\ LaiCall("device")
  /\ DevNext
  /\ UNCHANGED <<machine, stage, round, m, win, find, tab>>
LaiDone == At("lai") /\ Goto("apic", m, win) /\ UNCHANGED <<find, tab>>

(* Mutant: a local APIC that is off and stays off counts. *)
CoresAny == Cardinality({i \in DOMAIN machine.madt : machine.madt[i].type = "lapic"})

(* apic_init: the records after lapic_addr, one unit each.  A local APIC counts
   when it is enabled or can be; the address of a 64-bit override is read from
   data[0], where two reserved bytes come first. *)
Cores ==
  Cardinality({i \in DOMAIN machine.madt : machine.madt[i].type = "lapic" /\ machine.madt[i].on})
LapicPhys ==
  FoldLeft(LAMBDA base, rec : IF rec.type = "64bit" THEN 65536 * rec.addr ELSE base,
           machine.lapic, machine.madt)
ApicInit == At("apic") /\ acpi_find("APIC", 0, "madt") /\ UNCHANGED calls
ApicMadt ==
  LET read == ReadStatus(find.res, HDR..(HDR + Len(machine.madt)))
  IN /\ At("madt")
     /\ IF find.res = NONE THEN Stop("panic")
        ELSE IF read # "ok" THEN Stop(read)
        ELSE IF Cores # machine.ncpus THEN Stop("assert")
        ELSE Goto("smp", map_anon(m, LapicPhys, PAGE),
                  win \cup {Named("lapic", Window(m, LapicPhys, PAGE))})
     /\ UNCHANGED <<find, tab>>

(* mp_init maps the response, the array of pointers, and what they point to, to
   store goto_address there. *)
MpInit ==
  /\ At("smp")
  /\ Goto("cpus", map_anon(m, machine.smp, 1), win \cup {Named("smp", Window(m, machine.smp, 1))})
  /\ UNCHANGED <<find, tab>>
MpCpus ==
  \E w \in win :
    /\ At("cpus") /\ w.who = "smp"
    /\ IF ReadStatus(w, {0}) # "ok" THEN Stop(ReadStatus(w, {0}))
       ELSE IF Len(machine.infos) # machine.ncpus THEN Stop("assert")
       ELSE Goto("info", map_anon(m, machine.cpus, machine.ncpus),
                 win \cup {Named("cpus", Window(m, machine.cpus, machine.ncpus))})
    /\ UNCHANGED <<find, tab>>
MpInfo ==
  \E w \in win :
    /\ At("info") /\ w.who = "cpus"
    /\ IF round > machine.ncpus THEN Goto("up", m, win)
       ELSE IF ReadStatus(w, {round - 1}) # "ok" THEN Stop(ReadStatus(w, {round - 1}))
       ELSE Again("info", map_anon(m, machine.infos[round], 1),
                  win \cup {Named("info", Window(m, machine.infos[round], 1))})
    /\ UNCHANGED <<find, tab>>

Next ==
  \/ MemmapInit \/ MapKernPages \/ MapScreen \/ PageAllocInit \/ MapPool
  \/ TableHeader \/ TableLength \/ TableWhole
  \/ FindXsdt \/ FindRound \/ FindMatch \/ FindNull \/ FindDsdt
  \/ HpetInit \/ HpetRegs \/ HpetStart
  \/ laihost_map \/ laihost_unmap \/ laihost_scan \/ LaiDevice \/ LaiDone
  \/ ApicInit \/ ApicMadt \/ MpInit \/ MpCpus \/ MpInfo

Spec == Init /\ [][Next]_vars /\ WF_vars(Next)

-----------------------------------------------------------------------------
InFind == {"xsdt", "header", "length", "whole", "tables", "match"}

(* Every window still translates to the memory it was made for, whatever was
   mapped and unmapped since: end_pos never hands out a page twice, and
   unmap_pages takes back no page but its own. *)
WindowsExact ==
  m.status = "ok" =>
    \A w \in win : \A j \in Reach(w) : Translate(m, w.virt + j) = w.phys + j

(* Nothing else is mapped: acpi_find takes back every header and every table it
   passes over, and laihost_unmap all that laihost_map gave, at every offset in
   a page; once acpi_find has returned none of its own mappings is left. *)
NothingElseMapped ==
  (m.status = "ok" /\ stage # "kern") =>
    /\ \A v \in DOMAIN m.pte :
         m.pte[v] # NONE => \/ v < KPAGES
                            \/ \E w \in win : v - PageOf(w.virt) \in 0..(PagesOf(w.len) - 1)
    /\ stage \notin InFind => \A w \in win : w.who \notin {"header", "table"}

(* acpi_find returns the index-th table with the signature, and NULL when there
   are not as many. *)
FindIsLookup ==
  LET same == SelectSeq(machine.tabs, LAMBDA t : t.sig = find.sig)
      table == {same[i].phys : i \in {find.index + 1} \cap DOMAIN same}
  IN (m.status = "ok" /\ stage \notin InFind /\ find # NoFind) =>
       table = IF find.res = NONE THEN {} ELSE {find.res.phys}

(* The reasons to stop that BootComesThrough accepts. *)
Enabled == {i \in DOMAIN machine.madt : machine.madt[i].type = "lapic" /\ machine.madt[i].on}
Excused ==
  \/ /\ m.status \in {"panic", "assert", "null"}
     /\ \/ Pools = <<>> \/ Cardinality(Enabled) # machine.ncpus \/ Len(machine.infos) # machine.ncpus
        \/ {"FACP", "HPET", "APIC"} \ {machine.tabs[i].sig : i \in DOMAIN machine.tabs} # {}
  \/ /\ m.status = "no_miniheap"
     /\ m.brk + Cardinality(Path(VPAGES - 1)) > MINIHEAP
  \/ m.status = "fault" /\ \E w \in win : Reach(w) # 0..(w.len - 1)
  \/ m.status = "wild" /\ (m.cell0 \/ Foreign(m) # {})

(* The boot comes through: every CPU's record is reached, or the kernel stops
   for a reason that the machine gives (a table, an entry or memory that is
   missing, CPU counts that differ), or in one of two places of paging.c: in a
   window that starts within a page and reaches one page further than map_anon
   mapped, and at a table from tab_new that tab_get or premap_pages looks for
   in the kernel image. *)
BootComesThrough == <>(stage = "up" \/ Excused)
=============================================================================
