------------------------------- MODULE Entry -------------------------------
(***************************************************************************)
(* Into and out of the kernel on one CPU: idt.c, gdt.c, the stubs isr.asm, *)
(* return_user_.asm and syscall_.asm, apic_start, and the save and restore *)
(* of ctx.c.  A CPU sets itself up in the order of arch_init and mp_start, *)
(* and then runs its processes, which the timer interrupts.  Registers are *)
(* versions: fr for rip, rsp and flags, gp for the others; a user step may *)
(* change both.  Which process is next is the scheduler's choice; since a  *)
(* process stays on its CPU, one CPU is enough.                            *)
(***************************************************************************)
EXTENDS Integers, Sequences

CONSTANTS
  Procs,      \* the processes in this CPU's run queue
  MAXV,       \* bound on versions of registers
  JUNK        \* the version of a register loaded from the wrong place

ASSUME EntryAssumption == MAXV \in Nat /\ JUNK \notin Nat /\ "kproc" \notin Procs

VARIABLES
  pc,         \* the stage of setting up, or where the CPU is
  cpu,        \* what the processor and its LAPIC hold
  from,       \* where an interrupt was taken
  ready,      \* sched_ready
  cur,        \* proc_current
  reg,        \* the registers
  saved,      \* arch_state of the processes and of kproc
  mine        \* the registers a process had when it last ran

vars == <<pc, cpu, from, ready, cur, reg, saved, mine>>

-----------------------------------------------------------------------------
(* A selector is 8 times the index in the GDT, and a privilege level. *)
Sel(index, rpl) == 8 * index + rpl
Desc(exec, dpl, long) == [exec |-> exec, dpl |-> dpl, long |-> long]

(* Mutant: user code comes before user data. *)
gdt_code_first ==
  <<Desc(TRUE, 0, TRUE), Desc(FALSE, 0, FALSE), Desc(TRUE, 3, TRUE), Desc(FALSE, 3, FALSE)>>

(* gdt_base, after the null descriptor: kernel code and data, user data and code. *)
gdt_base ==
  <<Desc(TRUE, 0, TRUE), Desc(FALSE, 0, FALSE), Desc(FALSE, 3, FALSE), Desc(TRUE, 3, TRUE)>>

(* The gates that idt_init sets for all 256 vectors lead to the kernel's code;
   syscall and sysret take their selectors from STAR, as init_syscalls set it. *)
GateCs == Sel(1, 0)
StarKernel == Sel(1, 0)
StarUser == Sel(3, 3) - 8

(* Mutant: the timer starts before there is a TSS. *)
mp_start_apic_first == <<"idt", "apic", "gdt", "kernel">>

(* The order of arch_init and mp_start. *)
mp_start == <<"idt", "gdt", "apic", "kernel">>
After(s) == mp_start[1 + CHOOSE i \in 1..3 : mp_start[i] = s]

(* procp_init, and the registers of kmain. *)
Start == [fr |-> 0, gp |-> 0]
Init ==
  /\ pc = mp_start[1] /\ from = "none"
  /\ cpu = [idt |-> FALSE, tss |-> FALSE, timer |-> FALSE, inservice |-> FALSE,
            pending |-> FALSE, cs |-> 0, ss |-> 0, ist |-> FALSE]
  /\ ready = FALSE /\ cur = "kproc" /\ reg = Start
  /\ saved = [p \in Procs \cup {"kproc"} |-> Start] /\ mine = saved

Setup(s) == pc = s /\ pc' = After(s) /\ UNCHANGED <<from, ready, cur, reg, saved, mine>>

(* idt_load: lidt and sti. *)
idt_load == Setup("idt") /\ cpu' = [cpu EXCEPT !.idt = TRUE]

(* gdt_init: make_gdt gives the TSS stacks of its own for rsp0 and ist1, and
   flush_gdt loads the table, the segments and the task register. *)
gdt_init == Setup("gdt") /\ cpu' = [cpu EXCEPT !.tss = TRUE, !.cs = Sel(1, 0), !.ss = Sel(2, 0)]

(* apic_start measures with the timer masked; apic_set_duration unmasks it. *)
apic_start == Setup("apic") /\ cpu' = [cpu EXCEPT !.timer = TRUE]

sched_begin ==
  /\ pc = "kernel" /\ ~ready /\ ready' = TRUE
  /\ UNCHANGED <<pc, cpu, from, cur, reg, saved, mine>>

-----------------------------------------------------------------------------
UserStep ==
  /\ pc = "user"
  /\ \E fr, gp \in 1..MAXV : reg' = [fr |-> fr, gp |-> gp]
  /\ mine' = [mine EXCEPT ![cur] = reg']
  /\ UNCHANGED <<pc, cpu, from, ready, cur, saved>>

(* The LAPIC timer; one tick can wait while another is in service. *)
Tick ==
  /\ cpu.timer /\ ~cpu.pending /\ cpu' = [cpu EXCEPT !.pending = TRUE]
  /\ UNCHANGED <<pc, from, ready, cur, reg, saved, mine>>

(* Interrupts are on in a process, and in kmain and mp_start after sti.  The
   gate switches to the stack of ist1; coming from a process, ss is null. *)
Interruptible == cpu.idt /\ pc \in {"gdt", "apic", "kernel", "user"}
Entered == [cpu EXCEPT !.cs = GateCs, !.ss = IF pc = "user" THEN 0 ELSE @, !.ist = TRUE]
TakeTick ==
  /\ Interruptible /\ cpu.pending /\ ~cpu.inservice
  /\ cpu' = [Entered EXCEPT !.pending = FALSE, !.inservice = TRUE]
  /\ from' = pc /\ pc' = "isr"
  /\ UNCHANGED <<ready, cur, reg, saved, mine>>

(* isr_handle freezes the CPU for every other vector, faults and spurious
   interrupts alike.  None is spurious while the LAPIC is off, with the lines
   masked as the boot loader leaves them. *)
TakeOther ==
  /\ Interruptible /\ pc \in {"kernel", "user"}
  /\ cpu' = Entered
  /\ from' = pc /\ pc' = "frozen"
  /\ UNCHANGED <<ready, cur, reg, saved, mine>>

(* syscall_entry: interrupts are masked; [gs:0] replaces the number in rax, so
   that the call through jmp_tab faults. *)
syscall_entry ==
  /\ pc = "user"
  /\ cpu' = [cpu EXCEPT !.cs = StarKernel, !.ss = StarKernel + 8]
  /\ from' = pc /\ pc' = "frozen"
  /\ UNCHANGED <<ready, cur, reg, saved, mine>>

(* Before sched_ready isr_handle returns, and the stub writes EOI. *)
IsrReturn ==
  /\ pc = "isr" /\ ~ready
  /\ cpu' = [cpu EXCEPT !.inservice = FALSE, !.ist = FALSE]
  /\ pc' = from
  /\ UNCHANGED <<from, ready, cur, reg, saved, mine>>

(* Mutant: the state is saved once the next process is current. *)
ctx_switch_saves_late ==
  /\ pc = "isr" /\ ready /\ pc' = "return"
  /\ \E p \in Procs : cur' = p /\ saved' = [saved EXCEPT ![p] = reg]
  /\ UNCHANGED <<cpu, from, ready, reg, mine>>

(* ctx_switch: irq2state of the frame on the stack, then proc_next. *)
ctx_switch ==
  /\ pc = "isr" /\ ready /\ pc' = "return"
  /\ saved' = [saved EXCEPT ![cur] = reg]
  /\ cur' \in Procs
  /\ UNCHANGED <<cpu, from, ready, reg, mine>>

(* Mutant: no EOI. *)
ReturnedUnserved == [cpu EXCEPT !.cs = Sel(4, 3), !.ss = Sel(3, 3), !.ist = FALSE]

(* return_user_: EOI, and iretq with a frame made from the saved state.  The
   other registers come from the place rax was set to last, cpu_data. *)
Returned == [cpu EXCEPT !.inservice = FALSE, !.cs = Sel(4, 3), !.ss = Sel(3, 3), !.ist = FALSE]
return_user_ ==
  /\ pc = "return" /\ pc' = "user"
  /\ cpu' = Returned
  /\ reg' = [fr |-> saved[cur].fr, gp |-> JUNK]
  /\ UNCHANGED <<from, ready, cur, saved, mine>>

KernelStep ==
  idt_load \/ gdt_init \/ apic_start \/ sched_begin \/ IsrReturn \/ ctx_switch \/ return_user_
Next == KernelStep \/ UserStep \/ Tick \/ TakeTick \/ TakeOther \/ syscall_entry

(* The CPU goes on, its timer counts, and a tick that can be taken is. *)
Spec == Init /\ [][Next]_vars /\ WF_vars(KernelStep) /\ WF_vars(Tick) /\ WF_vars(TakeTick)

-----------------------------------------------------------------------------
(* A process goes on where it was interrupted, with its stack and flags: the
   frame of its last interrupt is what return_user_ makes iretq load, whatever
   ran in between. *)
FrameComesBack == pc = "user" => reg.fr = mine[cur].fr

(* "rax should be cpu_data.proc_current" (return_user_.asm): the other registers
   of a process come back as well. *)
RegistersComeBack == pc = "user" => reg.gp = mine[cur].gp

(* The privilege level fits the descriptors that the selectors name, on every
   way in and out: iretq, gates, syscall, and sysret, whose selectors STAR ties
   to the order of the GDT. *)
Code(sel) == gdt_base[sel \div 8]
Fits(code, data, level) ==
  /\ code % 4 = level /\ Code(code) = Desc(TRUE, level, TRUE)
  /\ data % 4 = level /\ (data = 0 \/ Code(data) = Desc(FALSE, level, FALSE))
SegmentsFit ==
  /\ pc = "user" => Fits(cpu.cs, cpu.ss, 3)
  /\ pc # "user" /\ cpu.cs # 0 => Fits(cpu.cs, cpu.ss, 0)
  /\ Fits(StarUser + 16, StarUser + 8, 3)

(* No tick is taken before ist1 has a stack, although idt_load turns interrupts
   on before gdt_init: the timer starts last. *)
TickHasStack == cpu.ist => cpu.tss

(* A process never keeps the CPU: each tick is acknowledged on the way back, so
   the next one interrupts it. *)
TicksKeepComing == pc = "user" ~> pc # "user"
=============================================================================
