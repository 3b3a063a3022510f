-------------------------------- MODULE Trap --------------------------------
(***************************************************************************)
(* Exceptions, system calls and context switches:                          *)
(* arch/mips/kernel/entry.S and syscall.S, kernel/irq/irq.c, and the       *)
(* contexts that do_spawn and start_up (kernel/sched/sched.c) build.       *)
(*                                                                         *)
(* A register context is abstracted to v0 (result, system call number),    *)
(* a0 (first argument), s (everything else) and ra; in the kernel s holds  *)
(* the pointer regs that interrupt_helper works with, as a depth in the    *)
(* kernel stack.  A kernel stack is an array of frames, numbered from its  *)
(* top.  Registers, frames and stacks whose content nobody may rely on any *)
(* more are set to zero.                                                   *)
(* The code runs to completion with EXL set, so a step is one routine of   *)
(* entry.S or irq.c.  Which process the scheduler picks is the business of *)
(* module Sched: here it may be any one.                                   *)
(***************************************************************************)
EXTENDS Abi, Timer

CONSTANTS Task,       \* slots of pcb_list, not containing 0
          Reg,        \* values a program computes, with 0
          MaxPc,      \* instructions of a program, counted modulo MaxPc
          Calls       \* the library functions the programs call

ASSUME TrapAssumption ==
  /\ Task \subseteq Nat \ {0} /\ 0 \in Reg /\ Reg \subseteq Nat
  /\ MaxPc \in Nat \ {0} /\ Calls \subseteq DOMAIN Invokes

VARIABLES
  mode,              \* "user", or where the kernel is
  pc,                \* in user mode
  reg, sp, epc, k0,  \* processor registers
  cause,             \* CP0_CAUSE
  kstack,            \* the kernel stacks
  kernel_sp,         \* pcb_t.kernel_sp: frames in use
  user_sp,           \* pcb_t.user_sp
  status,            \* pcb_t.status, as far as exceptions depend on it
  current_running,
  user,              \* ghost: the context each program believes in
  asked,             \* ghost: the call a program waits for, or None
  nested             \* ghost: an exception was taken in the kernel

cpu    == <<mode, pc, reg, sp, epc, k0, cause>>
pcbs   == <<kstack, kernel_sp, user_sp, status, current_running>>
ghosts == <<user, asked, nested>>
vars   == <<cpu, pcbs, ghosts, clock>>

None  == "none"
Slot  == {0} \cup Task
Depth == 1..3
\* Frame 1 is the user's, then the arguments of a new process, if any, and the frame
\* of do_scheduler.
Regs  == [v0 : Nat, a0 : Nat, s : Nat, ra : STRING]
Frame(r, e) == [r |-> r, epc |-> e]
Zero  == [v0 |-> 0, a0 |-> 0, s |-> 0, ra |-> None]
NoFrame == Frame(Zero, 0)

UserStack(p)      == [stack |-> "user", of |-> p, depth |-> 0]
KernelStack(p, d) == [stack |-> "kernel", of |-> p, depth |-> d]

\* The contexts do_spawn puts on the kernel stack of a new process: the user's, the
\* arguments, and one do_scheduler will return through.
UserContext   == NoFrame
KernelContext(argc) ==
  Frame([v0 |-> 0, a0 |-> 1, s |-> argc, ra |-> "start_up_return"], 0)
NewStack(argc) ==
  [d \in Depth |-> IF d = 2 + argc THEN KernelContext(argc) ELSE UserContext]

FirstContext(argc) == [pc |-> 0, v0 |-> 0, a0 |-> argc, s |-> 0]

\* _start has spawned the first process and calls do_scheduler in its own context.
Init ==
  /\ mode = "do_scheduler" /\ pc = 0 /\ epc = 0 /\ k0 = 0 /\ cause = None
  /\ reg = Zero
  /\ sp = KernelStack(0, 0)
  /\ kstack = [p \in Slot |-> NewStack(0)]
  /\ \E first \in Task :
       /\ kernel_sp = [p \in Slot |-> IF p = first THEN 2 ELSE 0]
       /\ status = [p \in Slot |-> IF p = first THEN "LIVE" ELSE "NONE"]
  /\ user_sp = [p \in Slot |-> UserStack(p)]
  /\ current_running = 0
  /\ user = [p \in Slot |-> FirstContext(0)]
  /\ asked = [p \in Slot |-> None]
  /\ nested = FALSE
  /\ ClockInit
-----------------------------------------------------------------------------
\* The stacks after a frame with registers r and EPC e is pushed on stack p.
SAVE_CONTEXT(p, d, r, e) == [kstack EXCEPT ![p][d + 1] = Frame(r, e)]

\* The registers and EPC are taken from frame d of stack p, which is popped.
RESTORE_CONTEXT(stacks, p, d) ==
  /\ reg' = stacks[p][d].r /\ epc' = stacks[p][d].epc
  /\ kstack' = [stacks EXCEPT ![p][d] = NoFrame]

\* exception_handler_entry, up to interrupt_helper, with registers r and EPC e.
exception_handler_entry(c, r, e) ==
  /\ user_sp' = [user_sp EXCEPT ![k0] = sp]
  /\ kstack' = SAVE_CONTEXT(k0, kernel_sp[k0], r, e)
  /\ reg' = Zero /\ epc' = e /\ pc' = 0
  /\ sp' = KernelStack(k0, kernel_sp[k0] + 1)
  /\ cause' = c
  /\ mode' = "interrupt_helper"
  /\ UNCHANGED <<k0, kernel_sp, status, current_running>>

InUser == mode = "user" /\ ~nested

\* The program computes.
Compute ==
  /\ InUser
  /\ \E v \in Reg : reg' = [reg EXCEPT !.s = v]
  /\ pc' = (pc + 1) % MaxPc
  /\ user' = [user EXCEPT ![current_running] =
                [@ EXCEPT !.pc = pc', !.s = reg'.s]]
  /\ UNCHANGED <<mode, sp, epc, k0, cause, pcbs, asked, nested, clock>>

\* The count register has advanced since the last timer interrupt, if this exception
\* is going to call irq_timer.
CountAdvances(c) ==
  IF c = "INT" \/ status[current_running] = "EXITED"
  THEN \E d \in 1..MaxInterval : Tick(d)
  ELSE UNCHANGED clock

\* An interrupt, a TLB exception or an error between two instructions.
Exception(c) ==
  /\ InUser
  /\ CountAdvances(c)
  /\ exception_handler_entry(c, reg, pc)
  /\ UNCHANGED ghosts

\* invoke_syscall moves the number into v0 and the first argument into a0.
invoke_syscall(c, arg) == [reg EXCEPT !.v0 = Invokes[c], !.a0 = arg]

\* A program calls a library function with something it has computed; the function
\* executes the syscall instruction.
Syscall(c) ==
  /\ InUser
  /\ CountAdvances("SYS")
  /\ exception_handler_entry("SYS", invoke_syscall(c, reg.s), pc)
  /\ user' = [user EXCEPT ![current_running].pc = (pc + 1) % MaxPc,
                          ![current_running].a0 = reg.s]
  /\ asked' = [asked EXCEPT ![current_running] = c]
  /\ UNCHANGED nested
-----------------------------------------------------------------------------
(***************************************************************************)
(* interrupt_helper.  Its argument regs is the stack pointer it is called  *)
(* with.                                                                   *)
(***************************************************************************)
InHelper == mode = "interrupt_helper"
Reaping  == cause = "INT" \/ status[current_running] = "EXITED"

\* regs of the routine that called do_scheduler is kept on the stack.
CallScheduler(from) ==
  /\ mode' = "do_scheduler"
  /\ reg' = [Zero EXCEPT !.ra = from, !.s = sp.depth]
  /\ UNCHANGED <<pc, sp, epc, k0, cause>>

irq_timer ==
  /\ InHelper /\ Reaping
  /\ update_time_elapsed
  /\ CallScheduler("irq_timer")
  /\ UNCHANGED <<pcbs, ghosts>>

\* The page is in the page table and in the TLB afterwards: module VM.
TLB_Invalid_handler ==
  /\ InHelper /\ ~Reaping /\ cause = "TLB"
  /\ mode' = "exception_return"
  /\ UNCHANGED <<pc, reg, sp, epc, k0, cause, pcbs, ghosts, clock>>

\* while (1), with interrupts off.
other_exception_handler ==
  /\ InHelper /\ ~Reaping /\ cause = "OTHER"
  /\ mode' = "halt"
  /\ UNCHANGED <<pc, reg, sp, epc, k0, cause, pcbs, ghosts, clock>>

\* The function called for the number found in the frame.
system_call_helper == syscall[kstack[k0][sp.depth].r.v0]

\* Functions that wait, at some time, for something another process does.
Blocking == {"do_sleep", "do_waitpid", "do_scheduler", "do_mutex_lock_acquire",
             "do_condition_wait", "do_barrier_wait", "do_binsem_op",
             "do_mbox_send", "do_mbox_recv"}
\* Those that never return at once, and those that may wait more than once.
Switching == {"do_sleep", "do_scheduler", "do_condition_wait"}
Rewaiting == {"do_condition_wait", "do_mbox_send", "do_mbox_recv"}
\* Functions given a pointer into the memory of the program.
Touching == {"do_spawn", "screen_write", "do_mbox_open", "do_mbox_send", "do_mbox_recv",
             "do_find", "do_find_dir", "do_cd", "do_mkdir", "do_touch", "open", "write",
             "read", "cat"}

\* epc still points at the syscall instruction.
Answered_fault(f, v) == Frame([f.r EXCEPT !.v0 = v], f.epc)

\* The user's frame f after the call: its result v replaces v0, and the program will
\* continue after the instruction.
Answered(f, v) == Frame([f.r EXCEPT !.v0 = v], (f.epc + 1) % MaxPc)

\* The end of a system call, whose frame is at depth d.
Finish(d, v) ==
  /\ kstack' = [kstack EXCEPT ![k0][d] = Answered(@, v)]
  /\ mode' = "exception_return"

\* ghost: the program gets result v for the call it made.
Answer(v) ==
  /\ user' = [user EXCEPT ![current_running].v0 = v]
  /\ asked' = [asked EXCEPT ![current_running] = None]

InCall == InHelper /\ ~Reaping /\ cause = "SYS"

\* A call that returns without a switch; do_kill finds no such process, do_spawn no
\* free slot.
Return ==
  /\ InCall /\ system_call_helper \notin Switching \cup {"do_exit"}
  /\ system_call_helper = "do_spawn" => \A p \in Task : status[p] # "NONE"
  /\ \E v \in Reg : Finish(sp.depth, v) /\ Answer(v)
  /\ UNCHANGED <<pc, reg, sp, epc, k0, cause, kernel_sp, user_sp, status,
                 current_running, nested, clock>>

\* A call that waits or yields.
Wait ==
  /\ InCall /\ system_call_helper \in Blocking
  /\ CallScheduler("syscall")
  /\ UNCHANGED <<pcbs, ghosts, clock>>

\* The child starts with its arguments; the parent gets the pid.
do_spawn ==
  /\ InCall /\ system_call_helper = "do_spawn"
  /\ \E p \in Task, argc \in 0..1, v \in Reg :
       /\ status[p] = "NONE"
       /\ status' = [status EXCEPT ![p] = "LIVE"]
       /\ kernel_sp' = [kernel_sp EXCEPT ![p] = 2 + argc]
       /\ user_sp' = [user_sp EXCEPT ![p] = UserStack(p)]
       /\ kstack' = [kstack EXCEPT ![p] = NewStack(argc),
                                   ![k0][sp.depth] = Answered(@, v)]
       /\ user' = [user EXCEPT ![p] = FirstContext(argc), ![current_running].v0 = v]
       /\ asked' = [asked EXCEPT ![p] = None, ![current_running] = None]
  /\ mode' = "exception_return"
  /\ UNCHANGED <<pc, reg, sp, epc, k0, cause, current_running, nested, clock>>

do_exit ==
  /\ InCall /\ system_call_helper = "do_exit"
  /\ status' = [status EXCEPT ![current_running] = "NONE"]
  /\ CallScheduler("syscall")
  /\ UNCHANGED <<kstack, kernel_sp, user_sp, current_running, ghosts, clock>>

\* A process that kills itself continues until it enters the kernel again.
do_kill ==
  /\ InCall /\ system_call_helper = "do_kill"
  /\ \E p \in Task :
       /\ status[p] = "LIVE"
       /\ status' = [status EXCEPT ![p] = IF p = current_running THEN "EXITED" ELSE "NONE"]
  /\ Finish(sp.depth, 0) /\ Answer(0)
  /\ UNCHANGED <<pc, reg, sp, epc, k0, cause, kernel_sp, user_sp, current_running,
                 nested, clock>>

\* The kernel uses a pointer of the program whose page has no TLB entry.  With EXL
\* set the exception goes to exception_handler_entry, and EPC keeps its value.
NestedException ==
  /\ ~nested
  /\ \/ InCall /\ system_call_helper \in Touching
     \/ mode = "syscall" /\ syscall[kstack[k0][reg.s].r.v0] \in Touching
  /\ exception_handler_entry("TLB", [Zero EXCEPT !.s = sp.depth], epc)
  /\ nested' = TRUE
  /\ UNCHANGED <<user, asked, clock>>
-----------------------------------------------------------------------------
(***************************************************************************)
(* Switching and returning.                                                *)
(***************************************************************************)

\* The stack of a process that is no more is empty.
Live(stacks) == [p \in Slot |-> IF status'[p] = "NONE" THEN NewStack(0) ELSE stacks[p]]

SavedSp == [kernel_sp EXCEPT ![k0] = sp.depth + 1]

\* The context is saved on the stack of k0, scheduler frees a process that is to exit
\* and picks one, and that one's context is restored.
do_scheduler ==
  /\ mode = "do_scheduler"
  /\ status' = [p \in Slot |-> IF p = current_running /\ status[p] = "EXITED"
                               THEN "NONE" ELSE status[p]]
  /\ \E p \in Task :
       /\ status'[p] = "LIVE"
       /\ current_running' = p /\ k0' = p
       /\ kernel_sp' = SavedSp
       /\ RESTORE_CONTEXT(Live(SAVE_CONTEXT(k0, sp.depth, reg, epc)), p, kernel_sp'[p])
       /\ sp' = KernelStack(p, kernel_sp'[p] - 1)
  /\ mode' = reg'.ra
  /\ UNCHANGED <<pc, cause, user_sp, ghosts, clock>>

\* do_scheduler returns to irq_timer.
AfterTimer ==
  /\ mode = "irq_timer"
  /\ mode' = "exception_return"
  /\ UNCHANGED <<pc, reg, sp, epc, k0, cause, pcbs, ghosts, clock>>

\* do_scheduler returns to a function that finishes, or has to wait again.
AfterWait ==
  /\ mode = "syscall"
  /\ \/ /\ \E v \in Reg : Finish(reg.s, v) /\ Answer(v)
        /\ UNCHANGED <<pc, reg, sp, epc, k0, cause, kernel_sp, user_sp, status,
                       current_running, nested>>
     \/ /\ syscall[kstack[k0][reg.s].r.v0] \in Rewaiting
        /\ CallScheduler("syscall")
        /\ UNCHANGED <<pcbs, ghosts>>
  /\ UNCHANGED clock

\* RESTORE_CONTEXT from frame d, the stack pointers and eret.
Eret(stacks, d) ==
  /\ reg' = stacks[k0][d].r /\ pc' = stacks[k0][d].epc /\ epc' = 0
  /\ kstack' = [stacks EXCEPT ![k0][d] = NoFrame]
  /\ kernel_sp' = [kernel_sp EXCEPT ![k0] = d - 1]
  /\ sp' = user_sp'[k0]
  /\ cause' = None
  /\ mode' = "user"
  /\ UNCHANGED <<k0, status, current_running, ghosts, clock>>

exception_return ==
  /\ mode = "exception_return"
  /\ UNCHANGED user_sp
  /\ Eret(kstack, sp.depth)

\* start_up copies the arguments to the user stack and puts argc into the user context
\* that a0 points to; its result is the size of the arguments on the kernel stack.
start_up == [kstack EXCEPT ![k0][reg.a0].r.a0 = reg.s]

\* The arguments stay on the stack.
start_up_return_fault ==
  /\ mode = "start_up_return"
  /\ user_sp' = [user_sp EXCEPT ![current_running] = UserStack(current_running)]
  /\ Eret(start_up, sp.depth)

\* A new process starts.
start_up_return ==
  /\ mode = "start_up_return"
  /\ user_sp' = [user_sp EXCEPT ![current_running] = UserStack(current_running)]
  /\ Eret(start_up, sp.depth - reg.s)

Next ==
  \/ Compute \/ (\E c \in {"INT", "TLB", "OTHER"} : Exception(c))
  \/ (\E c \in Calls : Syscall(c))
  \/ irq_timer \/ TLB_Invalid_handler \/ other_exception_handler
  \/ Return \/ Wait \/ do_spawn \/ do_exit \/ do_kill \/ NestedException
  \/ do_scheduler \/ AfterTimer \/ AfterWait \/ exception_return \/ start_up_return

Spec == Init /\ [][Next]_vars
-----------------------------------------------------------------------------
Mode == {"user", "interrupt_helper", "do_scheduler", "exception_return",
         "start_up_return", "irq_timer", "syscall", "halt"}

TypeOK ==
  /\ mode \in Mode
  /\ pc \in 0..(MaxPc - 1) /\ epc \in 0..(MaxPc - 1)
  /\ k0 \in Slot /\ current_running \in Slot
  /\ \A p \in Slot : /\ DOMAIN kstack[p] = Depth
                     /\ kernel_sp[p] \in 0..3
                     /\ status[p] \in {"NONE", "LIVE", "EXITED"}
                     /\ asked[p] \in Calls \cup {None}
  /\ nested \in BOOLEAN

\* Whatever happened while it was interrupted, a program that runs again finds its
\* registers, its stack and its place as it left them, except that a system call has
\* been executed, once, and its result is in v0; k0 is its pcb, and its kernel stack
\* is empty.  The one exception is an exception in the kernel: it returns to the
\* program in the middle of the call.
ContextIntact ==
  /\ TypeOK
  /\ InUser =>
    LET p == current_running
    IN  /\ k0 = p /\ status[p] # "NONE"
        /\ sp = UserStack(p) /\ kernel_sp[p] = 0
        /\ user[p] = [pc |-> pc, v0 |-> reg.v0, a0 |-> reg.a0, s |-> reg.s]
        /\ asked[p] = None

\* The first frame of every other process is its own context, complete with the call
\* it has made, until it runs; and do_scheduler will return through the frame that
\* kernel_sp points to.
SavedContextIntact ==
  ~nested => \A p \in Task :
    status[p] = "LIVE" /\ ~(p = current_running /\ mode = "user") =>
      LET f == kstack[p][1]
      IN  /\ f.r.s = user[p].s
          /\ asked[p] = None => f.r.v0 = user[p].v0 /\ f.epc = user[p].pc
          /\ asked[p] # None => /\ f.r.v0 = Invokes[asked[p]] /\ f.r.a0 = user[p].a0
                               /\ (f.epc + 1) % MaxPc = user[p].pc
          /\ p # k0 => kstack[p][kernel_sp[p]].r.ra \in
                         {"start_up_return", "irq_timer", "syscall"}
=============================================================================
