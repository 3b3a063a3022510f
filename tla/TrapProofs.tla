----------------------------- MODULE TrapProofs -----------------------------
(***************************************************************************)
(* Programs find their contexts intact, for any number of processes and    *)
(* any programs (module Trap), and the clock lags behind the processor by  *)
(* one cycle per wrap of the count register, for every width of the        *)
(* register (module Timer).                                                *)
(***************************************************************************)
EXTENDS Trap, TLAPS

V        == Nat \cup {Invokes[c] : c \in Calls}
Pc       == 0..(MaxPc - 1)
RegSet   == [v0 : V, a0 : Nat, s : Nat, ra : Mode \cup {None}]
FrameSet == [r : RegSet, epc : Pc]
Context  == [pc : Pc, v0 : V, a0 : Nat, s : Nat]
StackSet == [stack : {"user", "kernel"}, of : Slot, depth : 0..3]

Typed ==
  /\ mode \in Mode /\ pc \in Pc /\ epc \in Pc /\ reg \in RegSet /\ sp \in StackSet
  /\ current_running \in Slot /\ k0 = current_running
  /\ kstack \in [Slot -> [Depth -> FrameSet]]
  /\ kernel_sp \in [Slot -> 0..3]
  /\ user_sp \in [Slot -> StackSet]
  /\ status \in [Slot -> {"NONE", "LIVE", "EXITED"}]
  /\ user \in [Slot -> Context]
  /\ asked \in [Slot -> Calls \cup {None}]
  /\ nested \in BOOLEAN

\* Frame f holds context u of a program that has made call a, or none.
Holds(f, u, a) ==
  /\ f.r.s = u.s /\ f.r.a0 = u.a0
  /\ a = None => f.r.v0 = u.v0 /\ f.epc = u.pc
  /\ a # None => f.r.v0 = Invokes[a] /\ (f.epc + 1) % MaxPc = u.pc

\* p is in the kernel, and its context is in the first frame of its stack.
Entered(p) == Holds(kstack[p][1], user[p], asked[p]) /\ user_sp[p] = UserStack(p)

\* do_scheduler was called with registers r: by irq_timer, or in a system call.
CalledWith(r, a) == r.ra = (IF a = None THEN "irq_timer" ELSE "syscall") /\ r.s = 1

\* p has been switched out, or is new and has never run.
Switched(p) ==
  /\ Entered(p)
  /\ kernel_sp[p] = 2 /\ CalledWith(kstack[p][2].r, asked[p])
NewProgram(p, argc) ==
  asked[p] = None /\ user[p] = FirstContext(argc) /\ kstack[p][1] = UserContext
Fresh(p, argc) ==
  /\ NewProgram(p, argc)
  /\ kernel_sp[p] = 2 + argc /\ kstack[p][2 + argc] = KernelContext(argc)
Ready(p) == Switched(p) \/ \E argc \in 0..1 : Fresh(p, argc)

\* The running process c, by what the kernel is doing.
RunsUser(c) ==
  /\ c \in Task /\ status[c] # "NONE"
  /\ sp = UserStack(c) /\ kernel_sp[c] = 0
  /\ user[c] = [pc |-> pc, v0 |-> reg.v0, a0 |-> reg.a0, s |-> reg.s]
  /\ asked[c] = None
InKernel(c) ==
  /\ c \in Task /\ status[c] # "NONE" /\ sp = KernelStack(c, 1) /\ Entered(c)
  /\ mode = "interrupt_helper" => kernel_sp[c] = 0 /\ (cause = "SYS" <=> asked[c] # None)
  /\ mode = "irq_timer" => asked[c] = None /\ status[c] = "LIVE"
  /\ mode = "syscall" => asked[c] # None /\ status[c] = "LIVE" /\ reg.s = 1
                         /\ kernel_sp[c] = 2
  /\ mode = "exception_return" => asked[c] = None
Switches(c) ==
  \/ c = 0 /\ status[c] = "NONE" /\ sp = KernelStack(0, 0)
  \/ /\ c \in Task /\ sp = KernelStack(c, 1)
     /\ status[c] = "LIVE" => Entered(c) /\ CalledWith(reg, asked[c])
Starts(c) ==
  /\ c \in Task /\ status[c] = "LIVE"
  /\ \E argc \in 0..1 : /\ NewProgram(c, argc)
                        /\ sp = KernelStack(c, 1 + argc)
                        /\ reg.a0 = 1 /\ reg.s = argc

Running(c) ==
  /\ mode = "user" => RunsUser(c)
  /\ mode \in {"interrupt_helper", "irq_timer", "syscall", "exception_return", "halt"}
       => InKernel(c)
  /\ mode = "do_scheduler" => Switches(c)
  /\ mode = "start_up_return" => Starts(c)

Others(c) == \A p \in Task \ {c} : /\ status[p] # "EXITED"
                                   /\ status[p] = "LIVE" => Ready(p)

\* After an exception in the kernel, the handler returns to the program at once.
Aborted(c) ==
  /\ mode \in {"interrupt_helper", "exception_return", "user"}
  /\ mode = "interrupt_helper" => cause = "TLB" /\ status[c] = "LIVE"
  /\ mode # "user" => sp.depth \in Depth

TrapInv ==
  /\ Typed
  /\ ~nested => Running(current_running) /\ Others(current_running)
  /\ nested => Aborted(current_running)
-----------------------------------------------------------------------------
(***************************************************************************)
(* Values.                                                                 *)
(***************************************************************************)
LEMMA NoneIsNoCall == None \notin Calls
<1>1. None \notin DOMAIN Invokes
  BY DEF Invokes, None
<1> QED
  BY <1>1, TrapAssumption

LEMMA NextPc == \A x \in Pc : (x + 1) % MaxPc \in Pc
<1> SUFFICES ASSUME NEW x \in Pc
             PROVE  (x + 1) % MaxPc \in Pc
  OBVIOUS
<1>1. MaxPc \in Nat \ {0} /\ x + 1 \in Int
  BY TrapAssumption DEF Pc
<1>2. PICK y : y = x + 1
  OBVIOUS
<1>3. y % MaxPc \in 0..(MaxPc - 1)
  BY <1>1, <1>2
<1> QED
  BY <1>2, <1>3 DEF Pc

LEMMA Values ==
  /\ 0 \in Pc /\ 0 \in V /\ Nat \subseteq V /\ Reg \subseteq Nat
  /\ Zero \in RegSet /\ NoFrame \in FrameSet
  /\ \A r \in RegSet, e \in Pc : Frame(r, e) \in FrameSet /\ Frame(r, e).r = r
                                 /\ Frame(r, e).epc = e
  /\ \A p \in Slot : UserStack(p) \in StackSet
  /\ \A p \in Slot, d \in 0..3 : KernelStack(p, d) \in StackSet /\ KernelStack(p, d).depth = d
<1>1. 0 \in Pc /\ 0 \in V /\ Nat \subseteq V /\ Reg \subseteq Nat
  BY TrapAssumption DEF Pc, V
<1>2. Zero \in RegSet
  BY <1>1 DEF Zero, RegSet
<1>3. \A r \in RegSet, e \in Pc : Frame(r, e) \in FrameSet /\ Frame(r, e).r = r
                                  /\ Frame(r, e).epc = e
  BY DEF Frame, FrameSet
<1>4. NoFrame \in FrameSet
  BY <1>1, <1>2, <1>3 DEF NoFrame
<1>5. \A p \in Slot : UserStack(p) \in StackSet
  BY DEF UserStack, StackSet
<1>6. \A p \in Slot, d \in 0..3 : KernelStack(p, d) \in StackSet /\ KernelStack(p, d).depth = d
  BY DEF KernelStack, StackSet
<1> QED
  BY <1>1, <1>2, <1>3, <1>4, <1>5, <1>6

LEMMA NewStackTyped ==
  ASSUME NEW argc \in 0..1
  PROVE  /\ NewStack(argc) \in [Depth -> FrameSet]
         /\ NewStack(argc)[1] = UserContext /\ NewStack(argc)[2 + argc] = KernelContext(argc)
         /\ KernelContext(argc).r.ra = "start_up_return" /\ KernelContext(argc).r.a0 = 1
         /\ KernelContext(argc).r.s = argc
<1>1. [v0 |-> 0, a0 |-> 1, s |-> argc, ra |-> "start_up_return"] \in RegSet
  BY Values DEF RegSet, Mode
<1>2. /\ KernelContext(argc) \in FrameSet
      /\ KernelContext(argc).r = [v0 |-> 0, a0 |-> 1, s |-> argc, ra |-> "start_up_return"]
  BY <1>1, Values DEF KernelContext
<1>3. UserContext \in FrameSet
  BY Values DEF UserContext
<1>4. NewStack(argc) \in [Depth -> FrameSet]
  BY <1>2, <1>3 DEF NewStack
<1>5. 1 \in Depth /\ 2 + argc \in Depth /\ 1 # 2 + argc
  BY DEF Depth
<1>6. NewStack(argc)[1] = UserContext /\ NewStack(argc)[2 + argc] = KernelContext(argc)
  BY <1>5 DEF NewStack
<1> QED
  BY <1>2, <1>4, <1>6

\* The type invariant of the specification.
LEMMA TypedTypeOK == Typed => TypeOK
  BY DEF Typed, TypeOK, Pc

LEMMA CurrentTyped ==
  ASSUME Typed, NEW c, c = current_running
  PROVE  /\ c \in Slot /\ k0 = c
         /\ kstack[c] \in [Depth -> FrameSet] /\ kernel_sp[c] \in 0..3
         /\ user[c] \in Context /\ status[c] \in {"NONE", "LIVE", "EXITED"}
         /\ asked[c] \in Calls \cup {None} /\ user_sp[c] \in StackSet
  BY DEF Typed

(***************************************************************************)
(* Who is not running.                                                     *)
(***************************************************************************)
Same(p) == /\ status'[p] = status[p] /\ user'[p] = user[p] /\ asked'[p] = asked[p]
           /\ kstack'[p] = kstack[p] /\ kernel_sp'[p] = kernel_sp[p]
           /\ user_sp'[p] = user_sp[p]

LEMMA SameReady ==
  ASSUME NEW p, Same(p), Ready(p)
  PROVE  Ready(p)'
  BY DEF Same, Ready, Switched, Entered, Fresh, NewProgram

\* The others are where they were, or no more.
LEMMA OthersKept ==
  ASSUME NEW c, Others(c), \A p \in Task \ {c} : Same(p) \/ status'[p] = "NONE"
  PROVE  Others(c)'
<1> SUFFICES ASSUME NEW p \in Task \ {c}
             PROVE  status'[p] # "EXITED" /\ (status'[p] = "LIVE" => Ready(p)')
  BY DEF Others
<1>1. CASE Same(p)
  BY <1>1, SameReady DEF Same, Others
<1>2. CASE status'[p] = "NONE"
  BY <1>2
<1> QED
  BY <1>1, <1>2
-----------------------------------------------------------------------------
(***************************************************************************)
(* Entering the kernel.                                                    *)
(***************************************************************************)
LEMMA ComputeStep ==
  ASSUME TrapInv, Compute
  PROVE  TrapInv'
<1>1. PICK c : c = current_running
  OBVIOUS
<1>2. PICK v \in Reg : reg' = [reg EXCEPT !.s = v]
  BY DEF Compute
<1>3. /\ mode = "user" /\ ~nested /\ pc' = (pc + 1) % MaxPc
      /\ user' = [user EXCEPT ![c] = [@ EXCEPT !.pc = pc', !.s = reg'.s]]
      /\ UNCHANGED <<mode, sp, epc, k0, cause, kstack, kernel_sp, user_sp, status,
                     current_running, asked, nested>>
  BY <1>1 DEF Compute, InUser, pcbs
<1>4. Typed /\ RunsUser(c) /\ Others(c)
  BY <1>1, <1>3 DEF TrapInv, Running
<1>5. /\ pc' \in Pc /\ v \in Nat /\ reg' \in RegSet
      /\ reg'.s = v /\ reg'.v0 = reg.v0 /\ reg'.a0 = reg.a0
  <2>1. pc' \in Pc
    BY <1>3, <1>4, NextPc DEF Typed
  <2>2. v \in Nat /\ reg \in RegSet
    BY <1>4, Values DEF Typed
  <2> QED
    BY <1>2, <2>1, <2>2 DEF RegSet
<1>6. c \in Slot /\ user[c] \in Context
  BY <1>1, <1>4, CurrentTyped
<1>7. PICK u : u = [user[c] EXCEPT !.pc = pc', !.s = v]
  OBVIOUS
<1>8. u \in Context /\ u = [pc |-> pc', v0 |-> reg'.v0, a0 |-> reg'.a0, s |-> reg'.s]
  <2>1. user[c] = [pc |-> pc, v0 |-> reg.v0, a0 |-> reg.a0, s |-> reg.s]
    BY <1>4 DEF RunsUser
  <2>2. u = [pc |-> pc', v0 |-> reg.v0, a0 |-> reg.a0, s |-> v]
    <3>1. /\ u \in Context /\ u.pc = pc' /\ u.s = v
          /\ u.v0 = user[c].v0 /\ u.a0 = user[c].a0
      BY <1>5, <1>6, <1>7 DEF Context
    <3>2. u = [pc |-> u.pc, v0 |-> u.v0, a0 |-> u.a0, s |-> u.s]
      BY <3>1 DEF Context
    <3> QED
      BY <2>1, <3>1, <3>2
  <2>3. reg.v0 \in V /\ reg.a0 \in Nat
    BY <1>4 DEF Typed, RegSet
  <2> QED
    BY <1>5, <2>2, <2>3 DEF Context
<1>9. user' = [user EXCEPT ![c] = u]
  BY <1>3, <1>5, <1>7
<1>10. /\ user' \in [Slot -> Context] /\ user'[c] = u
       /\ \A p \in Slot \ {c} : user'[p] = user[p]
  BY <1>4, <1>6, <1>8, <1>9 DEF Typed
<1>11. Typed'
  BY <1>3, <1>4, <1>5, <1>10 DEF Typed
<1>12. RunsUser(c)'
  BY <1>3, <1>4, <1>8, <1>10 DEF RunsUser
<1>13. Others(c)'
  <2>1. \A p \in Task \ {c} : Same(p)
    BY <1>3, <1>10 DEF Same, Slot
  <2> QED
    BY <1>4, <2>1, OthersKept
<1> QED
  BY <1>1, <1>3, <1>11, <1>12, <1>13 DEF TrapInv, Running

\* Process c enters the kernel for ca, and its registers go to frame d.
Enters(c, d, ca, r, e) ==
  /\ mode' = "interrupt_helper" /\ cause' = ca
  /\ pc' \in Pc /\ epc' \in Pc /\ reg' \in RegSet
  /\ sp' = KernelStack(c, d) /\ sp' \in StackSet
  /\ kstack' \in [Slot -> [Depth -> FrameSet]] /\ kstack'[c][d] = Frame(r, e)
  /\ user_sp' \in [Slot -> StackSet] /\ user_sp'[c] = sp
  /\ \A p \in Slot \ {c} : kstack'[p] = kstack[p] /\ user_sp'[p] = user_sp[p]
  /\ UNCHANGED <<k0, kernel_sp, status, current_running>>

LEMMA EntryStep ==
  ASSUME Typed, NEW c, c = current_running, NEW ca, NEW r \in RegSet, NEW e \in Pc,
         NEW d, d = kernel_sp[c] + 1, d \in Depth, exception_handler_entry(ca, r, e)
  PROVE  Enters(c, d, ca, r, e)
<1>1. /\ user_sp' = [user_sp EXCEPT ![c] = sp]
      /\ kstack' = [kstack EXCEPT ![c][d] = Frame(r, e)]
      /\ reg' = Zero /\ epc' = e /\ pc' = 0 /\ sp' = KernelStack(c, d)
      /\ cause' = ca /\ mode' = "interrupt_helper"
      /\ UNCHANGED <<k0, kernel_sp, status, current_running>>
  BY DEF exception_handler_entry, SAVE_CONTEXT, Typed
<1>2. /\ Frame(r, e) \in FrameSet /\ 0 \in Pc /\ Zero \in RegSet
  BY Values
<1>3. c \in Slot /\ kstack[c] \in [Depth -> FrameSet]
  BY CurrentTyped
<1>4. sp' \in StackSet
  <2>1. d \in 0..3
    BY DEF Depth
  <2> QED
    BY <1>1, <1>3, <2>1, Values
<1>5. /\ user_sp' \in [Slot -> StackSet] /\ user_sp'[c] = sp
      /\ \A p \in Slot \ {c} : user_sp'[p] = user_sp[p]
  BY <1>1, <1>3 DEF Typed
<1>6. [kstack[c] EXCEPT ![d] = Frame(r, e)] \in [Depth -> FrameSet]
  BY <1>2, <1>3
<1>7. /\ kstack' \in [Slot -> [Depth -> FrameSet]] /\ kstack'[c][d] = Frame(r, e)
      /\ \A p \in Slot \ {c} : kstack'[p] = kstack[p]
  BY <1>1, <1>3, <1>6 DEF Typed
<1> QED
  BY <1>1, <1>2, <1>4, <1>5, <1>7 DEF Enters

LEMMA ExceptionStep ==
  ASSUME TrapInv, NEW ca \in {"INT", "TLB", "OTHER"}, Exception(ca)
  PROVE  TrapInv'
<1>1. PICK c : c = current_running
  OBVIOUS
<1>2. /\ mode = "user" /\ ~nested /\ exception_handler_entry(ca, reg, pc)
      /\ UNCHANGED <<user, asked, nested>>
  BY DEF Exception, InUser, ghosts
<1>3. Typed /\ RunsUser(c) /\ Others(c)
  BY <1>1, <1>2 DEF TrapInv, Running
<1>4. 1 = kernel_sp[c] + 1 /\ 1 \in Depth /\ reg \in RegSet /\ pc \in Pc
  BY <1>3 DEF RunsUser, Depth, Typed
<1>5. /\ mode' = "interrupt_helper" /\ cause' = ca
      /\ pc' \in Pc /\ epc' \in Pc /\ reg' \in RegSet
      /\ sp' = KernelStack(c, 1) /\ sp' \in StackSet
      /\ kstack' \in [Slot -> [Depth -> FrameSet]] /\ kstack'[c][1] = Frame(reg, pc)
      /\ user_sp' \in [Slot -> StackSet] /\ user_sp'[c] = sp
      /\ \A p \in Slot \ {c} : kstack'[p] = kstack[p] /\ user_sp'[p] = user_sp[p]
      /\ UNCHANGED <<k0, kernel_sp, status, current_running>>
  <2>1. Enters(c, 1, ca, reg, pc)
    BY <1>1, <1>2, <1>3, <1>4, EntryStep
  <2> QED
    BY <2>1 DEF Enters
<1>6. Typed'
  BY <1>2, <1>3, <1>5 DEF Typed, Mode
<1>7. InKernel(c)'
  <2>1. Frame(reg, pc).r = reg /\ Frame(reg, pc).epc = pc
    BY <1>4, Values
  <2>2. Entered(c)'
    BY <1>2, <1>3, <1>5, <2>1 DEF Entered, Holds, RunsUser
  <2> QED
    BY <1>2, <1>3, <1>5, <2>2 DEF InKernel, RunsUser
<1>8. Others(c)'
  <2>1. \A p \in Task \ {c} : Same(p)
    BY <1>2, <1>5 DEF Same, Slot
  <2> QED
    BY <1>3, <2>1, OthersKept
<1> QED
  BY <1>1, <1>2, <1>5, <1>6, <1>7, <1>8 DEF TrapInv, Running

LEMMA SyscallStep ==
  ASSUME TrapInv, NEW k \in Calls, Syscall(k)
  PROVE  TrapInv'
<1>1. PICK c : c = current_running
  OBVIOUS
<1>2. PICK r : r = [reg EXCEPT !.v0 = Invokes[k], !.a0 = reg.s]
  OBVIOUS
<1>3. PICK u : u = [user[c] EXCEPT !.pc = (pc + 1) % MaxPc, !.a0 = reg.s]
  OBVIOUS
<1>4. /\ mode = "user" /\ ~nested /\ exception_handler_entry("SYS", r, pc)
      /\ asked' = [asked EXCEPT ![c] = k] /\ nested' = nested
  BY <1>1, <1>2 DEF Syscall, InUser, invoke_syscall
<1>5. Typed /\ RunsUser(c) /\ Others(c)
  BY <1>1, <1>4 DEF TrapInv, Running
<1>6. c \in Slot /\ user[c] \in Context /\ reg \in RegSet /\ pc \in Pc /\ (pc + 1) % MaxPc \in Pc
  BY <1>1, <1>5, CurrentTyped, NextPc DEF Typed
<1>7. user' = [user EXCEPT ![c] = u]
  BY <1>1, <1>3, <1>5, <1>6 DEF Syscall, Typed, Context
<1>8. r \in RegSet /\ r.v0 = Invokes[k] /\ r.a0 = reg.s /\ r.s = reg.s
  <2>1. Invokes[k] \in V
    BY DEF V
  <2> QED
    BY <1>2, <1>6, <2>1 DEF RegSet
<1>9. u \in Context /\ u.pc = (pc + 1) % MaxPc /\ u.a0 = reg.s /\ u.s = user[c].s
  BY <1>3, <1>6 DEF Context, RegSet
<1>10. 1 = kernel_sp[c] + 1 /\ 1 \in Depth
  BY <1>5 DEF RunsUser, Depth
<1>11. /\ mode' = "interrupt_helper" /\ cause' = "SYS"
       /\ pc' \in Pc /\ epc' \in Pc /\ reg' \in RegSet
       /\ sp' = KernelStack(c, 1) /\ sp' \in StackSet
       /\ kstack' \in [Slot -> [Depth -> FrameSet]] /\ kstack'[c][1] = Frame(r, pc)
       /\ user_sp' \in [Slot -> StackSet] /\ user_sp'[c] = sp
       /\ \A p \in Slot \ {c} : kstack'[p] = kstack[p] /\ user_sp'[p] = user_sp[p]
       /\ UNCHANGED <<k0, kernel_sp, status, current_running>>
  <2>1. Enters(c, 1, "SYS", r, pc)
    BY <1>1, <1>4, <1>5, <1>6, <1>8, <1>10, EntryStep
  <2> QED
    BY <2>1 DEF Enters
<1>12. /\ user' \in [Slot -> Context] /\ user'[c] = u
       /\ \A p \in Slot \ {c} : user'[p] = user[p]
  BY <1>5, <1>6, <1>7, <1>9 DEF Typed
<1>13. /\ asked' \in [Slot -> Calls \cup {None}] /\ asked'[c] = k
       /\ \A p \in Slot \ {c} : asked'[p] = asked[p]
  BY <1>4, <1>5, <1>6 DEF Typed
<1>14. Typed'
  BY <1>4, <1>5, <1>11, <1>12, <1>13 DEF Typed, Mode
<1>15. InKernel(c)'
  <2>1. Frame(r, pc).r = r /\ Frame(r, pc).epc = pc
    BY <1>6, <1>8, Values
  <2>2. k # None
    BY NoneIsNoCall
  <2>3. user[c].s = reg.s /\ sp = UserStack(c) /\ c \in Task /\ status[c] # "NONE"
        /\ kernel_sp[c] = 0
    BY <1>5 DEF RunsUser
  <2>4. Holds(kstack'[c][1], user'[c], asked'[c])
    BY <1>8, <1>9, <1>11, <1>12, <1>13, <2>1, <2>2, <2>3 DEF Holds
  <2>5. Entered(c)'
    BY <1>11, <2>3, <2>4 DEF Entered
  <2> QED
    BY <1>11, <1>13, <2>2, <2>3, <2>5 DEF InKernel
<1>16. Others(c)'
  <2>1. \A p \in Task \ {c} : Same(p)
    BY <1>11, <1>12, <1>13 DEF Same, Slot
  <2> QED
    BY <1>5, <2>1, OthersKept
<1> QED
  BY <1>1, <1>4, <1>11, <1>14, <1>15, <1>16 DEF TrapInv, Running

\* The exception in the kernel, and the end of the story.
LEMMA NestedStep ==
  ASSUME TrapInv, NestedException
  PROVE  TrapInv'
<1>1. PICK c : c = current_running
  OBVIOUS
<1>2. PICK r : r = [Zero EXCEPT !.s = sp.depth]
  OBVIOUS
<1>3. /\ ~nested /\ nested' = TRUE /\ UNCHANGED <<user, asked>>
      /\ exception_handler_entry("TLB", r, epc)
      /\ \/ mode = "interrupt_helper" /\ status[c] # "EXITED"
         \/ mode = "syscall"
  BY <1>1, <1>2 DEF NestedException, InCall, InHelper, Reaping
<1>4. Typed /\ InKernel(c)
  BY <1>1, <1>3 DEF TrapInv, Running
<1>5. status[c] = "LIVE" /\ kernel_sp[c] \in {0, 2} /\ kernel_sp[c] + 1 \in Depth
  <2>1. status[c] \in {"NONE", "LIVE", "EXITED"}
    BY <1>1, <1>4, CurrentTyped
  <2> QED
    BY <1>3, <1>4, <2>1 DEF InKernel, Depth
<1>6. r \in RegSet /\ epc \in Pc
  <2>1. r = [v0 |-> 0, a0 |-> 0, s |-> sp.depth, ra |-> None] /\ sp.depth \in Nat
    BY <1>2, <1>4 DEF Zero, Typed, StackSet
  <2> QED
    BY <1>4, <2>1, Values DEF RegSet, Typed
<1>7. PICK d : d = kernel_sp[c] + 1
  OBVIOUS
<1>8. /\ mode' = "interrupt_helper" /\ cause' = "TLB"
      /\ pc' \in Pc /\ epc' \in Pc /\ reg' \in RegSet
      /\ sp' = KernelStack(c, d) /\ sp' \in StackSet
      /\ kstack' \in [Slot -> [Depth -> FrameSet]]
      /\ user_sp' \in [Slot -> StackSet]
      /\ UNCHANGED <<k0, kernel_sp, status, current_running>>
  <2>1. Enters(c, d, "TLB", r, epc)
    BY <1>1, <1>3, <1>4, <1>5, <1>6, <1>7, EntryStep
  <2> QED
    BY <2>1 DEF Enters
<1>9. Typed'
  BY <1>3, <1>4, <1>8 DEF Typed, Mode
<1>10. sp'.depth \in Depth
  BY <1>5, <1>7, <1>8 DEF KernelStack
<1> QED
  BY <1>1, <1>3, <1>5, <1>8, <1>9, <1>10 DEF TrapInv, Aborted
-----------------------------------------------------------------------------
(***************************************************************************)
(* In the kernel.                                                          *)
(***************************************************************************)

\* The processes are as they were, and the kernel is somewhere else.
LEMMA QuietStep ==
  ASSUME Typed, UNCHANGED <<kstack, kernel_sp, user_sp, status, current_running>>,
         UNCHANGED <<user, asked, nested>>, UNCHANGED <<pc, sp, epc, k0>>,
         mode' \in Mode, reg' \in RegSet
  PROVE  /\ Typed'
         /\ \A c : (Others(c) => Others(c)') /\ (Entered(c) => Entered(c)')
<1>1. Typed'
  BY DEF Typed
<1>2. ASSUME NEW c, Others(c)
      PROVE  Others(c)'
  <2>1. \A p \in Task \ {c} : Same(p)
    BY DEF Same
  <2> QED
    BY <1>2, <2>1, OthersKept
<1>3. ASSUME NEW c, Entered(c)
      PROVE  Entered(c)'
  BY <1>3 DEF Entered
<1> QED
  BY <1>1, <1>2, <1>3

\* The registers of a routine that calls do_scheduler.
LEMMA CallRegs ==
  ASSUME Typed, NEW from \in {"irq_timer", "syscall"}, CallScheduler(from)
  PROVE  /\ mode' = "do_scheduler" /\ reg' \in RegSet
         /\ reg'.ra = from /\ reg'.s = sp.depth
         /\ UNCHANGED <<pc, sp, epc, k0, cause>>
<1>1. sp.depth \in Nat
  BY DEF Typed, StackSet
<1>2. Zero \in RegSet /\ from \in Mode
  BY Values DEF Mode
<1>3. reg' = [Zero EXCEPT !.ra = from, !.s = sp.depth]
  BY DEF CallScheduler
<1>4. reg' \in RegSet /\ reg'.ra = from /\ reg'.s = sp.depth
  BY <1>1, <1>2, <1>3 DEF RegSet
<1> QED
  BY <1>4 DEF CallScheduler

LEMMA TimerStep ==
  ASSUME TrapInv, irq_timer
  PROVE  TrapInv'
<1>1. PICK c : c = current_running
  OBVIOUS
<1>2. /\ mode = "interrupt_helper" /\ CallScheduler("irq_timer")
      /\ cause = "INT" \/ status[c] = "EXITED"
      /\ UNCHANGED <<kstack, kernel_sp, user_sp, status, current_running>>
      /\ UNCHANGED <<user, asked, nested>>
  BY <1>1 DEF irq_timer, InHelper, Reaping, pcbs, ghosts
<1>3. Typed /\ ~nested
  BY <1>1, <1>2 DEF TrapInv, Aborted
<1>4. InKernel(c) /\ Others(c)
  BY <1>1, <1>2, <1>3 DEF TrapInv, Running
<1>5. /\ mode' = "do_scheduler" /\ reg' \in RegSet
      /\ reg'.ra = "irq_timer" /\ reg'.s = sp.depth
      /\ UNCHANGED <<pc, sp, epc, k0, cause>>
  BY <1>2, <1>3, CallRegs
<1>6. Typed' /\ Others(c)' /\ Entered(c)'
  BY <1>2, <1>3, <1>4, <1>5, QuietStep DEF InKernel, Mode
<1>7. sp.depth = 1
  BY <1>4 DEF InKernel, KernelStack
<1>8. Switches(c)'
  BY <1>2, <1>4, <1>5, <1>6, <1>7 DEF Switches, CalledWith, InKernel
<1> QED
  BY <1>1, <1>2, <1>3, <1>5, <1>6, <1>8 DEF TrapInv, Running

LEMMA WaitStep ==
  ASSUME TrapInv, Wait
  PROVE  TrapInv'
<1>1. PICK c : c = current_running
  OBVIOUS
<1>2. /\ mode = "interrupt_helper" /\ CallScheduler("syscall") /\ cause = "SYS"
      /\ UNCHANGED <<kstack, kernel_sp, user_sp, status, current_running>>
      /\ UNCHANGED <<user, asked, nested>>
  BY <1>1 DEF Wait, InCall, InHelper, pcbs, ghosts
<1>3. Typed /\ ~nested
  BY <1>1, <1>2 DEF TrapInv, Aborted
<1>4. InKernel(c) /\ Others(c)
  BY <1>1, <1>2, <1>3 DEF TrapInv, Running
<1>5. /\ mode' = "do_scheduler" /\ reg' \in RegSet
      /\ reg'.ra = "syscall" /\ reg'.s = sp.depth
      /\ UNCHANGED <<pc, sp, epc, k0, cause>>
  BY <1>2, <1>3, CallRegs
<1>6. Typed' /\ Others(c)' /\ Entered(c)'
  BY <1>2, <1>3, <1>4, <1>5, QuietStep DEF InKernel, Mode
<1>7. sp.depth = 1
  BY <1>4 DEF InKernel, KernelStack
<1>8. Switches(c)'
  BY <1>2, <1>4, <1>5, <1>6, <1>7 DEF Switches, CalledWith, InKernel
<1> QED
  BY <1>1, <1>2, <1>3, <1>5, <1>6, <1>8 DEF TrapInv, Running

LEMMA ExitStep ==
  ASSUME TrapInv, do_exit
  PROVE  TrapInv'
<1>1. PICK c : c = current_running
  OBVIOUS
<1>2. /\ mode = "interrupt_helper" /\ CallScheduler("syscall") /\ cause = "SYS"
      /\ status' = [status EXCEPT ![c] = "NONE"]
      /\ UNCHANGED <<kstack, kernel_sp, user_sp, current_running>>
      /\ UNCHANGED <<user, asked, nested>>
  BY <1>1 DEF do_exit, InCall, InHelper, ghosts
<1>3. Typed /\ ~nested
  BY <1>1, <1>2 DEF TrapInv, Aborted
<1>4. InKernel(c) /\ Others(c) /\ c \in Slot
  BY <1>1, <1>2, <1>3 DEF TrapInv, Running, Typed
<1>5. /\ mode' = "do_scheduler" /\ reg' \in RegSet
      /\ UNCHANGED <<pc, sp, epc, k0, cause>>
  BY <1>2, <1>3, CallRegs
<1>6. /\ status' \in [Slot -> {"NONE", "LIVE", "EXITED"}] /\ status'[c] = "NONE"
      /\ \A p \in Slot \ {c} : status'[p] = status[p]
  BY <1>2, <1>3, <1>4 DEF Typed
<1>7. Typed'
  BY <1>2, <1>3, <1>5, <1>6 DEF Typed, Mode
<1>8. Others(c)'
  <2>1. \A p \in Task \ {c} : Same(p)
    BY <1>2, <1>6 DEF Same, Slot
  <2> QED
    BY <1>4, <2>1, OthersKept
<1>9. Switches(c)'
  BY <1>4, <1>5, <1>6 DEF Switches, InKernel
<1> QED
  BY <1>1, <1>2, <1>3, <1>5, <1>7, <1>8, <1>9 DEF TrapInv, Running

\* The handlers that do not touch the processes, and irq_timer after the switch.
LEMMA HandlerStep ==
  ASSUME TrapInv, TLB_Invalid_handler \/ other_exception_handler \/ AfterTimer
  PROVE  TrapInv'
<1>1. PICK c : c = current_running
  OBVIOUS
<1>2. /\ UNCHANGED <<kstack, kernel_sp, user_sp, status, current_running>>
      /\ UNCHANGED <<user, asked, nested>> /\ UNCHANGED <<pc, reg, sp, epc, k0, cause>>
      /\ \/ mode = "interrupt_helper" /\ cause # "SYS" /\ mode' = "exception_return"
         \/ mode = "interrupt_helper" /\ cause = "OTHER" /\ mode' = "halt"
         \/ mode = "irq_timer" /\ mode' = "exception_return"
  BY DEF TLB_Invalid_handler, other_exception_handler, AfterTimer, InHelper, pcbs, ghosts
<1>3. Typed /\ Typed' /\ \A p : (Others(p) => Others(p)') /\ (Entered(p) => Entered(p)')
  <2>1. Typed
    BY DEF TrapInv
  <2>2. mode' \in Mode /\ reg' \in RegSet
    BY <1>2, <2>1 DEF Mode, Typed
  <2> QED
    BY <1>2, <2>1, <2>2, QuietStep
<1>4. CASE nested
  <2>1. Aborted(c)
    BY <1>1, <1>4 DEF TrapInv
  <2>2. mode = "interrupt_helper" /\ mode' = "exception_return"
    BY <1>2, <2>1 DEF Aborted
  <2>3. Aborted(c)'
    BY <1>2, <2>1, <2>2 DEF Aborted
  <2> QED
    BY <1>1, <1>2, <1>3, <1>4, <2>3 DEF TrapInv
<1>5. CASE ~nested
  <2>1. InKernel(c) /\ Others(c)
    BY <1>1, <1>2, <1>5 DEF TrapInv, Running
  <2>2. Entered(c)' /\ Others(c)'
    BY <1>3, <2>1 DEF InKernel
  <2>3. InKernel(c)'
    BY <1>2, <2>1, <2>2 DEF InKernel
  <2>4. mode' \in {"exception_return", "halt"}
    BY <1>2
  <2> QED
    BY <1>1, <1>2, <1>3, <1>5, <2>2, <2>3, <2>4 DEF TrapInv, Running
<1> QED
  BY <1>4, <1>5
-----------------------------------------------------------------------------
(***************************************************************************)
(* System calls that end.                                                  *)
(***************************************************************************)

\* The frame of a call holds the context with its result.
LEMMA AnsweredHolds ==
  ASSUME NEW f \in FrameSet, NEW u \in Context, NEW a, a # None, Holds(f, u, a), NEW v \in Nat
  PROVE  /\ Answered(f, v) \in FrameSet /\ [u EXCEPT !.v0 = v] \in Context
         /\ Holds(Answered(f, v), [u EXCEPT !.v0 = v], None)
<1>1. f.r \in RegSet /\ f.epc \in Pc /\ v \in V
  BY DEF FrameSet, V
<1>2. PICK r : r = [f.r EXCEPT !.v0 = v]
  OBVIOUS
<1>3. PICK e : e = (f.epc + 1) % MaxPc
  OBVIOUS
<1>4. r \in RegSet /\ r.v0 = v /\ r.a0 = f.r.a0 /\ r.s = f.r.s
  BY <1>1, <1>2 DEF RegSet
<1>5. e \in Pc
  BY <1>1, <1>3, NextPc
<1>6. Answered(f, v) = Frame(r, e)
  BY <1>2, <1>3 DEF Answered
<1>7. Answered(f, v) \in FrameSet /\ Answered(f, v).r = r /\ Answered(f, v).epc = e
  BY <1>4, <1>5, <1>6, Values
<1>8. PICK w : w = [u EXCEPT !.v0 = v]
  OBVIOUS
<1>9. w \in Context /\ w.v0 = v /\ w.a0 = u.a0 /\ w.s = u.s /\ w.pc = u.pc
  BY <1>1, <1>8 DEF Context
<1>10. Holds(Answered(f, v), w, None)
  BY <1>3, <1>4, <1>7, <1>9 DEF Holds
<1> QED
  BY <1>7, <1>8, <1>9, <1>10

\* The call of c ends with result v.
Ends(c) ==
  /\ mode' = "exception_return"
  /\ kstack' \in [Slot -> [Depth -> FrameSet]] /\ user' \in [Slot -> Context]
  /\ asked' \in [Slot -> Calls \cup {None}] /\ asked'[c] = None
  /\ Holds(kstack'[c][1], user'[c], None)
  /\ \A p \in Slot \ {c} :
       kstack'[p] = kstack[p] /\ user'[p] = user[p] /\ asked'[p] = asked[p]

LEMMA FinishAnswer ==
  ASSUME Typed, NEW c, c = current_running, Holds(kstack[c][1], user[c], asked[c]),
         asked[c] # None, NEW v \in Nat, Finish(1, v), Answer(v)
  PROVE  Ends(c)
<1>1. /\ kstack' = [kstack EXCEPT ![c][1] = Answered(@, v)] /\ mode' = "exception_return"
      /\ user' = [user EXCEPT ![c].v0 = v] /\ asked' = [asked EXCEPT ![c] = None]
  BY DEF Finish, Answer, Typed
<1>2. c \in Slot /\ kstack[c] \in [Depth -> FrameSet] /\ user[c] \in Context
      /\ 1 \in Depth /\ kstack[c][1] \in FrameSet
  BY CurrentTyped DEF Depth
<1>3. PICK f : f = Answered(kstack[c][1], v)
  OBVIOUS
<1>4. PICK u : u = [user[c] EXCEPT !.v0 = v]
  OBVIOUS
<1>5. f \in FrameSet /\ u \in Context /\ Holds(f, u, None)
  BY <1>2, <1>3, <1>4, AnsweredHolds
<1>6. kstack' = [kstack EXCEPT ![c] = [kstack[c] EXCEPT ![1] = f]] /\ user' = [user EXCEPT ![c] = u]
  BY <1>1, <1>2, <1>3, <1>4 DEF Typed
<1>7. [kstack[c] EXCEPT ![1] = f] \in [Depth -> FrameSet] /\ [kstack[c] EXCEPT ![1] = f][1] = f
  BY <1>2, <1>5
<1>8. /\ kstack' \in [Slot -> [Depth -> FrameSet]] /\ kstack'[c][1] = f
      /\ \A p \in Slot \ {c} : kstack'[p] = kstack[p]
  BY <1>2, <1>6, <1>7 DEF Typed
<1>9. /\ user' \in [Slot -> Context] /\ user'[c] = u
      /\ \A p \in Slot \ {c} : user'[p] = user[p]
  BY <1>2, <1>5, <1>6 DEF Typed
<1>10. /\ asked' \in [Slot -> Calls \cup {None}] /\ asked'[c] = None
       /\ \A p \in Slot \ {c} : asked'[p] = asked[p]
  BY <1>1, <1>2 DEF Typed
<1> QED
  BY <1>1, <1>5, <1>8, <1>9, <1>10 DEF Ends

\* It ends while the other processes do nothing, or are killed.
LEMMA EndStep ==
  ASSUME TrapInv, ~nested, NEW c, c = current_running, InKernel(c), Ends(c), status'[c] # "NONE",
         status' \in [Slot -> {"NONE", "LIVE", "EXITED"}],
         \A p \in Task \ {c} : status'[p] = status[p] \/ status'[p] = "NONE",
         UNCHANGED <<pc, reg, sp, epc, k0, kernel_sp, user_sp, current_running, nested>>
  PROVE  TrapInv'
<1>1. Typed /\ Others(c)
  BY DEF TrapInv
<1>2. Typed'
  BY <1>1 DEF Typed, Ends, Mode
<1>3. Others(c)'
  <2>1. \A p \in Task \ {c} : Same(p) \/ status'[p] = "NONE"
    BY DEF Same, Ends, Slot
  <2> QED
    BY <1>1, <2>1, OthersKept
<1>4. Entered(c)'
  BY DEF Entered, InKernel, Ends
<1>5. InKernel(c)'
  BY <1>4 DEF InKernel, Ends
<1> QED
  BY <1>2, <1>3, <1>5 DEF TrapInv, Running, Ends

LEMMA ReturnStep ==
  ASSUME TrapInv, Return
  PROVE  TrapInv'
<1>1. PICK c : c = current_running
  OBVIOUS
<1>2. PICK v \in Reg : Finish(sp.depth, v) /\ Answer(v)
  BY DEF Return
<1>3. /\ mode = "interrupt_helper" /\ cause = "SYS"
      /\ UNCHANGED <<pc, reg, sp, epc, k0, kernel_sp, user_sp, status, current_running, nested>>
  BY DEF Return, InCall, InHelper
<1>4. Typed /\ ~nested
  BY <1>1, <1>3 DEF TrapInv, Aborted
<1>5. InKernel(c)
  BY <1>1, <1>3, <1>4 DEF TrapInv, Running
<1>6. sp.depth = 1 /\ asked[c] # None /\ Entered(c) /\ status[c] # "NONE"
  BY <1>3, <1>5 DEF InKernel, KernelStack
<1>7. Ends(c)
  BY <1>1, <1>2, <1>4, <1>6, Values, FinishAnswer DEF Entered
<1>8. status' \in [Slot -> {"NONE", "LIVE", "EXITED"}]
  BY <1>3, <1>4 DEF Typed
<1> QED
  BY <1>1, <1>3, <1>4, <1>5, <1>6, <1>7, <1>8, EndStep

LEMMA KillStep ==
  ASSUME TrapInv, do_kill
  PROVE  TrapInv'
<1>1. PICK c : c = current_running
  OBVIOUS
<1>2. PICK q \in Task :
        status' = [status EXCEPT ![q] = IF q = c THEN "EXITED" ELSE "NONE"]
  BY <1>1 DEF do_kill
<1>3. /\ mode = "interrupt_helper" /\ cause = "SYS" /\ Finish(sp.depth, 0) /\ Answer(0)
      /\ UNCHANGED <<pc, reg, sp, epc, k0, kernel_sp, user_sp, current_running, nested>>
  BY DEF do_kill, InCall, InHelper
<1>4. Typed /\ ~nested
  BY <1>1, <1>3 DEF TrapInv, Aborted
<1>5. InKernel(c)
  BY <1>1, <1>3, <1>4 DEF TrapInv, Running
<1>6. sp.depth = 1 /\ asked[c] # None /\ Entered(c) /\ status[c] # "NONE" /\ c \in Task
  BY <1>3, <1>5 DEF InKernel, KernelStack
<1>7. Ends(c)
  BY <1>1, <1>3, <1>4, <1>6, FinishAnswer DEF Entered
<1>8. /\ status' \in [Slot -> {"NONE", "LIVE", "EXITED"}] /\ status'[c] # "NONE"
      /\ \A p \in Task \ {c} : status'[p] = status[p] \/ status'[p] = "NONE"
  BY <1>2, <1>4, <1>6 DEF Typed, Slot
<1> QED
  BY <1>1, <1>3, <1>4, <1>5, <1>7, <1>8, EndStep

LEMMA AfterWaitStep ==
  ASSUME TrapInv, AfterWait
  PROVE  TrapInv'
<1>1. PICK c : c = current_running
  OBVIOUS
<1>2. mode = "syscall"
  BY DEF AfterWait
<1>3. Typed /\ ~nested
  BY <1>1, <1>2 DEF TrapInv, Aborted
<1>4. InKernel(c) /\ Others(c)
  BY <1>1, <1>2, <1>3 DEF TrapInv, Running
<1>5. /\ sp.depth = 1 /\ reg.s = 1 /\ asked[c] # None /\ Entered(c) /\ status[c] # "NONE"
      /\ c \in Task
  BY <1>2, <1>4 DEF InKernel, KernelStack
<1>6. CASE /\ \E v \in Reg : Finish(reg.s, v) /\ Answer(v)
           /\ UNCHANGED <<pc, reg, sp, epc, k0, cause, kernel_sp, user_sp, status,
                          current_running, nested>>
  <2>1. PICK v \in Reg : Finish(1, v) /\ Answer(v)
    BY <1>5, <1>6
  <2>2. Ends(c)
    BY <1>1, <1>3, <1>5, <2>1, Values, FinishAnswer DEF Entered
  <2>3. status' \in [Slot -> {"NONE", "LIVE", "EXITED"}]
    BY <1>3, <1>6 DEF Typed
  <2> QED
    BY <1>1, <1>3, <1>4, <1>5, <1>6, <2>2, <2>3, EndStep
<1>7. CASE CallScheduler("syscall") /\ UNCHANGED <<pcbs, ghosts>>
  <2>1. /\ UNCHANGED <<kstack, kernel_sp, user_sp, status, current_running>>
        /\ UNCHANGED <<user, asked, nested>>
    BY <1>7 DEF pcbs, ghosts
  <2>2. /\ mode' = "do_scheduler" /\ reg' \in RegSet
        /\ reg'.ra = "syscall" /\ reg'.s = sp.depth
        /\ UNCHANGED <<pc, sp, epc, k0, cause>>
    BY <1>3, <1>7, CallRegs
  <2>3. Typed' /\ Others(c)' /\ Entered(c)'
    BY <1>3, <1>4, <1>5, <2>1, <2>2, QuietStep DEF Mode
  <2>4. Switches(c)'
    BY <1>4, <1>5, <2>1, <2>2, <2>3 DEF Switches, CalledWith, InKernel
  <2> QED
    BY <1>1, <1>3, <2>1, <2>2, <2>3, <2>4 DEF TrapInv, Running
<1> QED
  BY <1>6, <1>7 DEF AfterWait

LEMMA SpawnStep ==
  ASSUME TrapInv, do_spawn
  PROVE  TrapInv'
<1>1. PICK c : c = current_running
  OBVIOUS
<1>2. PICK q \in Task, argc \in 0..1, v \in Reg :
       /\ status[q] = "NONE"
       /\ status' = [status EXCEPT ![q] = "LIVE"]
       /\ kernel_sp' = [kernel_sp EXCEPT ![q] = 2 + argc]
       /\ user_sp' = [user_sp EXCEPT ![q] = UserStack(q)]
       /\ kstack' = [kstack EXCEPT ![q] = NewStack(argc),
                                   ![k0][sp.depth] = Answered(@, v)]
       /\ user' = [user EXCEPT ![q] = FirstContext(argc), ![current_running].v0 = v]
       /\ asked' = [asked EXCEPT ![q] = None, ![current_running] = None]
  BY Zenon DEF do_spawn
<1>3. /\ mode = "interrupt_helper" /\ cause = "SYS" /\ mode' = "exception_return"
      /\ UNCHANGED <<pc, reg, sp, epc, k0, current_running, nested>>
  BY DEF do_spawn, InCall, InHelper
<1>4. Typed /\ ~nested
  BY <1>1, <1>3 DEF TrapInv, Aborted
<1>5. InKernel(c) /\ Others(c)
  BY <1>1, <1>3, <1>4 DEF TrapInv, Running
<1>6. /\ sp.depth = 1 /\ asked[c] # None /\ status[c] # "NONE" /\ c \in Task
      /\ Holds(kstack[c][1], user[c], asked[c]) /\ user_sp[c] = UserStack(c)
  BY <1>3, <1>5 DEF InKernel, KernelStack, Entered
<1>7. q # c /\ q \in Slot /\ c \in Slot /\ k0 = c /\ 1 \in Depth
      /\ kstack[c] \in [Depth -> FrameSet] /\ user[c] \in Context /\ kstack[c][1] \in FrameSet
  BY <1>1, <1>2, <1>4, <1>6, CurrentTyped DEF Slot, Depth
<1>8. PICK f : f = Answered(kstack[c][1], v)
  OBVIOUS
<1>9. PICK u : u = [user[c] EXCEPT !.v0 = v]
  OBVIOUS
<1>10. f \in FrameSet /\ u \in Context /\ Holds(f, u, None)
  BY <1>6, <1>7, <1>8, <1>9, Values, AnsweredHolds
<1>11. PICK n : n = NewStack(argc)
  OBVIOUS
<1>12. n \in [Depth -> FrameSet] /\ n[1] = UserContext /\ n[2 + argc] = KernelContext(argc)
  BY <1>11, NewStackTyped
<1>13. PICK g : g = [kstack[c] EXCEPT ![1] = f]
  OBVIOUS
<1>14. g \in [Depth -> FrameSet] /\ g[1] = f
  BY <1>7, <1>10, <1>13
<1>15. kstack' = [kstack EXCEPT ![q] = n, ![c] = g]
  BY <1>2, <1>4, <1>6, <1>7, <1>8, <1>11, <1>13 DEF Typed
<1>16. /\ kstack' \in [Slot -> [Depth -> FrameSet]] /\ kstack'[c] = g /\ kstack'[q] = n
       /\ \A p \in Slot \ {c, q} : kstack'[p] = kstack[p]
  BY <1>4, <1>7, <1>12, <1>14, <1>15 DEF Typed
<1>17. FirstContext(argc) \in Context
  BY Values DEF FirstContext, Context
<1>18. user' = [user EXCEPT ![q] = FirstContext(argc), ![c] = u]
  BY <1>1, <1>2, <1>4, <1>7, <1>9 DEF Typed
<1>19. /\ user' \in [Slot -> Context] /\ user'[c] = u /\ user'[q] = FirstContext(argc)
       /\ \A p \in Slot \ {c, q} : user'[p] = user[p]
  BY <1>4, <1>7, <1>10, <1>17, <1>18 DEF Typed
<1>20. /\ asked' \in [Slot -> Calls \cup {None}] /\ asked'[c] = None /\ asked'[q] = None
       /\ \A p \in Slot \ {c, q} : asked'[p] = asked[p]
  BY <1>1, <1>2, <1>4, <1>7 DEF Typed
<1>21. /\ status' \in [Slot -> {"NONE", "LIVE", "EXITED"}] /\ status'[q] = "LIVE"
       /\ \A p \in Slot \ {q} : status'[p] = status[p]
  BY <1>2, <1>4, <1>7 DEF Typed
<1>22. /\ kernel_sp' \in [Slot -> 0..3] /\ kernel_sp'[q] = 2 + argc
       /\ \A p \in Slot \ {q} : kernel_sp'[p] = kernel_sp[p]
  <2>1. 2 + argc \in 0..3
    OBVIOUS
  <2> QED
    BY <1>2, <1>4, <1>7, <2>1 DEF Typed
<1>23. /\ user_sp' \in [Slot -> StackSet] /\ \A p \in Slot \ {q} : user_sp'[p] = user_sp[p]
  BY <1>2, <1>4, <1>7, Values DEF Typed
<1>24. Typed'
  BY <1>3, <1>4, <1>16, <1>19, <1>20, <1>21, <1>22, <1>23 DEF Typed, Mode
<1>25. InKernel(c)'
  <2>1. Entered(c)'
    BY <1>6, <1>7, <1>10, <1>14, <1>16, <1>19, <1>20, <1>23 DEF Entered
  <2> QED
    BY <1>3, <1>5, <1>6, <1>7, <1>20, <1>21, <2>1 DEF InKernel
<1>26. Others(c)'
  <2> SUFFICES ASSUME NEW p \in Task \ {c}
               PROVE  status'[p] # "EXITED" /\ (status'[p] = "LIVE" => Ready(p)')
    BY DEF Others
  <2>1. CASE p = q
    <3>1. Fresh(q, argc)'
      BY <1>12, <1>16, <1>19, <1>20, <1>22 DEF Fresh, NewProgram
    <3> QED
      BY <1>21, <2>1, <3>1 DEF Ready
  <2>2. CASE p # q
    <3>1. Same(p)
      BY <1>16, <1>19, <1>20, <1>21, <1>22, <1>23, <2>2 DEF Same, Slot
    <3> QED
      BY <1>5, <3>1, SameReady DEF Same, Others
  <2> QED
    BY <2>1, <2>2
<1> QED
  BY <1>1, <1>3, <1>4, <1>24, <1>25, <1>26 DEF TrapInv, Running
-----------------------------------------------------------------------------
(***************************************************************************)
(* Switching and returning.                                                *)
(***************************************************************************)

\* RESTORE_CONTEXT and eret from frame d of stack k, which the running process c uses.
LEMMA EretStep ==
  ASSUME Typed, NEW c, c = current_running, NEW stacks \in [Slot -> [Depth -> FrameSet]],
         NEW d \in Depth, user_sp' \in [Slot -> StackSet], Eret(stacks, d)
  PROVE  /\ Typed' /\ mode' = "user" /\ sp' = user_sp'[c]
         /\ reg' = stacks[c][d].r /\ pc' = stacks[c][d].epc /\ kernel_sp'[c] = d - 1
         /\ \A p \in Slot \ {c} : kstack'[p] = stacks[p] /\ kernel_sp'[p] = kernel_sp[p]
         /\ UNCHANGED <<k0, status, current_running, user, asked, nested>>
<1>1. /\ reg' = stacks[c][d].r /\ pc' = stacks[c][d].epc /\ epc' = 0
      /\ kstack' = [stacks EXCEPT ![c][d] = NoFrame]
      /\ kernel_sp' = [kernel_sp EXCEPT ![c] = d - 1]
      /\ sp' = user_sp'[c] /\ mode' = "user"
      /\ UNCHANGED <<k0, status, current_running, user, asked, nested>>
  BY DEF Eret, ghosts, Typed
<1>2. c \in Slot /\ stacks[c] \in [Depth -> FrameSet] /\ stacks[c][d] \in FrameSet
  BY DEF Typed
<1>3. reg' \in RegSet /\ pc' \in Pc /\ epc' \in Pc /\ sp' \in StackSet
  BY <1>1, <1>2, Values DEF FrameSet
<1>4. [stacks[c] EXCEPT ![d] = NoFrame] \in [Depth -> FrameSet]
  BY <1>2, Values
<1>5. /\ kstack' \in [Slot -> [Depth -> FrameSet]]
      /\ \A p \in Slot \ {c} : kstack'[p] = stacks[p]
  BY <1>1, <1>2, <1>4
<1>6. /\ kernel_sp' \in [Slot -> 0..3] /\ kernel_sp'[c] = d - 1
      /\ \A p \in Slot \ {c} : kernel_sp'[p] = kernel_sp[p]
  <2>1. d - 1 \in 0..3
    BY DEF Depth
  <2> QED
    BY <1>1, <1>2, <2>1 DEF Typed
<1>7. Typed'
  BY <1>1, <1>3, <1>5, <1>6 DEF Typed, Mode
<1> QED
  BY <1>1, <1>5, <1>6, <1>7

LEMMA ReturnToUser ==
  ASSUME TrapInv, exception_return
  PROVE  TrapInv'
<1>1. PICK c : c = current_running
  OBVIOUS
<1>2. PICK d : d = sp.depth
  OBVIOUS
<1>3. mode = "exception_return" /\ user_sp' = user_sp /\ Eret(kstack, d) /\ Typed
  BY <1>2 DEF exception_return, TrapInv
<1>4. d \in Depth
  <2>1. CASE nested
    BY <1>2, <1>3, <2>1 DEF TrapInv, Aborted
  <2>2. CASE ~nested
    BY <1>1, <1>2, <1>3, <2>2 DEF TrapInv, Running, InKernel, KernelStack, Depth
  <2> QED
    BY <2>1, <2>2
<1>5. /\ Typed' /\ mode' = "user" /\ sp' = user_sp'[c]
      /\ reg' = kstack[c][d].r /\ pc' = kstack[c][d].epc /\ kernel_sp'[c] = d - 1
      /\ \A p \in Slot \ {c} : kstack'[p] = kstack[p] /\ kernel_sp'[p] = kernel_sp[p]
      /\ UNCHANGED <<k0, status, current_running, user, asked, nested>>
  <2>1. kstack \in [Slot -> [Depth -> FrameSet]] /\ user_sp' \in [Slot -> StackSet]
    BY <1>3 DEF Typed
  <2> QED
    BY <1>1, <1>3, <1>4, <2>1, EretStep
<1>6. CASE nested
  BY <1>1, <1>5, <1>6 DEF TrapInv, Aborted
<1>7. CASE ~nested
  <2>1. InKernel(c) /\ Others(c)
    BY <1>1, <1>3, <1>7 DEF TrapInv, Running
  <2>2. d = 1 /\ asked[c] = None /\ c \in Task /\ status[c] # "NONE"
        /\ Holds(kstack[c][1], user[c], None) /\ user_sp[c] = UserStack(c)
    BY <1>2, <1>3, <2>1 DEF InKernel, KernelStack, Entered
  <2>3. user[c] = [pc |-> pc', v0 |-> reg'.v0, a0 |-> reg'.a0, s |-> reg'.s]
    <3>1. user[c] \in Context
      BY <1>1, <1>3, CurrentTyped
    <3>2. user[c] = [pc |-> user[c].pc, v0 |-> user[c].v0, a0 |-> user[c].a0, s |-> user[c].s]
      BY <3>1 DEF Context
    <3>3. user[c].pc = pc' /\ user[c].v0 = reg'.v0 /\ user[c].a0 = reg'.a0 /\ user[c].s = reg'.s
      BY <1>5, <2>2 DEF Holds
    <3> QED
      BY <3>2, <3>3
  <2>4. RunsUser(c)'
    BY <1>3, <1>5, <2>2, <2>3 DEF RunsUser
  <2>5. Others(c)'
    <3>1. \A p \in Task \ {c} : Same(p)
      BY <1>3, <1>5 DEF Same, Slot
    <3> QED
      BY <2>1, <3>1, OthersKept
  <2> QED
    BY <1>1, <1>5, <1>7, <2>4, <2>5 DEF TrapInv, Running
<1> QED
  BY <1>6, <1>7

LEMMA StartStep ==
  ASSUME TrapInv, start_up_return
  PROVE  TrapInv'
<1>1. PICK c : c = current_running
  OBVIOUS
<1>2. /\ mode = "start_up_return" /\ user_sp' = [user_sp EXCEPT ![c] = UserStack(c)]
      /\ Eret(start_up, sp.depth - reg.s)
  BY <1>1 DEF start_up_return
<1>3. Typed /\ ~nested
  BY <1>1, <1>2 DEF TrapInv, Aborted
<1>4. Starts(c) /\ Others(c)
  BY <1>1, <1>2, <1>3 DEF TrapInv, Running
<1>5. PICK argc \in 0..1 : /\ NewProgram(c, argc)
                           /\ sp = KernelStack(c, 1 + argc) /\ reg.a0 = 1 /\ reg.s = argc
  BY <1>4 DEF Starts
<1>6. c \in Slot /\ k0 = c /\ kstack[c] \in [Depth -> FrameSet] /\ 1 \in Depth
      /\ kstack[c][1] = NoFrame /\ NoFrame \in FrameSet
  BY <1>1, <1>3, <1>5, CurrentTyped, Values DEF NewProgram, UserContext, Depth
<1>7. sp.depth - reg.s = 1
  BY <1>5 DEF KernelStack
<1>8. PICK f : f = [NoFrame EXCEPT !.r.a0 = argc]
  OBVIOUS
<1>9. f \in FrameSet /\ f.r.v0 = 0 /\ f.r.s = 0 /\ f.epc = 0 /\ f.r.a0 = argc
  <2>1. f.r = [Zero EXCEPT !.a0 = argc] /\ f.epc = 0 /\ f = [r |-> f.r, epc |-> 0]
    BY <1>8 DEF NoFrame, Frame
  <2>2. /\ [Zero EXCEPT !.a0 = argc] \in RegSet /\ [Zero EXCEPT !.a0 = argc].v0 = 0
        /\ [Zero EXCEPT !.a0 = argc].s = 0 /\ [Zero EXCEPT !.a0 = argc].a0 = argc
    BY Values DEF RegSet, Zero
  <2> QED
    BY <2>1, <2>2, Values DEF FrameSet
<1>10. PICK stacks : stacks = start_up
  OBVIOUS
<1>11. stacks = [kstack EXCEPT ![c] = [kstack[c] EXCEPT ![1] = f]]
  BY <1>3, <1>5, <1>6, <1>8, <1>10 DEF start_up, Typed
<1>12. [kstack[c] EXCEPT ![1] = f] \in [Depth -> FrameSet] /\ [kstack[c] EXCEPT ![1] = f][1] = f
  BY <1>6, <1>9
<1>13. /\ stacks \in [Slot -> [Depth -> FrameSet]] /\ stacks[c][1] = f
       /\ \A p \in Slot \ {c} : stacks[p] = kstack[p]
  BY <1>3, <1>6, <1>11, <1>12 DEF Typed
<1>14. /\ user_sp' \in [Slot -> StackSet] /\ user_sp'[c] = UserStack(c)
       /\ \A p \in Slot \ {c} : user_sp'[p] = user_sp[p]
  BY <1>2, <1>3, <1>6, Values DEF Typed
<1>15. /\ Typed' /\ mode' = "user" /\ sp' = user_sp'[c]
       /\ reg' = stacks[c][1].r /\ pc' = stacks[c][1].epc /\ kernel_sp'[c] = 1 - 1
       /\ \A p \in Slot \ {c} : kstack'[p] = stacks[p] /\ kernel_sp'[p] = kernel_sp[p]
       /\ UNCHANGED <<k0, status, current_running, user, asked, nested>>
  BY <1>1, <1>2, <1>3, <1>6, <1>7, <1>10, <1>13, <1>14, EretStep
<1>16. user[c] = [pc |-> pc', v0 |-> reg'.v0, a0 |-> reg'.a0, s |-> reg'.s]
  BY <1>5, <1>9, <1>13, <1>15 DEF NewProgram, FirstContext
<1>17. RunsUser(c)'
  BY <1>4, <1>5, <1>14, <1>15, <1>16 DEF RunsUser, Starts, NewProgram
<1>18. Others(c)'
  <2>1. \A p \in Task \ {c} : Same(p)
    BY <1>13, <1>14, <1>15 DEF Same, Slot
  <2> QED
    BY <1>4, <2>1, OthersKept
<1> QED
  BY <1>1, <1>3, <1>15, <1>17, <1>18 DEF TrapInv, Running

\* A process that can be switched to, by its stack st, its kernel_sp n, and so on.
ReadyAs(p, st, n, u, a, us) ==
  \/ Holds(st[1], u, a) /\ us = UserStack(p) /\ n = 2 /\ CalledWith(st[2].r, a)
  \/ \E argc \in 0..1 : /\ a = None /\ u = FirstContext(argc)
                        /\ st[1] = UserContext
                        /\ n = 2 + argc /\ st[2 + argc] = KernelContext(argc)

LEMMA ReadyIsReadyAs ==
  \A p : Ready(p) <=> ReadyAs(p, kstack[p], kernel_sp[p], user[p], asked[p], user_sp[p])
  BY DEF Ready, ReadyAs, Switched, Entered, Fresh, NewProgram

LEMMA SchedulerStep ==
  ASSUME TrapInv, do_scheduler
  PROVE  TrapInv'
<1>1. PICK c : c = current_running
  OBVIOUS
<1>2. PICK d : d = sp.depth
  OBVIOUS
<1>3. PICK saved : saved = SAVE_CONTEXT(k0, sp.depth, reg, epc)
  OBVIOUS
<1>4. PICK stacks : stacks = [q \in Slot |-> IF status'[q] = "NONE" THEN NewStack(0) ELSE saved[q]]
  OBVIOUS
<1>5. PICK p \in Task :
        /\ status'[p] = "LIVE" /\ current_running' = p /\ k0' = p /\ kernel_sp' = SavedSp
        /\ RESTORE_CONTEXT(stacks, p, kernel_sp'[p])
        /\ sp' = KernelStack(p, kernel_sp'[p] - 1)
  BY <1>3, <1>4 DEF do_scheduler, Live
<1>6. /\ mode = "do_scheduler" /\ mode' = reg'.ra
      /\ status' = [q \in Slot |-> IF q = c /\ status[q] = "EXITED" THEN "NONE" ELSE status[q]]
      /\ UNCHANGED <<pc, user_sp, user, asked, nested>>
  BY <1>1 DEF do_scheduler, ghosts
<1>7. Typed /\ ~nested
  BY <1>1, <1>6 DEF TrapInv, Aborted
<1>8. Switches(c) /\ Others(c)
  BY <1>1, <1>6, <1>7 DEF TrapInv, Running
<1>9. c \in Slot /\ k0 = c /\ kstack[c] \in [Depth -> FrameSet] /\ p \in Slot
  BY <1>1, <1>7, CurrentTyped DEF Slot
<1>10. d \in {0, 1} /\ d + 1 \in Depth /\ (c \in Task => d = 1)
  BY <1>2, <1>8, TrapAssumption DEF Switches, KernelStack, Depth
<1>11. Frame(reg, epc) \in FrameSet /\ Frame(reg, epc).r = reg
  BY <1>7, Values DEF Typed
<1>12. /\ saved \in [Slot -> [Depth -> FrameSet]] /\ saved[c][d + 1] = Frame(reg, epc)
       /\ \A e \in Depth \ {d + 1} : saved[c][e] = kstack[c][e]
       /\ \A q \in Slot \ {c} : saved[q] = kstack[q]
  <2>1. saved = [kstack EXCEPT ![c] = [kstack[c] EXCEPT ![d + 1] = Frame(reg, epc)]]
    BY <1>2, <1>3, <1>7, <1>9 DEF SAVE_CONTEXT, Typed
  <2>2. [kstack[c] EXCEPT ![d + 1] = Frame(reg, epc)] \in [Depth -> FrameSet]
    BY <1>9, <1>11
  <2>3. saved[c] = [kstack[c] EXCEPT ![d + 1] = Frame(reg, epc)]
    BY <1>7, <1>9, <2>1 DEF Typed
  <2>4. saved \in [Slot -> [Depth -> FrameSet]] /\ \A q \in Slot \ {c} : saved[q] = kstack[q]
    BY <1>7, <1>9, <2>1, <2>2 DEF Typed
  <2>5. /\ saved[c][d + 1] = Frame(reg, epc)
        /\ \A e \in Depth \ {d + 1} : saved[c][e] = kstack[c][e]
    BY <1>9, <1>10, <2>3
  <2> QED
    BY <2>4, <2>5
<1>13. /\ stacks \in [Slot -> [Depth -> FrameSet]]
       /\ \A q \in Slot : status'[q] = "LIVE" => stacks[q] = saved[q]
  <2>1. NewStack(0) \in [Depth -> FrameSet]
    BY NewStackTyped
  <2> QED
    BY <1>4, <1>12, <2>1
<1>14. /\ status' \in [Slot -> {"NONE", "LIVE", "EXITED"}]
       /\ \A q \in Task : /\ status'[q] # "EXITED"
                          /\ status'[q] = "LIVE" => status[q] = "LIVE"
  <2>1. status' \in [Slot -> {"NONE", "LIVE", "EXITED"}]
    BY <1>6, <1>7 DEF Typed
  <2>2. ASSUME NEW q \in Task
        PROVE  status'[q] # "EXITED" /\ (status'[q] = "LIVE" => status[q] = "LIVE")
    <3>1. q \in Slot
      BY DEF Slot
    <3>2. CASE q = c
      BY <1>6, <3>1, <3>2
    <3>3. CASE q # c
      BY <1>6, <1>8, <3>1, <3>3 DEF Others
    <3> QED
      BY <3>2, <3>3
  <2> QED
    BY <2>1, <2>2
<1>15. /\ kernel_sp' \in [Slot -> 0..3] /\ kernel_sp'[c] = d + 1
       /\ \A q \in Slot \ {c} : kernel_sp'[q] = kernel_sp[q]
  <2>1. kernel_sp' = [kernel_sp EXCEPT ![c] = d + 1]
    BY <1>2, <1>5, <1>9 DEF SavedSp
  <2>2. d + 1 \in 0..3
    BY <1>10
  <2> QED
    BY <1>7, <1>9, <2>1, <2>2 DEF Typed
<1>16. ASSUME NEW q \in Task, status'[q] = "LIVE"
       PROVE  ReadyAs(q, stacks[q], kernel_sp'[q], user[q], asked[q], user_sp[q])
  <2>1. q \in Slot /\ status[q] = "LIVE" /\ stacks[q] = saved[q]
    BY <1>13, <1>14, <1>16 DEF Slot
  <2>2. CASE q = c
    <3>1. Entered(c) /\ CalledWith(reg, asked[c]) /\ d = 1
      BY <1>8, <1>10, <2>1, <2>2, TrapAssumption DEF Switches
    <3>2. 1 \in Depth \ {d + 1} /\ d + 1 = 2
      BY <3>1 DEF Depth
    <3>3. stacks[c][1] = kstack[c][1] /\ stacks[c][2].r = reg /\ kernel_sp'[c] = 2
      BY <1>11, <1>12, <1>15, <2>1, <2>2, <3>2
    <3> QED
      BY <2>2, <3>1, <3>3 DEF ReadyAs, Entered
  <2>3. CASE q # c
    <3>1. Ready(q) /\ stacks[q] = kstack[q] /\ kernel_sp'[q] = kernel_sp[q]
      BY <1>8, <1>12, <1>15, <2>1, <2>3 DEF Others
    <3>2. ReadyAs(q, kstack[q], kernel_sp[q], user[q], asked[q], user_sp[q])
      BY <3>1, ReadyIsReadyAs
    <3> QED
      BY <3>1, <3>2
  <2> QED
    BY <2>2, <2>3
<1>17. PICK n : n = kernel_sp'[p]
  OBVIOUS
<1>18. ReadyAs(p, stacks[p], n, user[p], asked[p], user_sp[p])
  BY <1>5, <1>16, <1>17
<1>19. n \in Depth \ {1} /\ n - 1 \in 0..3
  BY <1>18 DEF ReadyAs, Depth
<1>20. /\ reg' = stacks[p][n].r /\ epc' = stacks[p][n].epc
       /\ kstack' = [stacks EXCEPT ![p] = [stacks[p] EXCEPT ![n] = NoFrame]]
  BY <1>5, <1>9, <1>13, <1>17 DEF RESTORE_CONTEXT
<1>21. stacks[p] \in [Depth -> FrameSet] /\ stacks[p][n] \in FrameSet
  BY <1>9, <1>13, <1>19
<1>22. reg' \in RegSet /\ epc' \in Pc
  BY <1>20, <1>21 DEF FrameSet
<1>23. [stacks[p] EXCEPT ![n] = NoFrame] \in [Depth -> FrameSet]
  BY <1>21, Values
<1>24. /\ kstack' \in [Slot -> [Depth -> FrameSet]] /\ kstack'[p][1] = stacks[p][1]
       /\ \A q \in Slot \ {p} : kstack'[q] = stacks[q]
  <2>1. kstack'[p] = [stacks[p] EXCEPT ![n] = NoFrame]
    BY <1>9, <1>13, <1>20
  <2>2. 1 \in Depth /\ n # 1
    BY <1>19 DEF Depth
  <2>3. kstack'[p][1] = stacks[p][1]
    BY <1>21, <2>1, <2>2
  <2> QED
    BY <1>9, <1>13, <1>20, <1>23, <2>3
<1>25. sp' = KernelStack(p, n - 1) /\ sp' \in StackSet
  BY <1>5, <1>9, <1>17, <1>19, Values
<1>26. Others(p)'
  <2> SUFFICES ASSUME NEW q \in Task \ {p}
               PROVE  status'[q] # "EXITED" /\ (status'[q] = "LIVE" => Ready(q)')
    BY DEF Others
  <2>1. ASSUME status'[q] = "LIVE"
        PROVE  Ready(q)'
    <3>1. ReadyAs(q, stacks[q], kernel_sp'[q], user[q], asked[q], user_sp[q])
      BY <1>16, <2>1
    <3>2. kstack'[q] = stacks[q]
      BY <1>24 DEF Slot
    <3>3. ReadyAs(q, kstack'[q], kernel_sp'[q], user'[q], asked'[q], user_sp'[q])
      BY <1>6, <3>1, <3>2
    <3> QED
      BY <3>3 DEF Ready, ReadyAs, Switched, Entered, Fresh, NewProgram
  <2> QED
    BY <1>14, <2>1
<1>27. mode' \in Mode /\ Running(p)'
  <2>1. CASE /\ Holds(stacks[p][1], user[p], asked[p]) /\ user_sp[p] = UserStack(p)
             /\ n = 2 /\ CalledWith(stacks[p][2].r, asked[p])
    <3>1. Entered(p)'
      BY <1>6, <1>24, <2>1 DEF Entered
    <3>2. /\ mode' = IF asked[p] = None THEN "irq_timer" ELSE "syscall"
          /\ reg'.s = 1 /\ sp' = KernelStack(p, 1) /\ kernel_sp'[p] = 2
      BY <1>6, <1>17, <1>20, <1>25, <2>1 DEF CalledWith
    <3>3. InKernel(p)'
      BY <1>5, <1>6, <3>1, <3>2 DEF InKernel
    <3> QED
      BY <3>2, <3>3 DEF Running, Mode
  <2>2. ASSUME NEW argc \in 0..1, asked[p] = None, user[p] = FirstContext(argc),
               stacks[p][1] = UserContext, n = 2 + argc,
               stacks[p][2 + argc] = KernelContext(argc)
        PROVE  mode' \in Mode /\ Running(p)'
    <3>1. /\ reg'.ra = "start_up_return" /\ reg'.a0 = 1 /\ reg'.s = argc
      BY <1>20, <2>2, NewStackTyped
    <3>2. NewProgram(p, argc)'
      BY <1>6, <1>24, <2>2 DEF NewProgram
    <3>3. n - 1 = 1 + argc
      BY <2>2
    <3>4. sp' = KernelStack(p, 1 + argc)
      BY <1>25, <3>3
    <3>5. Starts(p)'
      BY <1>5, <3>1, <3>2, <3>4 DEF Starts
    <3> QED
      BY <1>6, <3>1, <3>5 DEF Running, Mode
  <2> QED
    BY <1>18, <2>1, <2>2 DEF ReadyAs
<1>28. Typed'
  BY <1>5, <1>6, <1>7, <1>9, <1>14, <1>15, <1>22, <1>24, <1>25, <1>27 DEF Typed
<1> QED
  BY <1>5, <1>6, <1>7, <1>26, <1>27, <1>28 DEF TrapInv
-----------------------------------------------------------------------------
(***************************************************************************)
(* The results about contexts.                                             *)
(***************************************************************************)
LEMMA InitTrap == Init => TrapInv
<1> SUFFICES ASSUME Init
             PROVE  TrapInv
  OBVIOUS
<1>1. PICK first \in Task :
        /\ kernel_sp = [p \in Slot |-> IF p = first THEN 2 ELSE 0]
        /\ status = [p \in Slot |-> IF p = first THEN "LIVE" ELSE "NONE"]
  BY DEF Init
<1>2. /\ mode = "do_scheduler" /\ pc = 0 /\ epc = 0 /\ k0 = 0
      /\ reg = Zero /\ sp = KernelStack(0, 0)
      /\ kstack = [p \in Slot |-> NewStack(0)] /\ user_sp = [p \in Slot |-> UserStack(p)]
      /\ current_running = 0 /\ user = [p \in Slot |-> FirstContext(0)]
      /\ asked = [p \in Slot |-> None] /\ nested = FALSE
  BY DEF Init
<1>3. 0 \in Slot /\ 0 \notin Task /\ Task \subseteq Slot
  BY TrapAssumption DEF Slot
<1>4. FirstContext(0) \in Context /\ NewStack(0) \in [Depth -> FrameSet]
      /\ NewStack(0)[1] = UserContext /\ NewStack(0)[2] = KernelContext(0)
  <2>1. /\ NewStack(0) \in [Depth -> FrameSet]
        /\ NewStack(0)[1] = UserContext /\ NewStack(0)[2 + 0] = KernelContext(0)
    BY NewStackTyped
  <2> QED
    BY <2>1, Values DEF FirstContext, Context
<1>5. /\ kernel_sp \in [Slot -> 0..3] /\ status \in [Slot -> {"NONE", "LIVE", "EXITED"}]
  BY <1>1
<1>6. /\ user_sp \in [Slot -> StackSet] /\ sp \in StackSet
      /\ kstack \in [Slot -> [Depth -> FrameSet]] /\ user \in [Slot -> Context]
      /\ asked \in [Slot -> Calls \cup {None}]
  BY <1>2, <1>3, <1>4, Values
<1>7. Typed
  BY <1>2, <1>3, <1>5, <1>6, Values DEF Typed, Mode
<1>8. Switches(0)
  BY <1>1, <1>2, <1>3 DEF Switches
<1>9. Others(0)
  <2> SUFFICES ASSUME NEW p \in Task, status[p] = "LIVE"
               PROVE  Ready(p)
    BY <1>1, <1>3 DEF Others
  <2>1. p = first /\ p \in Slot
    BY <1>1, <1>3
  <2>2. Fresh(p, 0)
    BY <1>1, <1>2, <1>4, <2>1 DEF Fresh, NewProgram
  <2> QED
    BY <2>2 DEF Ready
<1> QED
  BY <1>2, <1>7, <1>8, <1>9 DEF TrapInv, Running

LEMMA NextTrap == TrapInv /\ [Next]_vars => TrapInv'
<1> SUFFICES ASSUME TrapInv, [Next]_vars
             PROVE  TrapInv'
  OBVIOUS
<1>1. CASE UNCHANGED vars
  BY <1>1 DEF vars, cpu, pcbs, ghosts, TrapInv, Typed, Running, Others, Aborted, RunsUser,
     InKernel, Switches, Starts, Ready, Switched, Fresh, NewProgram, Entered
<1> QED
  BY <1>1, ComputeStep, ExceptionStep, SyscallStep, NestedStep, TimerStep, WaitStep, ExitStep,
     HandlerStep, ReturnStep, KillStep, AfterWaitStep, SpawnStep, ReturnToUser, StartStep,
     SchedulerStep DEF Next

LEMMA TrapInvariant == Spec => []TrapInv
  BY InitTrap, NextTrap, PTL DEF Spec

\* However often a program was interrupted, switched out and in, whatever the others did
\* and whatever calls it made: it runs with the registers, the stack and the place that
\* it left, until an exception is taken in the kernel.
THEOREM TrapContext == Spec => []ContextIntact
<1>1. TrapInv => ContextIntact
  <2> SUFFICES ASSUME TrapInv
               PROVE  ContextIntact
    OBVIOUS
  <2>1. TypeOK
    BY TypedTypeOK DEF TrapInv
  <2>2. ASSUME InUser
        PROVE  RunsUser(current_running) /\ k0 = current_running
    BY <2>2 DEF InUser, TrapInv, Running, Typed
  <2> QED
    BY <2>1, <2>2 DEF ContextIntact, RunsUser
<1> QED
  BY <1>1, TrapInvariant, PTL

\* The context of a process that is not running is in the first frame of its kernel
\* stack, with the call it has made, and kernel_sp points to a frame that do_scheduler
\* can return through.
THEOREM TrapSaved == Spec => []SavedContextIntact
<1>1. TrapInv => SavedContextIntact
  <2> SUFFICES ASSUME TrapInv, ~nested, NEW p \in Task, status[p] = "LIVE",
                      ~(p = current_running /\ mode = "user")
               PROVE  LET f == kstack[p][1]
                      IN  /\ f.r.s = user[p].s
                          /\ asked[p] = None => f.r.v0 = user[p].v0 /\ f.epc = user[p].pc
                          /\ asked[p] # None => /\ f.r.v0 = Invokes[asked[p]] /\ f.r.a0 = user[p].a0
                                               /\ (f.epc + 1) % MaxPc = user[p].pc
                          /\ p # k0 => kstack[p][kernel_sp[p]].r.ra \in
                                         {"start_up_return", "irq_timer", "syscall"}
    BY DEF SavedContextIntact
  <2>1. Typed /\ Running(current_running) /\ Others(current_running) /\ k0 = current_running
    BY DEF TrapInv, Typed
  <2>2. ASSUME NEW argc \in 0..1, NewProgram(p, argc)
        PROVE  /\ asked[p] = None /\ kstack[p][1].r.s = user[p].s
               /\ kstack[p][1].r.v0 = user[p].v0 /\ kstack[p][1].epc = user[p].pc
    BY <2>2 DEF NewProgram, UserContext, NoFrame, Frame, Zero, FirstContext
  <2>3. CASE p = current_running
    <3>1. Entered(p) \/ \E argc \in 0..1 : NewProgram(p, argc)
      <4>1. p # 0 /\ mode \in Mode
        BY <2>1, TrapAssumption DEF Typed
      <4> QED
        BY <2>1, <2>3, <4>1 DEF Running, InKernel, Switches, Starts, Mode
    <3> QED
      BY <2>1, <2>2, <2>3, <3>1 DEF Entered, Holds
  <2>4. CASE p # current_running
    <3>1. Ready(p)
      BY <2>1, <2>4 DEF Others
    <3>2. CASE Switched(p)
      BY <3>2 DEF Switched, Entered, Holds, CalledWith
    <3>3. ASSUME NEW argc \in 0..1, Fresh(p, argc)
          PROVE  /\ asked[p] = None /\ kstack[p][1].r.s = user[p].s
                 /\ kstack[p][1].r.v0 = user[p].v0 /\ kstack[p][1].epc = user[p].pc
                 /\ kstack[p][kernel_sp[p]].r.ra = "start_up_return"
      BY <2>2, <3>3, NewStackTyped DEF Fresh
    <3> QED
      BY <3>1, <3>2, <3>3 DEF Ready
  <2> QED
    BY <2>3, <2>4
<1> QED
  BY <1>1, TrapInvariant, PTL
-----------------------------------------------------------------------------
(***************************************************************************)
(* The clock.                                                              *)
(***************************************************************************)

\* Between a tick and the update the difference that update_time_elapsed will
\* compute is what is missing.  The counter has moved by at most MaxInterval, so
\* it stands below its last value exactly when it has wrapped.
Difference ==
  IF cp0_count > last_cp0_count
  THEN cp0_count - last_cp0_count
  ELSE (CountMod - 1) + cp0_count - last_cp0_count

TimerInv ==
  /\ ClockTypeOK
  /\ TimeLag
  /\ ~Updated => /\ time_elapsed + Difference + wraps = cycles
                 /\ Difference <= MaxInterval

LEMMA InitTimerInv == ClockInit => TimerInv
  BY TimerAssumption DEF ClockInit, TimerInv, ClockTypeOK, TimeLag, Updated, Difference

LEMMA NextTimerInv == TimerInv /\ [ClockNext]_clock => TimerInv'
<1> SUFFICES ASSUME TimerInv, [ClockNext]_clock
             PROVE  TimerInv'
  OBVIOUS
<1> USE TimerAssumption DEF TimerInv, ClockTypeOK, TimeLag, Updated, Difference
<1>1. ASSUME NEW d \in 1..MaxInterval, Tick(d)
      PROVE  TimerInv'
  <2>1. CASE cp0_count + d < CountMod
    BY <1>1, <2>1 DEF Tick
  <2>2. CASE ~(cp0_count + d < CountMod)
    BY <1>1, <2>2 DEF Tick
  <2> QED
    BY <2>1, <2>2
<1>2. CASE update_time_elapsed
  BY <1>2 DEF update_time_elapsed
<1>3. CASE UNCHANGED clock
  BY <1>3 DEF clock
<1> QED
  BY <1>1, <1>2, <1>3 DEF ClockNext

\* The state is well typed: in particular time_elapsed is never negative.
THEOREM TimerTypeOK == ClockSpec => []ClockTypeOK
<1>1. TimerInv => ClockTypeOK
  BY DEF TimerInv
<1> QED
  BY <1>1, InitTimerInv, NextTimerInv, PTL DEF ClockSpec

\* After every call of update_time_elapsed the clock is behind the true number
\* of cycles by exactly the number of wraps of the count register.
THEOREM TimerLag == ClockSpec => []TimeLag
<1>1. TimerInv => TimeLag
  BY DEF TimerInv
<1> QED
  BY <1>1, InitTimerInv, NextTimerInv, PTL DEF ClockSpec

\* update_time_elapsed never turns the clock back and never advances it by more
\* than the longest interval between two interrupts.
THEOREM TimerMonotonic == ClockSpec => TimeMonotonic
<1> DEFINE Step == /\ time_elapsed' >= time_elapsed
                   /\ time_elapsed' - time_elapsed <= MaxInterval
<1>1. TimerInv /\ [ClockNext]_clock => [Step]_clock
  <2> SUFFICES ASSUME TimerInv, ClockNext
               PROVE  Step
    OBVIOUS
  <2> USE TimerAssumption DEF TimerInv, ClockTypeOK, Updated, Difference
  <2>1. ASSUME NEW d \in 1..MaxInterval, Tick(d)
        PROVE  Step
    BY <2>1 DEF Tick
  <2>2. CASE update_time_elapsed
    BY <2>2 DEF update_time_elapsed
  <2> QED
    BY <2>1, <2>2 DEF ClockNext
<1> QED
  BY <1>1, InitTimerInv, NextTimerInv, PTL DEF ClockSpec, TimeMonotonic

\* Exceptions and interrupts drive the clock as module Timer says: it is only read and
\* advanced by the timer interrupt, and what is proved of the clock holds of the kernel.
THEOREM TrapClock == Spec => ClockSpec
<1>1. Init => ClockInit
  BY DEF Init
<1>2. [Next]_vars => [ClockNext]_clock
  <2> SUFFICES ASSUME [Next]_vars
               PROVE  ClockNext \/ UNCHANGED clock
    OBVIOUS
  <2>1. ASSUME NEW c, CountAdvances(c)
        PROVE  ClockNext \/ UNCHANGED clock
    BY <2>1 DEF CountAdvances, ClockNext
  <2>2. CASE \/ \E c \in {"INT", "TLB", "OTHER"} : Exception(c)
             \/ \E c \in Calls : Syscall(c)
    BY <2>1, <2>2 DEF Exception, Syscall
  <2>3. CASE irq_timer
    BY <2>3 DEF irq_timer, ClockNext
  <2>4. CASE \/ Compute \/ TLB_Invalid_handler \/ other_exception_handler
             \/ Return \/ Wait \/ do_spawn \/ do_exit \/ do_kill \/ NestedException
    BY <2>4 DEF Compute, TLB_Invalid_handler, other_exception_handler, Return, Wait,
                do_spawn, do_exit, do_kill, NestedException
  <2>5. CASE \/ do_scheduler \/ AfterTimer \/ AfterWait \/ exception_return
             \/ start_up_return
    BY <2>5 DEF do_scheduler, AfterTimer, AfterWait, exception_return, start_up_return,
                Eret
  <2>6. CASE UNCHANGED vars
    BY <2>6 DEF vars
  <2> QED
    BY <2>2, <2>3, <2>4, <2>5, <2>6 DEF Next
<1> QED
  BY <1>1, <1>2, PTL DEF Spec, ClockSpec
=============================================================================
