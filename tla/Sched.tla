------------------------------- MODULE Sched -------------------------------
(***************************************************************************)
(* Processes, scheduling and mutex locks: kernel/sched/sched.c,            *)
(* kernel/locking/lock.c, kernel/irq/irq.c and the scheduler loop of       *)
(* init/main.c.                                                            *)
(*                                                                         *)
(* The machine has one processor and the kernel runs with interrupts off   *)
(* (EXL stays set from the exception vector to eret), so a system call or  *)
(* an interrupt handler is one step, up to the point where do_scheduler    *)
(* switches to another process.  The one loop whose iterations feed each   *)
(* other, the release of a dead process's locks in free_proc, is unrolled  *)
(* into steps of its own: while freeing # NotFreeing nothing else can      *)
(* happen.                                                                 *)
(*                                                                         *)
(* The clients are as general as the code allows: the running process may  *)
(* make any system call in Syscalls.  The shell (pid 1, test_shell.c) only *)
(* spawns and kills; it never blocks.  A process releases a mutex only     *)
(* while it holds it and initializes one only while nobody uses it.        *)
(***************************************************************************)
EXTENDS QueueOps

CONSTANTS NumMaxTask,    \* NUM_MAX_TASK: slots of pcb_list, slot 0 is the boot context
          MaxLock,       \* MAX_LOCK: entries of pcb_t.locks_got
          Lock,          \* the mutex locks the programs use
          NULL,          \* the null pointer
          Syscalls,      \* the system calls the workload makes
          MaxPid,        \* bound on the pids ever allocated
          MaxSleep,      \* bound on the argument of do_sleep
          TimeMod,       \* 2^32: get_timer() is truncated to uint32_t
          TicksPerUnit   \* timer interrupts per unit of get_timer()

KernelQueue == {"ready", "sleep", "waitpid"}
Queue       == KernelQueue \cup Lock
Task        == 1..(NumMaxTask - 1)
Pcb         == 0..(NumMaxTask - 1)
Slot        == 0..(MaxLock - 1)
Status      == {"NONE", "SLEEPING", "BLOCKED", "RUNNING", "READY", "EXITED"}
Call        == {"spawn", "exit", "kill", "sleep", "yield", "waitpid",
                "lock_init", "lock_acquire", "lock_release"}
ShellCall   == {"spawn", "kill"}

ASSUME TaskAssumption == NumMaxTask \in Nat /\ NumMaxTask > 1
ASSUME LockAssumption ==
  /\ MaxLock \in Nat
  /\ Lock \cap KernelQueue = {}
  /\ NULL \notin Queue
ASSUME TimeAssumption ==
  /\ TimeMod \in Nat \ {0}
  /\ TicksPerUnit \in Nat \ {0}
  /\ MaxSleep \in Nat
ASSUME CallAssumption == Syscalls \subseteq Call /\ MaxPid \in Nat \ {0}

VARIABLES
  status,             \* pcb_t.status
  pid,                \* pcb_t.pid, 0 in a free slot
  in_queue,           \* pcb_t.in_queue
  queue,              \* ready_queue, sleep_queue, waitpid_queue, block_queue of each lock
  current_running,    \* the slot of the running process
  next_pid,
  kernel_sp,          \* which kernel stack the pcb's kernel_sp points into
  kernel_stack_used,
  sleep_until,
  waitpid,            \* pcb_t.waitpid
  locks_got,          \* pcb_t.locks_got
  lock_status,        \* mutex_lock_t.status
  time_elapsed,       \* in timer intervals, as far as get_timer() can tell
  freeing,            \* progress of free_proc through locks_got
  panic,              \* undefined behaviour the kernel has run into
  holders,            \* ghost: the processes that acquired a lock and did not release it
  tainted             \* ghost: free_proc released the lock for a process that did not hold it

run    == <<status, in_queue, queue>>
stack  == <<kernel_sp, kernel_stack_used>>
locks  == <<locks_got, lock_status, holders, tainted>>
ids    == <<pid, next_pid>>
vars   == <<run, stack, locks, ids, current_running, sleep_until, waitpid,
            time_elapsed, freeing, panic>>

Stage      == {"return", "scheduler", "dispatch"}
NotFreeing == [victim |-> 0, slot |-> 0, then |-> "return"]
Panic      == {"none", "no_ready", "null_queue", "no_stack"}

\* init_stack, init_pcb, init_lock and start_tasks: the shell is ready to run.
Init ==
  /\ status = [p \in Pcb |-> IF p = 1 THEN "READY" ELSE "NONE"]
  /\ pid = [p \in Pcb |-> IF p = 1 THEN 1 ELSE 0]
  /\ in_queue = [p \in Pcb |-> IF p = 1 THEN "ready" ELSE NULL]
  /\ queue = [q \in Queue |-> IF q = "ready" THEN <<1>> ELSE <<>>]
  /\ current_running = 0
  /\ next_pid = 2
  /\ kernel_sp = [p \in Pcb |-> IF p = 1 THEN 1 ELSE 0]
  /\ kernel_stack_used = [i \in Pcb |-> i \in {0, 1}]
  /\ sleep_until = [p \in Pcb |-> 0]
  /\ waitpid = [p \in Pcb |-> 0]
  /\ locks_got = [p \in Pcb |-> [i \in Slot |-> NULL]]
  /\ lock_status = [l \in Lock |-> "UNLOCKED"]
  /\ time_elapsed = 0
  /\ freeing = NotFreeing
  /\ panic = "none"
  /\ holders = [l \in Lock |-> {}]
  /\ tainted = [l \in Lock |-> FALSE]
-----------------------------------------------------------------------------
(***************************************************************************)
(* The kernel routines that only move processes between queues take and    *)
(* return the run state [queue, status, in_queue].                         *)
(***************************************************************************)
RunState == [queue |-> queue, status |-> status, in_queue |-> in_queue]

(***************************************************************************)
(* A definition named X_fault is not part of the model: it is X with a     *)
(* plausible programming error, kept to show that a property detects it.   *)
(***************************************************************************)

\* LIFO instead of FIFO.
Push_fault(k, p, q, st) ==
  [queue    |-> [k.queue EXCEPT ![q] = <<p>> \o @],
   status   |-> [k.status EXCEPT ![p] = st],
   in_queue |-> [k.in_queue EXCEPT ![p] = q]]

\* queue_push of process p, whose status and in_queue become st and q.
Push(k, p, q, st) ==
  [queue    |-> [k.queue EXCEPT ![q] = Append(@, p)],
   status   |-> [k.status EXCEPT ![p] = st],
   in_queue |-> [k.in_queue EXCEPT ![p] = q]]

\* p changes its status and is in no queue before and after.
SetStatus(k, p, st) ==
  [queue |-> k.queue, status |-> [k.status EXCEPT ![p] = st], in_queue |-> k.in_queue]

\* queue_remove of p from the queue it is in, when p is killed.
Unlink(k, p) ==
  [queue    |-> [k.queue EXCEPT ![k.in_queue[p]] = Without(@, p)],
   status   |-> [k.status EXCEPT ![p] = "EXITED"],
   in_queue |-> k.in_queue]

\* in_queue keeps naming the old queue.
Wake_fault(k, q, A) ==
  LET woken == Range(k.queue[q]) \cap A
  IN  [queue    |-> [k.queue EXCEPT ![q] = Keep(@, Task \ A),
                                    !["ready"] = @ \o Keep(k.queue[q], A)],
       status   |-> [p \in Pcb |-> IF p \in woken THEN "READY" ELSE k.status[p]],
       in_queue |-> k.in_queue]

\* The members of q in A leave q, oldest first, and become ready.
Wake(k, q, A) ==
  LET woken == Range(k.queue[q]) \cap A
  IN  [queue    |-> [k.queue EXCEPT ![q] = Keep(@, Task \ A),
                                    !["ready"] = @ \o Keep(k.queue[q], A)],
       status   |-> [p \in Pcb |-> IF p \in woken THEN "READY" ELSE k.status[p]],
       in_queue |-> [p \in Pcb |-> IF p \in woken THEN "ready" ELSE k.in_queue[p]]]

get_timer(t) == t \div TicksPerUnit

\* The comparison the wrong way round.
check_sleeping_fault(k, until, now) ==
  Wake(k, "sleep", {p \in Task : until[p] > now})

check_sleeping(k, until, now) == Wake(k, "sleep", {p \in Task : until[p] < now})

\* The status stays TASK_RUNNING.
Preempt_fault(k) ==
  IF pid[current_running] # 0 /\ k.status[current_running] = "RUNNING"
  THEN Push(k, current_running, "ready", "RUNNING")
  ELSE k

\* The interrupted process is only queued again when another one is ready.
Preempt_fault2(k) ==
  IF /\ pid[current_running] # 0 /\ k.status[current_running] = "RUNNING"
     /\ k.queue["ready"] # <<>>
  THEN Push(k, current_running, "ready", "READY")
  ELSE k

\* The first lines of scheduler: a process that was interrupted stays ready.
Preempt(k) ==
  IF pid[current_running] # 0 /\ k.status[current_running] = "RUNNING"
  THEN Push(k, current_running, "ready", "READY")
  ELSE k

\* The last lines of scheduler: the head of ready_queue runs next.
Dispatch(k) ==
  IF k.queue["ready"] = <<>>
  THEN /\ panic' = "no_ready"
       /\ queue' = k.queue /\ status' = k.status /\ in_queue' = k.in_queue
       /\ UNCHANGED current_running
  ELSE LET p == Head(k.queue["ready"])
       IN /\ current_running' = p
          /\ queue' = [k.queue EXCEPT !["ready"] = Tail(@)]
          /\ status' = [k.status EXCEPT ![p] = "RUNNING"]
          /\ in_queue' = [k.in_queue EXCEPT ![p] = NULL]
          /\ UNCHANGED panic

\* scheduler() when the running process has not exited.
scheduler(k, now) == Dispatch(Preempt(check_sleeping(k, sleep_until, now)))

Resume(k) == queue' = k.queue /\ status' = k.status /\ in_queue' = k.in_queue

\* Assignment of a 64-bit value to a uint32_t.
uint32(t) == t % TimeMod

\* update_time_elapsed: n more timer intervals have gone by.
Later(n) == (time_elapsed + n) % (TimeMod * TicksPerUnit)
-----------------------------------------------------------------------------
(***************************************************************************)
(* The record of acquired locks that the running process keeps.            *)
(***************************************************************************)
HasSlot(got, x) == \E i \in Slot : got[i] = x
FirstSlot(got, x) ==
  CHOOSE i \in Slot : got[i] = x /\ \A j \in Slot : got[j] = x => i <= j

proc_get_lock(got, l) ==
  IF HasSlot(got, NULL) THEN [got EXCEPT ![FirstSlot(got, NULL)] = l] ELSE got

proc_lose_lock(got, l) ==
  IF HasSlot(got, l) THEN [got EXCEPT ![FirstSlot(got, l)] = NULL] ELSE got

do_unblock_one(k, q) == Wake(k, q, {Head(k.queue[q])})

\* The records after do_mutex_lock_release(l): when there are waiters it is the
\* running process, not the one that gets the lock, that records it.
ReleaseRecord(l) ==
  LET got == proc_lose_lock(locks_got[current_running], l)
  IN  [locks_got EXCEPT ![current_running] =
         IF queue[l] = <<>> THEN got ELSE proc_get_lock(got, l)]

\* The lock is UNLOCKED although it is handed over.
do_mutex_lock_release_fault(l, p) ==
  /\ lock_status' = [lock_status EXCEPT ![l] = "UNLOCKED"]
  /\ IF queue[l] = <<>>
     THEN holders' = [holders EXCEPT ![l] = @ \ {p}] /\ UNCHANGED run
     ELSE /\ Resume(do_unblock_one(RunState, l))
          /\ holders' = [holders EXCEPT ![l] = (@ \ {p}) \cup {Head(queue[l])}]

\* Nobody is woken.
do_mutex_lock_release_fault2(l, p) ==
  /\ lock_status' = [lock_status EXCEPT ![l] = "UNLOCKED"]
  /\ holders' = [holders EXCEPT ![l] = @ \ {p}]
  /\ UNCHANGED run

\* do_mutex_lock_release(l) executed by the running process on behalf of p, which
\* is itself or the process free_proc takes apart.  With waiters the lock stays
\* LOCKED and the first of them holds it from now on.
do_mutex_lock_release(l, p) ==
  IF queue[l] = <<>>
  THEN /\ lock_status' = [lock_status EXCEPT ![l] = "UNLOCKED"]
       /\ holders' = [holders EXCEPT ![l] = @ \ {p}]
       /\ UNCHANGED run
  ELSE /\ Resume(do_unblock_one(RunState, l))
       /\ holders' = [holders EXCEPT ![l] = (@ \ {p}) \cup {Head(queue[l])}]
       /\ UNCHANGED lock_status
-----------------------------------------------------------------------------
(***************************************************************************)
(* Interrupts.                                                             *)
(***************************************************************************)
Idle == panic = "none" /\ freeing = NotFreeing

\* The loop at the end of _start, until the first process runs.
BootLoop ==
  /\ Idle
  /\ current_running = 0
  /\ scheduler(RunState, get_timer(time_elapsed))
  /\ UNCHANGED <<stack, locks, ids, sleep_until, waitpid, time_elapsed, freeing>>

\* interrupt_helper and irq_timer when a timer interrupt ends a time slice.
irq_timer ==
  /\ Idle
  /\ status[current_running] = "RUNNING"
  /\ time_elapsed' = Later(1)
  /\ scheduler(RunState, get_timer(time_elapsed'))
  /\ UNCHANGED <<stack, locks, ids, sleep_until, waitpid, freeing>>

\* The kernel stack is not given back.
free_proc_fault(k, p, stage) ==
  /\ Resume(k)
  /\ freeing' = [victim |-> p, slot |-> 0, then |-> stage]
  /\ UNCHANGED kernel_stack_used

\* free_proc up to its loop over locks_got.
free_proc(k, p, stage) ==
  /\ Resume(k)
  /\ freeing' = [victim |-> p, slot |-> 0, then |-> stage]
  /\ kernel_stack_used' = [kernel_stack_used EXCEPT ![kernel_sp[p]] = FALSE]

\* The scheduler forgets the exited process instead of freeing it.
ReapExited_fault ==
  /\ Idle
  /\ status[current_running] = "EXITED"
  /\ \E n \in {0, 1} : time_elapsed' = Later(n)
  /\ scheduler(RunState, get_timer(time_elapsed'))
  /\ UNCHANGED <<stack, locks, ids, sleep_until, waitpid, freeing>>

\* interrupt_helper when a process that killed itself enters the kernel again,
\* for whatever reason: irq_timer, and scheduler frees it.
ReapExited ==
  /\ Idle
  /\ status[current_running] = "EXITED"
  /\ \E n \in {0, 1} : time_elapsed' = Later(n)
  /\ free_proc(check_sleeping(RunState, sleep_until, get_timer(time_elapsed')),
               current_running, "dispatch")
  /\ UNCHANGED <<kernel_sp, locks, ids, current_running, sleep_until, waitpid, panic>>

\* The entries of the victim's locks_got that free_proc still has to release.
Pending == {i \in freeing.slot..(MaxLock - 1) : locks_got[freeing.victim][i] # NULL}

\* One iteration of the loop over locks_got in free_proc.
FreeLock ==
  /\ freeing # NotFreeing
  /\ \E i \in Pending :
       LET v == freeing.victim
           l == locks_got[v][i]
       IN  /\ \A j \in Pending : i <= j
           /\ do_mutex_lock_release(l, v)
           /\ locks_got' = [ReleaseRecord(l) EXCEPT ![v][i] = NULL]
           /\ tainted' = [tainted EXCEPT ![l] = @ \/ v \notin holders[l]]
           /\ freeing' = [freeing EXCEPT !.slot = i + 1]
  /\ UNCHANGED <<stack, ids, current_running, sleep_until, waitpid, time_elapsed, panic>>

\* The walk over waitpid_queue stops at the first process it wakes.
WaitingFor_fault(v) ==
  {p \in Task : waitpid[p] = pid[v] /\ queue["waitpid"] # <<>> /\ p = Head(queue["waitpid"])}

\* The processes free_proc(v) takes off waitpid_queue.
WaitingFor(v) == {p \in Task : waitpid[p] = pid[v]}

\* The rest of free_proc wakes the processes waiting for the victim and frees its
\* pcb.  Then do_kill returns, or do_exit calls the scheduler, or the scheduler
\* that called free_proc picks the next process.
FreeDone ==
  LET v     == freeing.victim
      woken == Wake(RunState, "waitpid", WaitingFor(v))
      k     == SetStatus(woken, v, "NONE")
  IN  /\ freeing # NotFreeing
      /\ Pending = {}
      /\ pid' = [pid EXCEPT ![v] = 0]
      /\ holders' = [l \in Lock |-> holders[l] \ {v}]
      /\ freeing' = NotFreeing
      /\ \/ /\ freeing.then = "return"
            /\ Resume(k)
            /\ UNCHANGED <<current_running, panic>>
         \/ /\ freeing.then = "scheduler"
            /\ Dispatch(check_sleeping(k, sleep_until, get_timer(time_elapsed)))
         \/ /\ freeing.then = "dispatch"
            /\ Dispatch(k)
      /\ UNCHANGED <<stack, locks_got, lock_status, tainted, next_pid,
                     sleep_until, waitpid, time_elapsed>>
-----------------------------------------------------------------------------
(***************************************************************************)
(* System calls.  A call that returns without changing anything (no free   *)
(* slot, no such process) is a stuttering step.                            *)
(***************************************************************************)
InCall(c) ==
  /\ Idle
  /\ status[current_running] = "RUNNING"
  /\ c \in Syscalls
  /\ pid[current_running] = 1 => c \in ShellCall

FreeSlot(p)  == status[p] = "NONE" /\ \A r \in Task : status[r] = "NONE" => p <= r
FreeStack(i) == ~kernel_stack_used[i] /\ \A j \in Task : ~kernel_stack_used[j] => i <= j

\* The pid handed out last.
alloc_pid_fault == next_pid - 1
alloc_pid == next_pid

\* The child gets the lowest free slot, the next pid and the lowest free stack.
do_spawn ==
  /\ InCall("spawn")
  /\ next_pid <= MaxPid
  /\ \E p \in Task :
       /\ FreeSlot(p)
       /\ next_pid' = next_pid + 1
       /\ IF \A i \in Task : kernel_stack_used[i]
          THEN panic' = "no_stack" /\ UNCHANGED <<run, pid, stack, locks_got>>
          ELSE \E i \in Task :
                 /\ FreeStack(i)
                 /\ kernel_stack_used' = [kernel_stack_used EXCEPT ![i] = TRUE]
                 /\ kernel_sp' = [kernel_sp EXCEPT ![p] = i]
                 /\ pid' = [pid EXCEPT ![p] = alloc_pid]
                 /\ Resume(Push(RunState, p, "ready", "READY"))
                 /\ locks_got' = [locks_got EXCEPT ![p] = [j \in Slot |-> NULL]]
                 /\ UNCHANGED panic
  /\ UNCHANGED <<lock_status, holders, tainted, current_running, sleep_until,
                 waitpid, time_elapsed, freeing>>

do_exit ==
  /\ InCall("exit")
  /\ free_proc(SetStatus(RunState, current_running, "EXITED"), current_running, "scheduler")
  /\ UNCHANGED <<kernel_sp, locks, ids, current_running, sleep_until, waitpid,
                 time_elapsed, panic>>

\* A process that kills itself runs on until it next enters the kernel; any other
\* one is unlinked and freed at once.  Pid 0 finds the boot slot, which is in no
\* queue: queue_remove dereferences its null in_queue.
do_kill(target) ==
  /\ InCall("kill")
  /\ \/ /\ target = 0
        /\ panic' = "null_queue"
        /\ UNCHANGED <<run, kernel_stack_used, freeing>>
     \/ /\ target = pid[current_running]
        /\ status' = [status EXCEPT ![current_running] = "EXITED"]
        /\ UNCHANGED <<queue, in_queue, kernel_stack_used, freeing, panic>>
     \/ \E p \in Task \ {current_running} :
          /\ target # 0 /\ pid[p] = target
          /\ free_proc(Unlink(RunState, p), p, "return")
          /\ UNCHANGED panic
  /\ UNCHANGED <<kernel_sp, locks, ids, current_running, sleep_until, waitpid,
                 time_elapsed>>

do_scheduler ==
  /\ InCall("yield")
  /\ scheduler(RunState, get_timer(time_elapsed))
  /\ UNCHANGED <<stack, locks, ids, sleep_until, waitpid, time_elapsed, freeing>>

do_sleep(sleep_time) ==
  /\ InCall("sleep")
  /\ sleep_until' = [sleep_until EXCEPT ![current_running] =
                       uint32(get_timer(time_elapsed) + sleep_time)]
  /\ Dispatch(check_sleeping(Push(RunState, current_running, "sleep", "SLEEPING"),
                             sleep_until', get_timer(time_elapsed)))
  /\ UNCHANGED <<stack, locks, ids, waitpid, time_elapsed, freeing>>

\* The running process waits in q: do_block, and the same lines in do_waitpid.
do_block(q) ==
  Dispatch(check_sleeping(Push(RunState, current_running, q, "BLOCKED"),
                          sleep_until, get_timer(time_elapsed)))

\* Free slots and the boot slot have pid 0, so waiting for pid 0 succeeds.
do_waitpid(target) ==
  /\ InCall("waitpid")
  /\ \E p \in Pcb : pid[p] = target
  /\ waitpid' = [waitpid EXCEPT ![current_running] = target]
  /\ do_block("waitpid")
  /\ UNCHANGED <<stack, locks, ids, sleep_until, time_elapsed, freeing>>

do_mutex_lock_init(l) ==
  /\ InCall("lock_init")
  /\ holders[l] = {} /\ queue[l] = <<>>
  /\ lock_status' = [lock_status EXCEPT ![l] = "UNLOCKED"]
  /\ queue' = [queue EXCEPT ![l] = <<>>]
  /\ UNCHANGED <<status, in_queue, stack, locks_got, holders, tainted, ids,
                 current_running, sleep_until, waitpid, time_elapsed, freeing, panic>>

do_mutex_lock_acquire(l) ==
  /\ InCall("lock_acquire")
  /\ \/ /\ lock_status[l] = "UNLOCKED"
        /\ locks_got' = [locks_got EXCEPT ![current_running] = proc_get_lock(@, l)]
        /\ lock_status' = [lock_status EXCEPT ![l] = "LOCKED"]
        /\ holders' = [holders EXCEPT ![l] = @ \cup {current_running}]
        /\ UNCHANGED <<run, current_running, panic>>
     \/ /\ lock_status[l] = "LOCKED"
        /\ do_block(l)
        /\ UNCHANGED <<locks_got, lock_status, holders>>
  /\ UNCHANGED <<stack, tainted, ids, sleep_until, waitpid, time_elapsed, freeing>>

\* The system call do_mutex_lock_release.
UnlockCall(l) ==
  /\ InCall("lock_release")
  /\ current_running \in holders[l]
  /\ do_mutex_lock_release(l, current_running)
  /\ locks_got' = ReleaseRecord(l)
  /\ UNCHANGED <<stack, tainted, ids, current_running, sleep_until, waitpid,
                 time_elapsed, freeing, panic>>

Next ==
  \/ BootLoop \/ irq_timer \/ ReapExited \/ FreeLock \/ FreeDone
  \/ do_spawn \/ do_exit \/ do_scheduler
  \/ \E n \in 0..MaxSleep : do_sleep(n)
  \/ \E p \in 0..MaxPid : do_kill(p) \/ do_waitpid(p)
  \/ \E l \in Lock : \/ do_mutex_lock_init(l)
                     \/ do_mutex_lock_acquire(l)
                     \/ UnlockCall(l)

Spec == Init /\ [][Next]_vars

\* The timer interrupts every running process and the kernel finishes what it
\* started; processes need not make any system call.
Fairness == WF_vars(BootLoop) /\ WF_vars(irq_timer) /\ WF_vars(ReapExited)
            /\ WF_vars(FreeLock \/ FreeDone)
FairSpec == Spec /\ Fairness
-----------------------------------------------------------------------------
(***************************************************************************)
(* Type correctness.                                                       *)
(***************************************************************************)
TypeOK ==
  /\ status \in [Pcb -> Status]
  /\ pid \in [Pcb -> Nat]
  /\ in_queue \in [Pcb -> Queue \cup {NULL}]
  /\ queue \in [Queue -> Seq(Task)]
  /\ current_running \in Pcb
  /\ next_pid \in Nat \ {0}
  /\ kernel_sp \in [Pcb -> Pcb]
  /\ kernel_stack_used \in [Pcb -> BOOLEAN]
  /\ sleep_until \in [Pcb -> 0..(TimeMod - 1)]
  /\ waitpid \in [Pcb -> Nat]
  /\ locks_got \in [Pcb -> [Slot -> Lock \cup {NULL}]]
  /\ lock_status \in [Lock -> {"LOCKED", "UNLOCKED"}]
  /\ time_elapsed \in Nat
  /\ freeing \in [victim : Pcb, slot : 0..MaxLock, then : Stage]
  /\ panic \in Panic
  /\ holders \in [Lock -> SUBSET Task]
  /\ tainted \in [Lock -> BOOLEAN]

(***************************************************************************)
(* Safety.                                                                 *)
(***************************************************************************)
Queued == {"READY", "SLEEPING", "BLOCKED"}
QueueOf(st) == IF st = "READY" THEN {"ready"}
               ELSE IF st = "SLEEPING" THEN {"sleep"}
               ELSE {"waitpid"} \cup Lock

\* A process that is ready, sleeping or blocked is in exactly the queue that its
\* in_queue names, once, and in no other; every other process is in no queue.
\* do_kill unlinks its victim from in_queue and relies on it.
QueuesConsistent ==
  /\ \A q \in Queue : IsInjective(queue[q])
  /\ \A p \in Task, q \in Queue :
       p \in Range(queue[q]) <=> status[p] \in Queued /\ in_queue[p] = q
  /\ \A p \in Task : status[p] \in Queued => in_queue[p] \in QueueOf(status[p])

\* Only current_running is running or waits to be reaped after killing itself,
\* except for the process free_proc is taking apart; and the processor is never
\* left with a process that was put to sleep, blocked or made ready.
OneRunner ==
  /\ \A p \in Task : status[p] \in {"RUNNING", "EXITED"} =>
       p = current_running \/ (freeing # NotFreeing /\ p = freeing.victim)
  /\ panic # "no_ready" /\ current_running # 0 =>
       status[current_running] \in {"RUNNING", "EXITED"}

\* Live processes have kernel stacks of their own, marked as used, and a process
\* that finds a free slot also finds a free stack: new_kernel_stack never fails
\* in do_spawn, which does not check its result.
StackPerProcess ==
  /\ panic # "no_stack"
  /\ \A p \in Task : status[p] # "NONE" /\ p # freeing.victim =>
       /\ kernel_stack_used[kernel_sp[p]]
       /\ \A r \in Task : status[r] # "NONE" /\ r # p => kernel_sp[r] # kernel_sp[p]

\* A pid names at most one process, a slot has a pid as long as it is in use, and
\* do_spawn never hands out a pid that is in use or was used.
PidsUnique ==
  \A p \in Task :
    /\ pid[p] < next_pid
    /\ pid[p] = 0 <=> status[p] = "NONE"
    /\ \A r \in Task : pid[p] = pid[r] /\ pid[p] # 0 => p = r

\* Whoever waits in waitpid_queue waits for a process that is still there: no
\* wakeup of free_proc is lost.  Only waiting for pid 0 lasts forever.
WaitersHaveTarget ==
  \A p \in Task : p \in Range(queue["waitpid"]) /\ waitpid[p] # 0 =>
    \E r \in Task : pid[r] = waitpid[p]

\* The kernel runs out of ready processes, and scheduler dereferences the null
\* head of ready_queue, only after the shell has died.
ShellKeepsReady == panic = "no_ready" => \A p \in Task : pid[p] # 1

\* Nobody waits for a free lock: do_mutex_lock_release hands the lock over.
NoWaiterOnFreeLock ==
  \A l \in Lock : lock_status[l] = "UNLOCKED" => queue[l] = <<>>

\* Mutual exclusion breaks in no other way than by free_proc releasing a lock that
\* the dead process had recorded and did not hold; until then a lock that
\* somebody holds is LOCKED.
ExclusionUntilTainted ==
  \A l \in Lock : ~tainted[l] =>
    /\ \A p, r \in holders[l] : p = r
    /\ holders[l] # {} => lock_status[l] = "LOCKED"

\* Waiters get a lock in the order in which they asked for it: a process that
\* comes to hold a lock was first in the lock's queue, or there was no queue.
NoBarging ==
  [][\A l \in Lock : \A p \in holders'[l] \ holders[l] :
       queue[l] = <<>> \/ p = Head(queue[l])]_vars
-----------------------------------------------------------------------------
(***************************************************************************)
(* Liveness.                                                               *)
(***************************************************************************)
\* Round robin starves nobody: a ready process runs, or is killed, or the kernel
\* has crashed.
ReadyRuns ==
  \A p \in Task : status[p] = "READY" ~> status[p] # "READY" \/ panic # "none"

\* A process that killed itself is freed.
ExitedReaped ==
  \A p \in Task : status[p] = "EXITED" ~> status[p] # "EXITED" \/ panic # "none"

\* A sleeping process wakes up, although the 32-bit clock wraps around, unless it
\* is to sleep until the very last value: the comparison in check_sleeping is
\* strict.
SleepersWake ==
  \A p \in Task : status[p] = "SLEEPING" /\ sleep_until[p] < TimeMod - 1
                    ~> status[p] # "SLEEPING" \/ panic # "none"
=============================================================================
