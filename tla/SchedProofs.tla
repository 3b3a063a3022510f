---------------------------- MODULE SchedProofs ----------------------------
(***************************************************************************)
(* Proofs about processes and the scheduler (module Sched).                *)
(*                                                                         *)
(* The inductive invariant is a conjunction of named parts.  The part that *)
(* matters most, RunOK, speaks about a run state [queue, status, in_queue] *)
(* rather than about the variables, so that it can be carried through the  *)
(* intermediate run states of a handler: each kernel routine is shown to   *)
(* preserve it once, in a lemma, and the actions combine the lemmas.       *)
(***************************************************************************)
EXTENDS Sched, QueueOpsProofs

\* The queues, the statuses and in_queue fit together (QueuesConsistent), and the
\* boot slot stays out of it.
RunOK(k) ==
  /\ k.queue \in [Queue -> Seq(Task)]
  /\ k.status \in [Pcb -> Status]
  /\ k.in_queue \in [Pcb -> Queue \cup {NULL}]
  /\ k.status[0] = "NONE"
  /\ \A q \in Queue : IsInjective(k.queue[q])
  /\ \A p \in Task, q \in Queue :
       p \in Range(k.queue[q]) <=> k.status[p] \in Queued /\ k.in_queue[p] = q
  /\ \A p \in Task : k.status[p] \in Queued => k.in_queue[p] \in QueueOf(k.status[p])

Off == {"RUNNING", "EXITED"}

LEMMA TaskFacts == Task \subseteq Pcb /\ 0 \in Pcb /\ 0 \notin Task /\ Pcb = Task \cup {0}
  BY TaskAssumption DEF Task, Pcb

LEMMA QueueFacts == KernelQueue \subseteq Queue /\ Lock \subseteq Queue
                    /\ \A l \in Lock : l \notin KernelQueue
  BY LockAssumption DEF Queue

\* queue_push of a process that is in no queue.
LEMMA PushOK ==
  ASSUME NEW k, RunOK(k), NEW p \in Task, k.status[p] \notin Queued,
         NEW st \in Queued, NEW q \in QueueOf(st)
  PROVE  LET w == Push(k, p, q, st)
         IN  /\ RunOK(w)
             /\ w.status = [k.status EXCEPT ![p] = st]
             /\ \A r \in Queue \ {q} : w.queue[r] = k.queue[r]
             /\ w.queue[q] = Append(k.queue[q], p)
<1> DEFINE w == Push(k, p, q, st)
<1>0. q \in Queue
  BY QueueFacts DEF QueueOf, KernelQueue
<1>1. /\ w.queue = [k.queue EXCEPT ![q] = Append(@, p)]
      /\ w.status = [k.status EXCEPT ![p] = st]
      /\ w.in_queue = [k.in_queue EXCEPT ![p] = q]
  BY DEF Push
<1> HIDE DEF w
<1>2. /\ Append(k.queue[q], p) \in Seq(Task)
      /\ Range(Append(k.queue[q], p)) = Range(k.queue[q]) \cup {p}
      /\ IsInjective(Append(k.queue[q], p))
  BY <1>0, AppendQueue DEF RunOK
<1>3. \A r \in Queue : w.queue[r] = IF r = q THEN Append(k.queue[q], p) ELSE k.queue[r]
  BY <1>0, <1>1 DEF RunOK
<1>4. w.queue \in [Queue -> Seq(Task)]
  BY <1>0, <1>1, <1>2 DEF RunOK
<1>5. w.status \in [Pcb -> Status] /\ w.in_queue \in [Pcb -> Queue \cup {NULL}]
  BY <1>0, <1>1, TaskFacts DEF RunOK, Queued, Status
<1>6. w.status[0] = "NONE"
  BY <1>1, TaskFacts DEF RunOK
<1>7. \A r \in Queue : IsInjective(w.queue[r])
  BY <1>2, <1>3 DEF RunOK
<1>8. ASSUME NEW x \in Task, NEW r \in Queue
      PROVE  x \in Range(w.queue[r]) <=> w.status[x] \in Queued /\ w.in_queue[x] = r
  <2>1. CASE x = p
    BY <1>0, <1>1, <1>2, <1>3, <2>1, TaskFacts DEF RunOK
  <2>2. CASE x # p
    BY <1>0, <1>1, <1>2, <1>3, <2>2, TaskFacts DEF RunOK
  <2> QED
    BY <2>1, <2>2
<1>9. ASSUME NEW x \in Task, w.status[x] \in Queued
      PROVE  w.in_queue[x] \in QueueOf(w.status[x])
  BY <1>1, <1>9, TaskFacts DEF RunOK
<1>10. RunOK(w)
  BY <1>4, <1>5, <1>6, <1>7, <1>8, <1>9 DEF RunOK
<1> QED
  BY <1>1, <1>3, <1>10, <1>0 DEF w

\* The walks over sleep_queue and waitpid_queue, and do_unblock_one.
LEMMA WakeOK ==
  ASSUME NEW k, RunOK(k), NEW q \in Queue, q # "ready", NEW A
  PROVE  LET w == Wake(k, q, A)
         IN  /\ RunOK(w)
             /\ \A p \in Pcb : w.status[p] = IF p \in Range(k.queue[q]) \cap A
                                             THEN "READY" ELSE k.status[p]
             /\ Range(w.queue[q]) = Range(k.queue[q]) \ A
             /\ \A r \in Queue \ {q, "ready"} : w.queue[r] = k.queue[r]
<1> DEFINE w == Wake(k, q, A)
           woken == Range(k.queue[q]) \cap A
           rest == Keep(k.queue[q], Task \ A)
           more == Keep(k.queue[q], A)
           ready == k.queue["ready"] \o more
<1>0. "ready" \in Queue /\ k.queue[q] \in Seq(Task) /\ k.queue["ready"] \in Seq(Task)
  BY QueueFacts DEF RunOK, KernelQueue
<1>1. /\ w.queue = [k.queue EXCEPT ![q] = rest, !["ready"] = ready]
      /\ w.status = [p \in Pcb |-> IF p \in woken THEN "READY" ELSE k.status[p]]
      /\ w.in_queue = [p \in Pcb |-> IF p \in woken THEN "ready" ELSE k.in_queue[p]]
  BY DEF Wake
<1> HIDE DEF w
<1>2. Range(k.queue[q]) \subseteq Task
  BY <1>0, RangeOfSeq
<1>3. /\ rest \in Seq(Task) /\ Range(rest) = Range(k.queue[q]) \ A /\ IsInjective(rest)
      /\ more \in Seq(Task) /\ Range(more) = woken /\ IsInjective(more)
  <2>1. IsInjective(k.queue[q])
    BY DEF RunOK
  <2>2. Range(rest) = Range(k.queue[q]) \cap (Task \ A) /\ rest \in Seq(Task) /\ IsInjective(rest)
    BY <1>0, <2>1, KeepProperties
  <2>3. more \in Seq(Task) /\ Range(more) = woken /\ IsInjective(more)
    BY <1>0, <2>1, KeepProperties
  <2> QED
    BY <1>2, <2>2, <2>3
<1> HIDE DEF rest, more
<1>4. Range(k.queue["ready"]) \cap Range(k.queue[q]) = {}
  <2> SUFFICES ASSUME NEW p \in Task, p \in Range(k.queue["ready"]), p \in Range(k.queue[q])
               PROVE  FALSE
    BY <1>2
  <2> QED
    BY <1>0 DEF RunOK
<1>5. /\ ready \in Seq(Task) /\ IsInjective(ready)
      /\ Range(ready) = Range(k.queue["ready"]) \cup woken
  <2>1. IsInjective(k.queue["ready"])
    BY <1>0 DEF RunOK
  <2>2. Range(k.queue["ready"]) \cap Range(more) = {}
    BY <1>3, <1>4
  <2> QED
    BY <1>0, <1>3, <2>1, <2>2, ConcatQueue
<1> HIDE DEF ready
<1>6. \A r \in Queue : w.queue[r] = IF r = "ready" THEN ready
                                    ELSE IF r = q THEN rest ELSE k.queue[r]
  BY <1>0, <1>1 DEF RunOK
<1>7. w.queue \in [Queue -> Seq(Task)]
  <2>1. w.queue = [r \in Queue |-> IF r = "ready" THEN ready
                                   ELSE IF r = q THEN rest ELSE k.queue[r]]
    BY <1>1, <1>0 DEF RunOK
  <2>2. \A r \in Queue : k.queue[r] \in Seq(Task)
    BY DEF RunOK
  <2> QED
    BY <1>3, <1>5, <2>1, <2>2
<1>8. /\ w.status \in [Pcb -> Status]
      /\ w.in_queue \in [Pcb -> Queue \cup {NULL}]
      /\ w.status[0] = "NONE"
  <2>1. \A p \in woken : p \in Task
    BY <1>2
  <2>2. w.status \in [Pcb -> Status] /\ w.in_queue \in [Pcb -> Queue \cup {NULL}]
    BY <1>0, <1>1 DEF RunOK, Status
  <2>3. 0 \notin woken
    BY <2>1, TaskFacts
  <2> QED
    BY <1>1, <2>2, <2>3, TaskFacts DEF RunOK
<1>9. \A r \in Queue : IsInjective(w.queue[r])
  BY <1>3, <1>5, <1>6 DEF RunOK
<1>10. ASSUME NEW x \in Task, NEW r \in Queue
       PROVE  x \in Range(w.queue[r]) <=> w.status[x] \in Queued /\ w.in_queue[x] = r
  <2>1. CASE x \in woken
    <3>1. w.status[x] \in Queued /\ w.in_queue[x] = "ready"
      BY <1>1, <2>1, TaskFacts DEF Queued
    <3>2. CASE r = "ready"
      BY <1>5, <1>6, <2>1, <3>1, <3>2
    <3>3. CASE r = q
      BY <1>3, <1>6, <2>1, <3>1, <3>3
    <3>4. CASE r # q /\ r # "ready"
      <4>1. k.in_queue[x] = q
        BY <2>1 DEF RunOK
      <4>2. x \notin Range(k.queue[r])
        BY <3>4, <4>1 DEF RunOK
      <4> QED
        BY <1>6, <3>1, <3>4, <4>2
    <3> QED
      BY <3>2, <3>3, <3>4
  <2>2. CASE x \notin woken
    <3>1. w.status[x] = k.status[x] /\ w.in_queue[x] = k.in_queue[x]
      BY <1>1, <2>2, TaskFacts
    <3>2. x \in Range(w.queue[r]) <=> x \in Range(k.queue[r])
      BY <1>3, <1>5, <1>6, <2>2
    <3> QED
      BY <3>1, <3>2 DEF RunOK
  <2> QED
    BY <2>1, <2>2
<1>11. ASSUME NEW x \in Task, w.status[x] \in Queued
       PROVE  w.in_queue[x] \in QueueOf(w.status[x])
  <2>1. CASE x \in woken
    BY <1>1, <2>1, TaskFacts DEF QueueOf
  <2>2. CASE x \notin woken
    <3>1. w.status[x] = k.status[x] /\ w.in_queue[x] = k.in_queue[x]
      BY <1>1, <2>2, TaskFacts
    <3> QED
      BY <1>11, <3>1 DEF RunOK
  <2> QED
    BY <2>1, <2>2
<1>12. RunOK(w)
  BY <1>7, <1>8, <1>9, <1>10, <1>11 DEF RunOK
<1>13. \A p \in Pcb : w.status[p] = IF p \in woken THEN "READY" ELSE k.status[p]
  BY <1>1
<1> QED
  BY <1>3, <1>6, <1>12, <1>13 DEF w

\* A status that is not a queued one is replaced by another such status.
LEMMA StatusOK ==
  ASSUME NEW k, RunOK(k), NEW p \in Task, k.status[p] \notin Queued,
         NEW st \in Status \ Queued
  PROVE  RunOK(SetStatus(k, p, st))
  BY TaskFacts DEF RunOK, SetStatus

\* queue_remove of a process from the queue its in_queue names, as in do_kill.
LEMMA UnlinkOK ==
  ASSUME NEW k, RunOK(k), NEW p \in Task, k.status[p] \in Queued
  PROVE  LET w == Unlink(k, p)
         IN  /\ RunOK(w)
             /\ w.status = [k.status EXCEPT ![p] = "EXITED"]
             /\ \A q \in Queue : Range(w.queue[q]) = Range(k.queue[q]) \ {p}
<1> DEFINE q == k.in_queue[p]
           w == Unlink(k, p)
<1>0. q \in Queue /\ p \in Range(k.queue[q]) /\ k.queue[q] \in Seq(Task)
      /\ IsInjective(k.queue[q])
  <2>1. q \in QueueOf(k.status[p])
    BY DEF RunOK
  <2>2. q \in Queue
    BY <2>1, QueueFacts DEF QueueOf, KernelQueue
  <2> QED
    BY <2>2 DEF RunOK
<1> DEFINE s == Without(k.queue[q], p)
<1>1. s \in Seq(Task) /\ Range(s) = Range(k.queue[q]) \ {p} /\ IsInjective(s)
  BY <1>0, WithoutProperties
<1>2. /\ w.queue = [k.queue EXCEPT ![q] = s]
      /\ w.status = [k.status EXCEPT ![p] = "EXITED"]
      /\ w.in_queue = k.in_queue
  BY DEF Unlink
<1> HIDE DEF w, s
<1>3. \A r \in Queue : w.queue[r] = IF r = q THEN s ELSE k.queue[r]
  BY <1>0, <1>2 DEF RunOK
<1>4. \A r \in Queue \ {q} : p \notin Range(k.queue[r])
  BY DEF RunOK
<1>5. \A r \in Queue : Range(w.queue[r]) = Range(k.queue[r]) \ {p}
  BY <1>1, <1>3, <1>4
<1>6. w.queue \in [Queue -> Seq(Task)]
  BY <1>0, <1>1, <1>2 DEF RunOK
<1>7. w.status \in [Pcb -> Status] /\ w.in_queue \in [Pcb -> Queue \cup {NULL}]
      /\ w.status[0] = "NONE"
  BY <1>2, TaskFacts DEF RunOK, Status
<1>8. \A r \in Queue : IsInjective(w.queue[r])
  BY <1>1, <1>3 DEF RunOK
<1>9. ASSUME NEW x \in Task, NEW r \in Queue
      PROVE  x \in Range(w.queue[r]) <=> w.status[x] \in Queued /\ w.in_queue[x] = r
  <2>0. x \in Range(w.queue[r]) <=> x \in Range(k.queue[r]) /\ x # p
    BY <1>5
  <2>1. CASE x = p
    <3>1. w.status[x] = "EXITED"
      BY <1>2, <2>1, TaskFacts DEF RunOK
    <3> QED
      BY <2>0, <2>1, <3>1 DEF Queued
  <2>2. CASE x # p
    <3>1. w.status[x] = k.status[x] /\ w.in_queue[x] = k.in_queue[x]
      BY <1>2, <2>2, TaskFacts DEF RunOK
    <3> QED
      BY <2>0, <2>2, <3>1 DEF RunOK
  <2> QED
    BY <2>1, <2>2
<1>10. ASSUME NEW x \in Task, w.status[x] \in Queued
       PROVE  w.in_queue[x] \in QueueOf(w.status[x])
  <2>1. x # p
    BY <1>2, <1>10, TaskFacts DEF RunOK, Queued
  <2> QED
    BY <1>2, <1>10, <2>1, TaskFacts DEF RunOK
<1>11. RunOK(w)
  BY <1>6, <1>7, <1>8, <1>9, <1>10 DEF RunOK
<1> QED
  BY <1>2, <1>5, <1>11 DEF w

\* A handler that stores the run state k leaves the variables in that state.
LEMMA ResumeOK ==
  ASSUME NEW k, RunOK(k), Resume(k)
  PROVE  RunOK(RunState)' /\ status' = k.status /\ queue' = k.queue /\ in_queue' = k.in_queue
  BY DEF Resume, RunOK, RunState

\* The end of scheduler(): either no process is ready, or a ready one runs.
LEMMA DispatchOK ==
  ASSUME NEW k, RunOK(k), Dispatch(k)
  PROVE  /\ RunOK(RunState)'
         /\ \A q \in Queue \ {"ready"} : queue'[q] = k.queue[q]
         /\ \/ /\ k.queue["ready"] = <<>>
               /\ panic' = "no_ready"
               /\ status' = k.status
               /\ current_running' = current_running
            \/ \E p \in Task : /\ k.status[p] = "READY"
                               /\ current_running' = p
                               /\ status' = [k.status EXCEPT ![p] = "RUNNING"]
                               /\ panic' = panic
<1>0. "ready" \in Queue /\ k.queue["ready"] \in Seq(Task)
  BY QueueFacts DEF RunOK, KernelQueue
<1>1. CASE k.queue["ready"] = <<>>
  <2>1. Resume(k)
    BY <1>1 DEF Dispatch, Resume
  <2> QED
    BY <1>1, <2>1, ResumeOK DEF Dispatch
<1>2. CASE k.queue["ready"] # <<>>
  <2> DEFINE p == Head(k.queue["ready"])
             s == Tail(k.queue["ready"])
  <2>1. /\ queue' = [k.queue EXCEPT !["ready"] = s]
        /\ status' = [k.status EXCEPT ![p] = "RUNNING"]
        /\ in_queue' = [k.in_queue EXCEPT ![p] = NULL]
        /\ current_running' = p
        /\ panic' = panic
    BY <1>2 DEF Dispatch
  <2>2. IsInjective(k.queue["ready"])
    BY <1>0 DEF RunOK
  <2>3. /\ p \in Range(k.queue["ready"]) /\ p \in Task /\ s \in Seq(Task)
        /\ Range(s) = Range(k.queue["ready"]) \ {p} /\ IsInjective(s)
    BY <1>0, <1>2, <2>2, TailQueue
  <2> HIDE DEF p, s
  <2>4. k.status[p] \in Queued /\ k.in_queue[p] = "ready"
    BY <1>0, <2>3 DEF RunOK
  <2>5. k.status[p] = "READY"
    BY <2>3, <2>4, LockAssumption DEF RunOK, Queued, QueueOf, KernelQueue
  <2>6. \A r \in Queue : queue'[r] = IF r = "ready" THEN s ELSE k.queue[r]
    BY <1>0, <2>1 DEF RunOK
  <2>7. \A r \in Queue : Range(queue'[r]) = Range(k.queue[r]) \ {p}
    BY <2>3, <2>4, <2>6 DEF RunOK
  <2>8. queue' \in [Queue -> Seq(Task)]
    BY <1>0, <2>1, <2>3 DEF RunOK
  <2>9. status' \in [Pcb -> Status] /\ in_queue' \in [Pcb -> Queue \cup {NULL}]
        /\ status'[0] = "NONE"
    BY <2>1, <2>3, TaskFacts DEF RunOK, Status
  <2>10. \A r \in Queue : IsInjective(queue'[r])
    BY <2>3, <2>6 DEF RunOK
  <2>11. ASSUME NEW x \in Task, NEW r \in Queue
         PROVE  x \in Range(queue'[r]) <=> status'[x] \in Queued /\ in_queue'[x] = r
    <3>0. x \in Range(queue'[r]) <=> x \in Range(k.queue[r]) /\ x # p
      BY <2>7
    <3>1. CASE x = p
      <4>1. status'[x] = "RUNNING"
        BY <2>1, <3>1, TaskFacts DEF RunOK
      <4> QED
        BY <3>0, <3>1, <4>1 DEF Queued
    <3>2. CASE x # p
      <4>1. status'[x] = k.status[x] /\ in_queue'[x] = k.in_queue[x]
        BY <2>1, <3>2, TaskFacts DEF RunOK
      <4> QED
        BY <3>0, <3>2, <4>1 DEF RunOK
    <3> QED
      BY <3>1, <3>2
  <2>12. ASSUME NEW x \in Task, status'[x] \in Queued
         PROVE  in_queue'[x] \in QueueOf(status'[x])
    <3>1. x # p
      BY <2>1, <2>12, TaskFacts DEF RunOK, Queued
    <3> QED
      BY <2>1, <2>12, <3>1, TaskFacts DEF RunOK
  <2>13. RunOK(RunState)'
    BY <2>8, <2>9, <2>10, <2>11, <2>12 DEF RunOK, RunState
  <2> QED
    BY <2>1, <2>3, <2>5, <2>6, <2>13
<1> QED
  BY <1>1, <1>2
-----------------------------------------------------------------------------
(***************************************************************************)
(* The inductive invariant.                                                *)
(***************************************************************************)

\* Who is off the queues: the running process, and the one being freed.
RunnerInv ==
  /\ freeing = NotFreeing =>
       /\ \A p \in Task : status[p] \in Off => p = current_running
       /\ panic # "no_ready" /\ current_running # 0 => status[current_running] \in Off
  /\ freeing # NotFreeing =>
       /\ panic = "none"
       /\ current_running \in Task /\ freeing.victim \in Task
       /\ status[freeing.victim] = "EXITED"
       /\ freeing.then = "return" =>
            freeing.victim # current_running /\ status[current_running] = "RUNNING"
       /\ freeing.then # "return" => freeing.victim = current_running
       /\ \A p \in Task : status[p] \in Off => p = current_running \/ p = freeing.victim

\* Slots and stacks are both allocated lowest first and freed together, so slot p
\* always has stack p.  This is why a free slot implies a free stack.
StackInv ==
  /\ panic # "no_stack"
  /\ \A p \in Task : status[p] # "NONE" => kernel_sp[p] = p
  /\ \A p \in Task : kernel_stack_used[p] <=> status[p] # "NONE" /\ p # freeing.victim

PidInv == PidsUnique /\ pid[0] = 0

WaitInv == WaitersHaveTarget

\* The shell neither sleeps nor blocks.
ShellInv ==
  /\ \A p \in Task : pid[p] = 1 => status[p] \in {"READY", "RUNNING", "EXITED"}
  /\ ShellKeepsReady

SchedInv ==
  TypeOK /\ RunOK(RunState) /\ RunnerInv /\ StackInv /\ PidInv /\ WaitInv /\ ShellInv

LEMMA InitSchedInv == Init => SchedInv
<1> SUFFICES ASSUME Init
             PROVE  SchedInv
  OBVIOUS
<1> USE TaskFacts DEF Init
<1>0. 1 \in Task /\ "ready" \in Queue /\ <<1>> \in Seq(Task) /\ <<>> \in Seq(Task)
      /\ Range(<<1>>) = {1} /\ Range(<<>>) = {}
      /\ IsInjective(<<1>>) /\ IsInjective(<<>>)
  <2>1. 1 \in Task /\ "ready" \in Queue
    BY TaskAssumption DEF Task, Queue, KernelQueue
  <2>2. <<1>> \in Seq(Task) /\ <<>> \in Seq(Task)
    BY <2>1
  <2>3. Range(<<1>>) = {1} /\ Range(<<>>) = {}
    BY DEF Range
  <2> QED
    BY <2>1, <2>2, <2>3 DEF IsInjective
<1>1. TypeOK
  BY <1>0, TaskAssumption, LockAssumption, TimeAssumption
     DEF TypeOK, Status, Panic, Stage, NotFreeing, Slot
<1>2. RunOK(RunState)
  <2>1. /\ queue \in [Queue -> Seq(Task)] /\ status \in [Pcb -> Status]
        /\ in_queue \in [Pcb -> Queue \cup {NULL}] /\ status[0] = "NONE"
    BY <1>0, <1>1 DEF TypeOK
  <2>2. \A q \in Queue : IsInjective(queue[q])
    BY <1>0
  <2>3. \A x \in Task, q \in Queue :
          x \in Range(queue[q]) <=> status[x] \in Queued /\ in_queue[x] = q
    BY <1>0, LockAssumption DEF Queued
  <2>4. \A x \in Task : status[x] \in Queued => in_queue[x] \in QueueOf(status[x])
    BY <1>0 DEF Queued, QueueOf
  <2> QED
    BY <2>1, <2>2, <2>3, <2>4 DEF RunOK, RunState
<1>3. RunnerInv
  BY <1>0 DEF RunnerInv, Off
<1>4. StackInv
  BY <1>0 DEF StackInv, NotFreeing
<1>5. PidInv
  BY <1>0 DEF PidInv, PidsUnique
<1>6. WaitInv
  BY <1>0, QueueFacts DEF WaitInv, WaitersHaveTarget
<1>7. ShellInv
  BY <1>0 DEF ShellInv, ShellKeepsReady
<1> QED
  BY <1>1, <1>2, <1>3, <1>4, <1>5, <1>6, <1>7 DEF SchedInv

\* The parts of a run state k from which a handler may dispatch: nobody is left off
\* the queues, and free slots stay free.
Settled(k) ==
  /\ RunOK(k)
  /\ \A p \in Task : k.status[p] \notin Off
  /\ \A p \in Task : k.status[p] = "NONE" <=> status[p] = "NONE"

\* check_sleeping touches only sleeping processes.
LEMMA CheckSleepingOK ==
  ASSUME NEW k, RunOK(k), NEW until, NEW now
  PROVE  LET w == check_sleeping(k, until, now)
         IN  /\ RunOK(w)
             /\ \A p \in Pcb : \/ w.status[p] = k.status[p]
                               \/ w.status[p] = "READY" /\ k.status[p] = "SLEEPING"
             /\ \A q \in Queue \ {"sleep", "ready"} : w.queue[q] = k.queue[q]
<1> DEFINE A == {p \in Task : until[p] < now}
           w == Wake(k, "sleep", A)
<1>0. "sleep" \in Queue
  BY QueueFacts DEF KernelQueue
<1>1. /\ RunOK(w)
      /\ \A p \in Pcb : w.status[p] = IF p \in Range(k.queue["sleep"]) \cap A
                                      THEN "READY" ELSE k.status[p]
      /\ \A q \in Queue \ {"sleep", "ready"} : w.queue[q] = k.queue[q]
  <2> HIDE DEF A
  <2> QED
    BY <1>0, WakeOK
<1>2. ASSUME NEW p \in Range(k.queue["sleep"]) \cap A
      PROVE  k.status[p] = "SLEEPING"
  <2>1. p \in Task /\ k.status[p] \in Queued /\ k.in_queue[p] = "sleep"
    BY <1>0, <1>2 DEF RunOK
  <2> QED
    BY <2>1, LockAssumption DEF RunOK, Queued, QueueOf, KernelQueue
<1> QED
  BY <1>1, <1>2 DEF check_sleeping

\* The end of scheduler() when nobody is left off the queues.
LEMMA DispatchSettled ==
  ASSUME NEW k, RunOK(k), \A p \in Task : k.status[p] \notin Off,
         Dispatch(k), panic = "none", current_running \in Pcb,
         freeing' = NotFreeing
  PROVE  /\ RunOK(RunState)' /\ RunnerInv'
         /\ current_running' \in Pcb
         /\ panic' \in {"none", "no_ready"}
         /\ \A p \in Task : status'[p] = "NONE" <=> k.status[p] = "NONE"
         /\ \A p \in Task : k.status[p] = "READY" => status'[p] \in {"READY", "RUNNING"}
         /\ panic' = "no_ready" => \A p \in Task : k.status[p] # "READY"
         /\ \A q \in Queue \ {"ready"} : queue'[q] = k.queue[q]
<1>1. RunOK(RunState)' /\ \A q \in Queue \ {"ready"} : queue'[q] = k.queue[q]
  BY DispatchOK
<1>2. CASE /\ k.queue["ready"] = <<>>
           /\ panic' = "no_ready"
           /\ status' = k.status
           /\ current_running' = current_running
  <2>1. Range(<<>>) = {} /\ "ready" \in Queue
    BY QueueFacts DEF Range, KernelQueue
  <2>2. \A p \in Task : k.status[p] # "READY"
    BY <1>2, <2>1 DEF RunOK, Queued, QueueOf
  <2>3. RunnerInv'
    BY <1>2 DEF RunnerInv
  <2> QED
    BY <1>1, <1>2, <2>2, <2>3
<1>3. ASSUME NEW p \in Task, k.status[p] = "READY", current_running' = p,
             status' = [k.status EXCEPT ![p] = "RUNNING"], panic' = panic
      PROVE  /\ RunnerInv' /\ current_running' \in Pcb /\ panic' = "none"
             /\ \A x \in Task : status'[x] = "NONE" <=> k.status[x] = "NONE"
             /\ \A x \in Task : k.status[x] = "READY" => status'[x] \in {"READY", "RUNNING"}
  <2>1. \A x \in Task : status'[x] = IF x = p THEN "RUNNING" ELSE k.status[x]
    BY <1>3, TaskFacts DEF RunOK
  <2> QED
    BY <1>3, <2>1, TaskFacts DEF RunnerInv, Off
<1> QED
  BY <1>1, <1>2, <1>3, DispatchOK

\* A handler that ends in a process switch and leaves pids, stacks and locks alone.
LEMMA SwitchInv ==
  ASSUME SchedInv, NEW k, Settled(k), Dispatch(k),
         panic = "none", freeing = NotFreeing,
         \A p \in Task : pid[p] = 1 => k.status[p] = "READY",
         \A p \in Task : p \in Range(k.queue["waitpid"]) /\ waitpid'[p] # 0 =>
                           \E r \in Task : pid[r] = waitpid'[p],
         waitpid' \in [Pcb -> Nat], sleep_until' \in [Pcb -> 0..(TimeMod - 1)],
         time_elapsed' \in Nat, UNCHANGED <<stack, locks, ids, freeing>>
  PROVE  SchedInv'
<1>0. /\ kernel_sp' = kernel_sp /\ kernel_stack_used' = kernel_stack_used
      /\ pid' = pid /\ next_pid' = next_pid /\ freeing' = freeing
      /\ locks_got' = locks_got /\ lock_status' = lock_status
      /\ holders' = holders /\ tainted' = tainted
  BY DEF stack, locks, ids
<1>1. /\ RunOK(RunState)' /\ RunnerInv' /\ current_running' \in Pcb
      /\ panic' \in {"none", "no_ready"}
      /\ \A p \in Task : status'[p] = "NONE" <=> status[p] = "NONE"
      /\ \A p \in Task : k.status[p] = "READY" => status'[p] \in {"READY", "RUNNING"}
      /\ panic' = "no_ready" => \A p \in Task : k.status[p] # "READY"
      /\ \A q \in Queue \ {"ready"} : queue'[q] = k.queue[q]
  <2>1. RunOK(k) /\ \A p \in Task : k.status[p] \notin Off
    BY DEF Settled
  <2>2. current_running \in Pcb /\ freeing' = NotFreeing
    BY <1>0 DEF SchedInv, TypeOK
  <2> QED
    BY <2>1, <2>2, DispatchSettled DEF Settled
<1>2. TypeOK'
  <2>1. /\ status' \in [Pcb -> Status] /\ in_queue' \in [Pcb -> Queue \cup {NULL}]
        /\ queue' \in [Queue -> Seq(Task)]
    BY <1>1 DEF RunOK, RunState
  <2>2. panic' \in Panic
    BY <1>1 DEF Panic
  <2>3. TypeOK
    BY DEF SchedInv
  <2>4. /\ pid' \in [Pcb -> Nat] /\ next_pid' \in Nat \ {0}
        /\ kernel_sp' \in [Pcb -> Pcb] /\ kernel_stack_used' \in [Pcb -> BOOLEAN]
        /\ freeing' \in [victim : Pcb, slot : 0..MaxLock, then : Stage]
    BY <1>0, <2>3 DEF TypeOK
  <2>5. /\ locks_got' \in [Pcb -> [Slot -> Lock \cup {NULL}]]
        /\ lock_status' \in [Lock -> {"LOCKED", "UNLOCKED"}]
        /\ holders' \in [Lock -> SUBSET Task] /\ tainted' \in [Lock -> BOOLEAN]
    BY <1>0, <2>3 DEF TypeOK
  <2> QED
    BY <1>1, <2>1, <2>2, <2>4, <2>5 DEF TypeOK
<1>3. StackInv'
  BY <1>0, <1>1 DEF SchedInv, StackInv
<1>4. PidInv'
  BY <1>0, <1>1 DEF SchedInv, PidInv, PidsUnique
<1>5. WaitInv'
  <2>1. queue'["waitpid"] = k.queue["waitpid"]
    BY <1>1, QueueFacts DEF KernelQueue
  <2> QED
    BY <1>0, <2>1 DEF WaitInv, WaitersHaveTarget
<1>6. ShellInv'
  BY <1>0, <1>1 DEF ShellInv, ShellKeepsReady
<1> QED
  BY <1>1, <1>2, <1>3, <1>4, <1>5, <1>6 DEF SchedInv

\* The run state before the switch when the running process stays ready.
LEMMA PreemptSettled ==
  ASSUME SchedInv, panic = "none", freeing = NotFreeing,
         current_running = 0 \/ status[current_running] = "RUNNING", NEW now
  PROVE  LET k == Preempt(check_sleeping(RunState, sleep_until, now))
         IN  /\ Settled(k)
             /\ \A p \in Task : pid[p] = 1 => k.status[p] = "READY"
             /\ \A q \in Queue \ {"sleep", "ready"} : k.queue[q] = queue[q]
<1> DEFINE w == check_sleeping(RunState, sleep_until, now)
           k == Preempt(w)
<1>0. RunState.queue = queue /\ RunState.status = status /\ RunState.in_queue = in_queue
  BY DEF RunState
<1>1. /\ RunOK(w)
      /\ \A p \in Pcb : \/ w.status[p] = status[p]
                        \/ w.status[p] = "READY" /\ status[p] = "SLEEPING"
      /\ \A q \in Queue \ {"sleep", "ready"} : w.queue[q] = queue[q]
  BY <1>0, CheckSleepingOK DEF SchedInv
<1> HIDE DEF w
<1>2. CASE current_running = 0
  <2>1. k = w
    BY <1>2 DEF SchedInv, PidInv, Preempt
  <2>2. \A p \in Task : status[p] \notin Off
    BY <1>2, TaskFacts DEF SchedInv, RunnerInv
  <2> QED
    <3>1. \A p \in Task : w.status[p] = status[p] \/ (w.status[p] = "READY" /\ status[p] = "SLEEPING")
      BY <1>1, TaskFacts
    <3>2. Settled(w)
      BY <1>1, <2>2, <3>1 DEF Settled, Off
    <3>3. \A p \in Task : pid[p] = 1 => status[p] = "READY"
      BY <2>2 DEF SchedInv, ShellInv, Off
    <3>4. \A p \in Task : pid[p] = 1 => w.status[p] = "READY"
      BY <3>1, <3>3
    <3> HIDE DEF k
    <3>5. /\ Settled(k)
          /\ \A p \in Task : pid[p] = 1 => k.status[p] = "READY"
          /\ \A q \in Queue \ {"sleep", "ready"} : k.queue[q] = queue[q]
      BY <1>1, <2>1, <3>2, <3>4
    <3> QED
      BY <3>5 DEF k, w
<1>3. CASE status[current_running] = "RUNNING" /\ current_running # 0
  <2>1. current_running \in Task /\ pid[current_running] # 0
    BY <1>3, TaskFacts DEF SchedInv, TypeOK, PidInv, PidsUnique
  <2>2. w.status[current_running] = "RUNNING"
    BY <1>1, <1>3, <2>1, TaskFacts
  <2>3. k = Push(w, current_running, "ready", "READY")
    BY <2>1, <2>2 DEF Preempt
  <2>4. /\ RunOK(k)
        /\ k.status = [w.status EXCEPT ![current_running] = "READY"]
        /\ \A q \in Queue \ {"ready"} : k.queue[q] = w.queue[q]
    <3>1. w.status[current_running] \notin Queued /\ "READY" \in Queued
          /\ "ready" \in QueueOf("READY")
      BY <2>2 DEF Queued, QueueOf
    <3> HIDE DEF k
    <3> QED
      BY <1>1, <2>1, <2>3, <3>1, PushOK
  <2> HIDE DEF k
  <2>5. \A p \in Task : k.status[p] = IF p = current_running THEN "READY" ELSE w.status[p]
    BY <1>1, <2>1, <2>4, TaskFacts DEF RunOK
  <2>6. \A p \in Task : status[p] \in Off => p = current_running
    BY DEF SchedInv, RunnerInv
  <2>7. Settled(k)
    BY <1>1, <1>3, <2>4, <2>5, <2>6, TaskFacts DEF Settled, Off
  <2>8. \A p \in Task : pid[p] = 1 => k.status[p] = "READY"
    BY <1>1, <2>5, <2>6, TaskFacts DEF SchedInv, ShellInv, Off
  <2>9. \A q \in Queue \ {"sleep", "ready"} : k.queue[q] = queue[q]
    BY <1>1, <2>4
  <2> QED
    BY <2>7, <2>8, <2>9 DEF k, w
<1> QED
  BY <1>2, <1>3, TaskFacts DEF SchedInv, RunOK, RunState

\* The run state before the switch when the running process goes to sleep or blocks.
LEMMA BlockSettled ==
  ASSUME SchedInv, panic = "none", freeing = NotFreeing,
         status[current_running] = "RUNNING", pid[current_running] # 1,
         NEW st \in Queued \ {"READY"}, NEW q \in QueueOf(st), NEW until, NEW now
  PROVE  LET k == check_sleeping(Push(RunState, current_running, q, st), until, now)
         IN  /\ Settled(k)
             /\ \A p \in Task : pid[p] = 1 => k.status[p] = "READY"
             /\ \A r \in Queue \ {"sleep", "ready"} :
                  k.queue[r] = IF r = q THEN Append(queue[r], current_running) ELSE queue[r]
<1> DEFINE w == Push(RunState, current_running, q, st)
           k == check_sleeping(w, until, now)
<1>0. RunState.queue = queue /\ RunState.status = status /\ RunState.in_queue = in_queue
  BY DEF RunState
<1>1. current_running \in Task
  BY TaskFacts DEF SchedInv, TypeOK, RunOK, RunState
<1>2. /\ RunOK(w) /\ w.status = [status EXCEPT ![current_running] = st]
      /\ \A r \in Queue \ {q} : w.queue[r] = queue[r]
      /\ w.queue[q] = Append(queue[q], current_running)
  <2>1. RunOK(RunState) /\ RunState.status[current_running] \notin Queued /\ st \in Queued
    BY <1>0 DEF SchedInv, Queued
  <2> QED
    BY <1>0, <1>1, <2>1, PushOK
<1> HIDE DEF w
<1>3. /\ RunOK(k)
      /\ \A p \in Pcb : \/ k.status[p] = w.status[p]
                        \/ k.status[p] = "READY" /\ w.status[p] = "SLEEPING"
      /\ \A r \in Queue \ {"sleep", "ready"} : k.queue[r] = w.queue[r]
  BY <1>2, CheckSleepingOK
<1> HIDE DEF k
<1>4. \A p \in Task : w.status[p] = IF p = current_running THEN st ELSE status[p]
  BY <1>1, <1>2, TaskFacts DEF SchedInv, TypeOK
<1>5. \A p \in Task : status[p] \in Off => p = current_running
  BY DEF SchedInv, RunnerInv
<1>6. Settled(k)
  BY <1>3, <1>4, <1>5, TaskFacts DEF Settled, Off, Queued
<1>7. \A p \in Task : pid[p] = 1 => k.status[p] = "READY"
  BY <1>3, <1>4, <1>5, TaskFacts DEF SchedInv, ShellInv, Off
<1>8. \A r \in Queue \ {"sleep", "ready"} :
        k.queue[r] = IF r = q THEN Append(queue[r], current_running) ELSE queue[r]
  BY <1>2, <1>3
<1> QED
  BY <1>6, <1>7, <1>8 DEF k, w

\* The clock has the type of an unsigned integer.
LEMMA LaterType == ASSUME time_elapsed \in Nat, NEW n \in Nat
                   PROVE  Later(n) \in Nat
<1>1. TimeMod * TicksPerUnit \in Nat /\ TimeMod * TicksPerUnit > 0
  BY TimeAssumption
<1> DEFINE M == TimeMod * TicksPerUnit
<1> HIDE DEF M
<1>2. (time_elapsed + n) % M \in Nat
  BY <1>1 DEF M
<1> QED
  BY <1>2 DEF Later, M

LEMMA UIntType == ASSUME NEW t \in Int
                  PROVE  uint32(t) \in 0..(TimeMod - 1)
  BY TimeAssumption DEF uint32

\* Handlers after which the running process stays ready.
LEMMA PreemptInv ==
  ASSUME SchedInv, panic = "none", freeing = NotFreeing,
         current_running = 0 \/ status[current_running] = "RUNNING",
         NEW now, scheduler(RunState, now), time_elapsed' \in Nat,
         UNCHANGED <<stack, locks, ids, sleep_until, waitpid, freeing>>
  PROVE  SchedInv'
<1> DEFINE k == Preempt(check_sleeping(RunState, sleep_until, now))
<1>1. /\ Settled(k)
      /\ \A p \in Task : pid[p] = 1 => k.status[p] = "READY"
      /\ k.queue["waitpid"] = queue["waitpid"]
  BY PreemptSettled, QueueFacts DEF KernelQueue
<1>2. Dispatch(k)
  BY DEF scheduler
<1> HIDE DEF k
<1>3. sleep_until' \in [Pcb -> 0..(TimeMod - 1)] /\ waitpid' \in [Pcb -> Nat]
      /\ waitpid' = waitpid
  BY DEF SchedInv, TypeOK
<1>4. \A p \in Task : p \in Range(k.queue["waitpid"]) /\ waitpid'[p] # 0 =>
                        \E r \in Task : pid[r] = waitpid'[p]
  BY <1>1, <1>3 DEF SchedInv, WaitInv, WaitersHaveTarget
<1> QED
  BY <1>1, <1>2, <1>3, <1>4, SwitchInv

LEMMA BootLoopInv == SchedInv /\ BootLoop => SchedInv'
  BY PreemptInv DEF BootLoop, Idle, SchedInv, TypeOK

LEMMA TimerInterruptInv == SchedInv /\ irq_timer => SchedInv'
<1> SUFFICES ASSUME SchedInv, irq_timer
             PROVE  SchedInv'
  OBVIOUS
<1>1. time_elapsed' \in Nat
  BY LaterType DEF irq_timer, SchedInv, TypeOK
<1> QED
  BY <1>1, PreemptInv DEF irq_timer, Idle

LEMMA YieldInv == SchedInv /\ do_scheduler => SchedInv'
  BY PreemptInv DEF do_scheduler, InCall, Idle, SchedInv, TypeOK

LEMMA SleepInv == ASSUME SchedInv, NEW n \in 0..MaxSleep, do_sleep(n)
                  PROVE  SchedInv'
<1> DEFINE k == check_sleeping(Push(RunState, current_running, "sleep", "SLEEPING"),
                               sleep_until', get_timer(time_elapsed))
<1>0. /\ panic = "none" /\ freeing = NotFreeing
      /\ status[current_running] = "RUNNING" /\ pid[current_running] # 1
      /\ UNCHANGED <<stack, locks, ids, waitpid, time_elapsed, freeing>>
  BY DEF do_sleep, InCall, Idle, ShellCall
<1>1. /\ Settled(k)
      /\ \A p \in Task : pid[p] = 1 => k.status[p] = "READY"
      /\ k.queue["waitpid"] = queue["waitpid"]
  BY <1>0, BlockSettled, QueueFacts DEF Queued, QueueOf, KernelQueue
<1>2. Dispatch(k)
  BY DEF do_sleep
<1> HIDE DEF k
<1>3. sleep_until' \in [Pcb -> 0..(TimeMod - 1)]
  <2>1. get_timer(time_elapsed) + n \in Int
    BY TimeAssumption DEF SchedInv, TypeOK, get_timer
  <2> QED
    BY <2>1, UIntType DEF do_sleep, SchedInv, TypeOK
<1>4. waitpid' \in [Pcb -> Nat] /\ waitpid' = waitpid /\ time_elapsed' \in Nat
  BY <1>0 DEF SchedInv, TypeOK
<1>5. \A p \in Task : p \in Range(k.queue["waitpid"]) /\ waitpid'[p] # 0 =>
                        \E r \in Task : pid[r] = waitpid'[p]
  BY <1>1, <1>4 DEF SchedInv, WaitInv, WaitersHaveTarget
<1> QED
  BY <1>0, <1>1, <1>2, <1>3, <1>4, <1>5, SwitchInv

LEMMA WaitpidInv == ASSUME SchedInv, NEW t \in 0..MaxPid, do_waitpid(t)
                    PROVE  SchedInv'
<1> DEFINE k == check_sleeping(Push(RunState, current_running, "waitpid", "BLOCKED"),
                               sleep_until, get_timer(time_elapsed))
<1>0. /\ panic = "none" /\ freeing = NotFreeing
      /\ status[current_running] = "RUNNING" /\ pid[current_running] # 1
      /\ UNCHANGED <<stack, locks, ids, sleep_until, time_elapsed, freeing>>
      /\ waitpid' = [waitpid EXCEPT ![current_running] = t]
      /\ \E p \in Pcb : pid[p] = t
  BY DEF do_waitpid, InCall, Idle, ShellCall
<1>1. /\ Settled(k)
      /\ \A p \in Task : pid[p] = 1 => k.status[p] = "READY"
      /\ k.queue["waitpid"] = Append(queue["waitpid"], current_running)
  <2>1. "BLOCKED" \in Queued \ {"READY"} /\ "waitpid" \in QueueOf("BLOCKED")
        /\ "waitpid" \in Queue \ {"sleep", "ready"}
    BY QueueFacts DEF Queued, QueueOf, KernelQueue
  <2>2. /\ Settled(k)
        /\ \A p \in Task : pid[p] = 1 => k.status[p] = "READY"
        /\ \A r \in Queue \ {"sleep", "ready"} :
             k.queue[r] = IF r = "waitpid" THEN Append(queue[r], current_running) ELSE queue[r]
    BY <1>0, <2>1, BlockSettled
  <2> HIDE DEF k
  <2> QED
    BY <2>1, <2>2
<1>2. Dispatch(k)
  BY DEF do_waitpid, do_block
<1> HIDE DEF k
<1>3. /\ sleep_until' \in [Pcb -> 0..(TimeMod - 1)] /\ time_elapsed' \in Nat
      /\ waitpid' \in [Pcb -> Nat]
  BY <1>0, CallAssumption DEF SchedInv, TypeOK
<1>4. \A p \in Task : p \in Range(k.queue["waitpid"]) /\ waitpid'[p] # 0 =>
                        \E r \in Task : pid[r] = waitpid'[p]
  <2>1. current_running \in Task
    BY <1>0, TaskFacts DEF SchedInv, TypeOK, RunOK, RunState
  <2>2. queue["waitpid"] \in Seq(Task)
    BY QueueFacts DEF SchedInv, TypeOK, KernelQueue
  <2>3. Range(k.queue["waitpid"]) = Range(queue["waitpid"]) \cup {current_running}
    BY <1>1, <2>1, <2>2, AppendQueue
  <2>4. t # 0 => \E r \in Task : pid[r] = t
    BY <1>0, TaskFacts DEF SchedInv, PidInv
  <2>5. ASSUME NEW p \in Task, p \in Range(queue["waitpid"]), waitpid[p] # 0
        PROVE  \E r \in Task : pid[r] = waitpid[p]
    BY <2>5 DEF SchedInv, WaitInv, WaitersHaveTarget
  <2>6. \A p \in Task : waitpid'[p] = IF p = current_running THEN t ELSE waitpid[p]
    BY <1>0, <2>1, TaskFacts DEF SchedInv, TypeOK
  <2> QED
    BY <2>3, <2>4, <2>5, <2>6
<1> QED
  BY <1>0, <1>1, <1>2, <1>3, <1>4, SwitchInv

\* do_mutex_lock_acquire of a lock somebody holds, and the lock calls that switch no
\* process, keep the invariant; what they do to locks comes at the end.
LEMMA RecordTypes ==
  ASSUME NEW got \in [Slot -> Lock \cup {NULL}], NEW l \in Lock
  PROVE  /\ proc_get_lock(got, l) \in [Slot -> Lock \cup {NULL}]
         /\ proc_lose_lock(got, l) \in [Slot -> Lock \cup {NULL}]
  BY DEF proc_get_lock, proc_lose_lock

LEMMA ReleaseRecordType ==
  ASSUME TypeOK, NEW l \in Lock
  PROVE  ReleaseRecord(l) \in [Pcb -> [Slot -> Lock \cup {NULL}]]
<1> DEFINE got == proc_lose_lock(locks_got[current_running], l)
           new == IF queue[l] = <<>> THEN got ELSE proc_get_lock(got, l)
<1>1. new \in [Slot -> Lock \cup {NULL}]
  BY RecordTypes DEF TypeOK
<1> HIDE DEF new
<1>2. [locks_got EXCEPT ![current_running] = new] \in [Pcb -> [Slot -> Lock \cup {NULL}]]
  BY <1>1 DEF TypeOK
<1> QED
  BY <1>2 DEF ReleaseRecord, new

\* The run part of do_mutex_lock_release.
LEMMA ReleaseRun ==
  ASSUME SchedInv, NEW l \in Lock, NEW p \in Task, do_mutex_lock_release(l, p)
  PROVE  /\ RunOK(RunState)'
         /\ \A x \in Pcb : \/ status'[x] = status[x]
                           \/ status'[x] = "READY" /\ status[x] = "BLOCKED"
         /\ \A q \in KernelQueue \ {"ready"} : queue'[q] = queue[q]
         /\ lock_status' \in [Lock -> {"LOCKED", "UNLOCKED"}]
         /\ holders' \in [Lock -> SUBSET Task]
<1>0. RunState.queue = queue /\ RunState.status = status /\ RunState.in_queue = in_queue
  BY DEF RunState
<1>1. l \in Queue /\ l # "ready" /\ RunOK(RunState) /\ TypeOK
  BY QueueFacts DEF KernelQueue, SchedInv
<1>2. CASE queue[l] = <<>>
  <2>1. UNCHANGED <<status, queue, in_queue>> /\ holders' = [holders EXCEPT ![l] = @ \ {p}]
        /\ lock_status' = [lock_status EXCEPT ![l] = "UNLOCKED"]
    BY <1>2 DEF do_mutex_lock_release, run
  <2>2. RunOK(RunState)'
    BY <1>1, <2>1 DEF RunOK, RunState
  <2> QED
    BY <1>1, <2>1, <2>2 DEF TypeOK
<1>3. CASE queue[l] # <<>>
  <2> DEFINE w == Wake(RunState, l, {Head(queue[l])})
  <2>1. /\ Resume(w) /\ lock_status' = lock_status
        /\ holders' = [holders EXCEPT ![l] = (@ \ {p}) \cup {Head(queue[l])}]
    BY <1>0, <1>3 DEF do_mutex_lock_release, do_unblock_one
  <2>2. /\ RunOK(w)
        /\ \A x \in Pcb : w.status[x] = IF x \in Range(queue[l]) \cap {Head(queue[l])}
                                        THEN "READY" ELSE status[x]
        /\ \A r \in Queue \ {l, "ready"} : w.queue[r] = queue[r]
    BY <1>0, <1>1, WakeOK
  <2> HIDE DEF w
  <2>3. RunOK(RunState)' /\ status' = w.status /\ queue' = w.queue
    BY <2>1, <2>2, ResumeOK
  <2>4. queue[l] \in Seq(Task)
    BY <1>1 DEF TypeOK
  <2>5. Head(queue[l]) \in Task
    BY <1>3, <2>4, TailQueue
  <2>6. \A x \in Range(queue[l]) : status[x] = "BLOCKED"
    <3> SUFFICES ASSUME NEW x \in Range(queue[l])
                 PROVE  status[x] = "BLOCKED"
      OBVIOUS
    <3>1. x \in Task
      BY <2>4, RangeOfSeq
    <3>2. status[x] \in Queued /\ in_queue[x] = l
      BY <1>0, <1>1, <3>1 DEF RunOK
    <3> QED
      BY <1>0, <1>1, <3>1, <3>2, QueueFacts DEF RunOK, Queued, QueueOf, KernelQueue
  <2>7. \A q \in KernelQueue \ {"ready"} : q \in Queue \ {l, "ready"}
    BY QueueFacts
  <2> QED
    BY <1>1, <2>1, <2>2, <2>3, <2>5, <2>6, <2>7 DEF TypeOK
<1> QED
  BY <1>2, <1>3

\* Steps that switch no process and at most make a blocked process ready.
LEMMA StayInv ==
  ASSUME SchedInv, TypeOK', RunOK(RunState)',
         \A x \in Pcb : \/ status'[x] = status[x]
                        \/ status'[x] = "READY" /\ status[x] = "BLOCKED",
         queue'["waitpid"] = queue["waitpid"],
         UNCHANGED <<stack, ids, current_running, waitpid, panic>>,
         freeing'.victim = freeing.victim, freeing'.then = freeing.then,
         freeing' = NotFreeing <=> freeing = NotFreeing
  PROVE  SchedInv'
<1>0. /\ kernel_sp' = kernel_sp /\ kernel_stack_used' = kernel_stack_used
      /\ pid' = pid /\ next_pid' = next_pid
      /\ current_running' = current_running /\ waitpid' = waitpid /\ panic' = panic
  BY DEF stack, ids
<1>1. \A x \in Task : \/ status'[x] = status[x]
                      \/ status'[x] = "READY" /\ status[x] = "BLOCKED"
  BY TaskFacts
<1>2. RunnerInv'
  <2>1. CASE freeing = NotFreeing
    <3>1. current_running # 0 => current_running \in Task
      BY TaskFacts DEF SchedInv, TypeOK
    <3> QED
      BY <1>0, <1>1, <2>1, <3>1 DEF SchedInv, RunnerInv, Off
  <2>2. CASE freeing # NotFreeing
    BY <1>0, <1>1, <2>2 DEF SchedInv, RunnerInv, Off
  <2> QED
    BY <2>1, <2>2
<1>3. StackInv'
  BY <1>0, <1>1 DEF SchedInv, StackInv
<1>4. PidInv'
  BY <1>0, <1>1 DEF SchedInv, PidInv, PidsUnique
<1>5. WaitInv'
  BY <1>0 DEF SchedInv, WaitInv, WaitersHaveTarget
<1>6. ShellInv'
  BY <1>0, <1>1 DEF SchedInv, ShellInv, ShellKeepsReady
<1> QED
  BY <1>2, <1>3, <1>4, <1>5, <1>6 DEF SchedInv

LEMMA LockInitInv == ASSUME SchedInv, NEW l \in Lock, do_mutex_lock_init(l)
                     PROVE  SchedInv'
<1>0. TypeOK /\ RunOK(RunState) /\ l \in Queue
  BY QueueFacts DEF SchedInv
<1>1. queue' = queue
  BY <1>0 DEF do_mutex_lock_init, TypeOK
<1>2. RunOK(RunState)'
  BY <1>0, <1>1 DEF do_mutex_lock_init, RunOK, RunState
<1>3. TypeOK'
  BY <1>0, <1>1 DEF do_mutex_lock_init, TypeOK, stack, ids
<1> QED
  BY <1>1, <1>2, <1>3, StayInv DEF do_mutex_lock_init

LEMMA UnlockInv == ASSUME SchedInv, NEW l \in Lock, UnlockCall(l)
                   PROVE  SchedInv'
<1>0. /\ do_mutex_lock_release(l, current_running) /\ locks_got' = ReleaseRecord(l)
      /\ UNCHANGED <<stack, tainted, ids, current_running, sleep_until, waitpid,
                     time_elapsed, freeing, panic>>
      /\ status[current_running] = "RUNNING" /\ TypeOK
  BY DEF UnlockCall, InCall, SchedInv
<1>1. current_running \in Task
  BY <1>0, TaskFacts DEF SchedInv, TypeOK, RunOK, RunState
<1>2. /\ RunOK(RunState)'
      /\ \A x \in Pcb : \/ status'[x] = status[x]
                        \/ status'[x] = "READY" /\ status[x] = "BLOCKED"
      /\ \A q \in KernelQueue \ {"ready"} : queue'[q] = queue[q]
      /\ lock_status' \in [Lock -> {"LOCKED", "UNLOCKED"}]
      /\ holders' \in [Lock -> SUBSET Task]
  BY <1>0, <1>1, ReleaseRun
<1>3. queue'["waitpid"] = queue["waitpid"]
  BY <1>2 DEF KernelQueue
<1>4. locks_got' \in [Pcb -> [Slot -> Lock \cup {NULL}]]
  BY <1>0, ReleaseRecordType
<1>5. /\ status' \in [Pcb -> Status] /\ in_queue' \in [Pcb -> Queue \cup {NULL}]
      /\ queue' \in [Queue -> Seq(Task)]
  BY <1>2 DEF RunOK, RunState
<1>6. TypeOK'
  BY <1>0, <1>2, <1>4, <1>5 DEF TypeOK, stack, ids
<1> QED
  BY <1>0, <1>2, <1>3, <1>6, StayInv

LEMMA AcquireInv == ASSUME SchedInv, NEW l \in Lock, do_mutex_lock_acquire(l)
                    PROVE  SchedInv'
<1>0. /\ panic = "none" /\ freeing = NotFreeing
      /\ status[current_running] = "RUNNING" /\ pid[current_running] # 1
      /\ UNCHANGED <<stack, tainted, ids, sleep_until, waitpid, time_elapsed, freeing>>
      /\ TypeOK /\ RunOK(RunState)
  BY DEF do_mutex_lock_acquire, InCall, Idle, ShellCall, SchedInv
<1>1. current_running \in Task
  BY <1>0, TaskFacts DEF TypeOK, RunOK, RunState
<1>2. CASE /\ locks_got' = [locks_got EXCEPT ![current_running] = proc_get_lock(@, l)]
           /\ lock_status' = [lock_status EXCEPT ![l] = "LOCKED"]
           /\ holders' = [holders EXCEPT ![l] = @ \cup {current_running}]
           /\ UNCHANGED <<run, current_running, panic>>
  <2>1. status' = status /\ queue' = queue /\ in_queue' = in_queue
    BY <1>2 DEF run
  <2>2. RunOK(RunState)'
    BY <1>0, <2>1 DEF RunOK, RunState
  <2>3. proc_get_lock(locks_got[current_running], l) \in [Slot -> Lock \cup {NULL}]
    BY <1>0, RecordTypes DEF TypeOK
  <2>4. locks_got' \in [Pcb -> [Slot -> Lock \cup {NULL}]]
    BY <1>0, <1>2, <2>3 DEF TypeOK
  <2>5. holders' \in [Lock -> SUBSET Task] /\ lock_status' \in [Lock -> {"LOCKED", "UNLOCKED"}]
    BY <1>0, <1>1, <1>2 DEF TypeOK
  <2>6. TypeOK'
    BY <1>0, <1>2, <2>1, <2>4, <2>5 DEF TypeOK, stack, ids
  <2> QED
    BY <1>0, <1>2, <2>1, <2>2, <2>6, StayInv
<1>3. CASE do_block(l) /\ UNCHANGED <<locks_got, lock_status, holders>>
  <2> DEFINE k == check_sleeping(Push(RunState, current_running, l, "BLOCKED"),
                                 sleep_until, get_timer(time_elapsed))
  <2>1. "BLOCKED" \in Queued \ {"READY"} /\ l \in QueueOf("BLOCKED")
        /\ "waitpid" \in Queue \ {"sleep", "ready"} /\ l # "waitpid"
    BY QueueFacts DEF Queued, QueueOf, KernelQueue
  <2>2. /\ Settled(k)
        /\ \A p \in Task : pid[p] = 1 => k.status[p] = "READY"
        /\ \A r \in Queue \ {"sleep", "ready"} :
             k.queue[r] = IF r = l THEN Append(queue[r], current_running) ELSE queue[r]
    BY <1>0, <2>1, BlockSettled
  <2>3. Dispatch(k)
    BY <1>3 DEF do_block
  <2> HIDE DEF k
  <2>4. k.queue["waitpid"] = queue["waitpid"]
    BY <2>1, <2>2
  <2>5. /\ waitpid' \in [Pcb -> Nat] /\ waitpid' = waitpid /\ time_elapsed' \in Nat
        /\ sleep_until' \in [Pcb -> 0..(TimeMod - 1)]
    BY <1>0 DEF TypeOK
  <2>6. \A p \in Task : p \in Range(k.queue["waitpid"]) /\ waitpid'[p] # 0 =>
                          \E r \in Task : pid[r] = waitpid'[p]
    BY <2>4, <2>5 DEF SchedInv, WaitInv, WaitersHaveTarget
  <2>7. UNCHANGED <<stack, locks, ids, freeing>>
    BY <1>0, <1>3 DEF locks
  <2> QED
    BY <1>0, <2>2, <2>3, <2>5, <2>6, <2>7, SwitchInv
<1> QED
  BY <1>2, <1>3 DEF do_mutex_lock_acquire

LEMMA FreeLockInv == SchedInv /\ FreeLock => SchedInv'
<1> SUFFICES ASSUME SchedInv, FreeLock
             PROVE  SchedInv'
  OBVIOUS
<1> DEFINE v == freeing.victim
<1>0. TypeOK /\ freeing # NotFreeing /\ v \in Task /\ freeing.slot \in 0..MaxLock
      /\ UNCHANGED <<stack, ids, current_running, sleep_until, waitpid, time_elapsed, panic>>
  BY DEF FreeLock, SchedInv, RunnerInv, TypeOK
<1>1. PICK i \in Pending :
        LET l == locks_got[v][i]
        IN  /\ do_mutex_lock_release(l, v)
            /\ locks_got' = [ReleaseRecord(l) EXCEPT ![v][i] = NULL]
            /\ tainted' = [tainted EXCEPT ![l] = @ \/ v \notin holders[l]]
            /\ freeing' = [freeing EXCEPT !.slot = i + 1]
  BY DEF FreeLock
<1> DEFINE l == locks_got[v][i]
<1>2. i \in Slot /\ i + 1 \in 0..MaxLock /\ l \in Lock
  BY <1>0, LockAssumption, TaskFacts DEF Pending, Slot, TypeOK
<1>3. /\ do_mutex_lock_release(l, v)
      /\ locks_got' = [ReleaseRecord(l) EXCEPT ![v][i] = NULL]
      /\ tainted' = [tainted EXCEPT ![l] = @ \/ v \notin holders[l]]
      /\ freeing' = [freeing EXCEPT !.slot = i + 1]
  BY <1>1
<1> HIDE DEF l
<1>4. /\ RunOK(RunState)'
      /\ \A x \in Pcb : \/ status'[x] = status[x]
                        \/ status'[x] = "READY" /\ status[x] = "BLOCKED"
      /\ \A q \in KernelQueue \ {"ready"} : queue'[q] = queue[q]
      /\ lock_status' \in [Lock -> {"LOCKED", "UNLOCKED"}]
      /\ holders' \in [Lock -> SUBSET Task]
  BY <1>0, <1>2, <1>3, ReleaseRun
<1>5. queue'["waitpid"] = queue["waitpid"]
  BY <1>4 DEF KernelQueue
<1>6. locks_got' \in [Pcb -> [Slot -> Lock \cup {NULL}]]
  <2>1. ReleaseRecord(l) \in [Pcb -> [Slot -> Lock \cup {NULL}]]
    BY <1>0, <1>2, ReleaseRecordType
  <2> QED
    BY <1>3, <2>1
<1>7. /\ status' \in [Pcb -> Status] /\ in_queue' \in [Pcb -> Queue \cup {NULL}]
      /\ queue' \in [Queue -> Seq(Task)]
  BY <1>4 DEF RunOK, RunState
<1>8. /\ freeing' \in [victim : Pcb, slot : 0..MaxLock, then : Stage]
      /\ freeing'.victim = freeing.victim /\ freeing'.then = freeing.then
  BY <1>0, <1>2, <1>3 DEF TypeOK
<1>9. freeing' # NotFreeing
  BY <1>0, <1>8, TaskFacts DEF NotFreeing
<1>10. tainted' \in [Lock -> BOOLEAN]
  BY <1>0, <1>3 DEF TypeOK
<1>11. TypeOK'
  BY <1>0, <1>4, <1>6, <1>7, <1>8, <1>10 DEF TypeOK, stack, ids
<1> QED
  BY <1>0, <1>4, <1>5, <1>8, <1>9, <1>11, StayInv

\* The handlers that begin to free process p.
LEMMA FreeProcInv ==
  ASSUME SchedInv, panic = "none", freeing = NotFreeing, current_running \in Task,
         NEW k, RunOK(k), NEW p \in Task, NEW stage \in Stage,
         status[p] # "NONE", k.status[p] = "EXITED",
         \A x \in Task \ {p} : \/ k.status[x] = status[x]
                               \/ k.status[x] = "READY" /\ status[x] = "SLEEPING",
         \A x \in Task : x \in Range(k.queue["waitpid"]) => x \in Range(queue["waitpid"]),
         stage = "return" => p # current_running /\ status[current_running] = "RUNNING",
         stage # "return" => p = current_running,
         free_proc(k, p, stage), time_elapsed' \in Nat,
         UNCHANGED <<kernel_sp, locks, ids, current_running, sleep_until, waitpid, panic>>
  PROVE  SchedInv'
<1>0. /\ kernel_sp' = kernel_sp /\ pid' = pid /\ next_pid' = next_pid
      /\ locks_got' = locks_got /\ lock_status' = lock_status
      /\ holders' = holders /\ tainted' = tainted
      /\ current_running' = current_running /\ sleep_until' = sleep_until
      /\ waitpid' = waitpid /\ panic' = "none"
  BY DEF locks, ids
<1>1. RunOK(RunState)' /\ status' = k.status /\ queue' = k.queue /\ in_queue' = k.in_queue
  BY ResumeOK DEF free_proc
<1>2. /\ freeing' = [victim |-> p, slot |-> 0, then |-> stage]
      /\ kernel_stack_used' = [kernel_stack_used EXCEPT ![kernel_sp[p]] = FALSE]
  BY DEF free_proc
<1>3. freeing'.victim = p /\ freeing'.then = stage /\ freeing' # NotFreeing
  BY <1>2, TaskFacts DEF NotFreeing
<1>4. freeing.victim = 0 /\ kernel_sp[p] = p
  BY DEF NotFreeing, SchedInv, StackInv
<1>5. TypeOK'
  <2>1. TypeOK
    BY DEF SchedInv
  <2>2. /\ status' \in [Pcb -> Status] /\ in_queue' \in [Pcb -> Queue \cup {NULL}]
        /\ queue' \in [Queue -> Seq(Task)]
    BY <1>1 DEF RunOK, RunState
  <2>3. freeing' \in [victim : Pcb, slot : 0..MaxLock, then : Stage]
    BY <1>2, TaskFacts, LockAssumption
  <2>4. kernel_stack_used' \in [Pcb -> BOOLEAN]
    BY <1>2, <2>1 DEF TypeOK
  <2>5. panic' \in Panic
    BY <1>0 DEF Panic
  <2> QED
    BY <1>0, <2>1, <2>2, <2>3, <2>4, <2>5 DEF TypeOK
<1>6. \A x \in Task \ {p} : status'[x] \in Off => x = current_running
  BY <1>1 DEF SchedInv, RunnerInv, Off
<1>7. RunnerInv'
  <2>1. stage = "return" => status'[current_running] = "RUNNING"
    BY <1>1
  <2> QED
    BY <1>0, <1>1, <1>3, <1>6, <2>1 DEF RunnerInv
<1>8. StackInv'
  <2>1. \A x \in Task : status'[x] # "NONE" <=> status[x] # "NONE"
    BY <1>1
  <2>2. \A x \in Task : kernel_stack_used'[x] <=> kernel_stack_used[x] /\ x # p
    BY <1>2, <1>4, TaskFacts DEF SchedInv, TypeOK
  <2>3. \A x \in Task : kernel_stack_used[x] <=> status[x] # "NONE"
    BY <1>4, TaskFacts DEF SchedInv, StackInv
  <2>4. \A x \in Task : status[x] # "NONE" => kernel_sp[x] = x
    BY DEF SchedInv, StackInv
  <2> QED
    BY <1>0, <1>3, <2>1, <2>2, <2>3, <2>4 DEF StackInv
<1>9. PidInv'
  BY <1>0, <1>1 DEF SchedInv, PidInv, PidsUnique
<1>10. WaitInv'
  BY <1>0, <1>1 DEF SchedInv, WaitInv, WaitersHaveTarget
<1>11. ShellInv'
  BY <1>0, <1>1 DEF SchedInv, ShellInv, ShellKeepsReady
<1> QED
  BY <1>1, <1>5, <1>7, <1>8, <1>9, <1>10, <1>11 DEF SchedInv

LEMMA ReapExitedInv == SchedInv /\ ReapExited => SchedInv'
<1> SUFFICES ASSUME SchedInv, ReapExited
             PROVE  SchedInv'
  OBVIOUS
<1> DEFINE k == check_sleeping(RunState, sleep_until, get_timer(time_elapsed'))
<1>0. RunState.queue = queue /\ RunState.status = status /\ RunState.in_queue = in_queue
  BY DEF RunState
<1>1. /\ panic = "none" /\ freeing = NotFreeing /\ status[current_running] = "EXITED"
      /\ free_proc(k, current_running, "dispatch")
      /\ UNCHANGED <<kernel_sp, locks, ids, current_running, sleep_until, waitpid, panic>>
  BY DEF ReapExited, Idle
<1>2. current_running \in Task
  BY <1>1, TaskFacts DEF SchedInv, TypeOK, RunOK, RunState
<1>3. time_elapsed' \in Nat
  <2>1. PICK n \in {0, 1} : time_elapsed' = Later(n)
    BY DEF ReapExited
  <2> QED
    BY <2>1, LaterType DEF SchedInv, TypeOK
<1>4. /\ RunOK(k)
      /\ \A p \in Pcb : \/ k.status[p] = status[p]
                        \/ k.status[p] = "READY" /\ status[p] = "SLEEPING"
      /\ \A q \in Queue \ {"sleep", "ready"} : k.queue[q] = queue[q]
  BY <1>0, CheckSleepingOK DEF SchedInv
<1> HIDE DEF k
<1>5. k.status[current_running] = "EXITED"
  BY <1>1, <1>2, <1>4, TaskFacts
<1>6. k.queue["waitpid"] = queue["waitpid"]
  BY <1>4, QueueFacts DEF KernelQueue
<1>7. \A x \in Task \ {current_running} : \/ k.status[x] = status[x]
                                          \/ k.status[x] = "READY" /\ status[x] = "SLEEPING"
  BY <1>4, TaskFacts
<1> QED
  BY <1>1, <1>2, <1>3, <1>4, <1>5, <1>6, <1>7, FreeProcInv DEF Stage

LEMMA ExitInv == SchedInv /\ do_exit => SchedInv'
<1> SUFFICES ASSUME SchedInv, do_exit
             PROVE  SchedInv'
  OBVIOUS
<1> DEFINE k == SetStatus(RunState, current_running, "EXITED")
<1>0. RunState.queue = queue /\ RunState.status = status /\ RunState.in_queue = in_queue
  BY DEF RunState
<1>1. /\ panic = "none" /\ freeing = NotFreeing /\ status[current_running] = "RUNNING"
      /\ free_proc(k, current_running, "scheduler")
      /\ UNCHANGED <<kernel_sp, locks, ids, current_running, sleep_until, waitpid,
                     time_elapsed, panic>>
  BY DEF do_exit, InCall, Idle
<1>2. current_running \in Task
  BY <1>1, TaskFacts DEF SchedInv, TypeOK, RunOK, RunState
<1>3. time_elapsed' \in Nat
  BY <1>1 DEF SchedInv, TypeOK
<1>4. RunOK(k)
  BY <1>0, <1>1, <1>2, StatusOK DEF SchedInv, Queued, Status
<1>5. k.queue = queue /\ k.status = [status EXCEPT ![current_running] = "EXITED"]
  BY <1>0 DEF SetStatus
<1> HIDE DEF k
<1>6. \A x \in Task : k.status[x] = IF x = current_running THEN "EXITED" ELSE status[x]
  BY <1>2, <1>5, TaskFacts DEF SchedInv, TypeOK
<1> QED
  BY <1>1, <1>2, <1>3, <1>4, <1>5, <1>6, FreeProcInv DEF Stage

LEMMA KillInv == ASSUME SchedInv, NEW t \in 0..MaxPid, do_kill(t)
                 PROVE  SchedInv'
<1>0. RunState.queue = queue /\ RunState.status = status /\ RunState.in_queue = in_queue
  BY DEF RunState
<1>1. /\ panic = "none" /\ freeing = NotFreeing /\ status[current_running] = "RUNNING"
      /\ UNCHANGED <<kernel_sp, locks, ids, current_running, sleep_until, waitpid,
                     time_elapsed>>
      /\ TypeOK /\ RunOK(RunState)
  BY DEF do_kill, InCall, Idle, SchedInv
<1>2. current_running \in Task
  BY <1>1, TaskFacts DEF TypeOK, RunOK, RunState
<1>u. /\ kernel_sp' = kernel_sp /\ pid' = pid /\ next_pid' = next_pid
      /\ locks_got' = locks_got /\ lock_status' = lock_status
      /\ holders' = holders /\ tainted' = tainted
      /\ current_running' = current_running /\ sleep_until' = sleep_until
      /\ waitpid' = waitpid /\ time_elapsed' = time_elapsed
  BY <1>1 DEF locks, ids
<1>3. CASE panic' = "null_queue" /\ UNCHANGED <<run, kernel_stack_used, freeing>>
  <2>1. status' = status /\ queue' = queue /\ in_queue' = in_queue
        /\ kernel_stack_used' = kernel_stack_used /\ freeing' = freeing
    BY <1>3 DEF run
  <2>2. TypeOK'
    BY <1>1, <1>3, <1>u, <2>1 DEF TypeOK, Panic
  <2>3. RunOK(RunState)'
    BY <1>1, <2>1 DEF RunOK, RunState
  <2>4. RunnerInv'
    BY <1>1, <1>3, <1>u, <2>1 DEF SchedInv, RunnerInv
  <2>5. StackInv' /\ PidInv'
    BY <1>3, <1>u, <2>1 DEF SchedInv, StackInv, PidInv, PidsUnique
  <2>6. WaitInv' /\ ShellInv'
    BY <1>3, <1>u, <2>1 DEF SchedInv, WaitInv, WaitersHaveTarget, ShellInv, ShellKeepsReady
  <2> QED
    BY <2>2, <2>3, <2>4, <2>5, <2>6 DEF SchedInv
<1>4. CASE /\ status' = [status EXCEPT ![current_running] = "EXITED"]
           /\ UNCHANGED <<queue, in_queue, kernel_stack_used, freeing, panic>>
  <2>1. \A x \in Task : status'[x] = IF x = current_running THEN "EXITED" ELSE status[x]
    BY <1>1, <1>2, <1>4, TaskFacts DEF TypeOK
  <2>2. RunOK(RunState)'
    <3> DEFINE k == SetStatus(RunState, current_running, "EXITED")
    <3>1. RunOK(k)
      BY <1>0, <1>1, <1>2, StatusOK DEF Queued, Status
    <3>2. Resume(k)
      BY <1>0, <1>4 DEF Resume, SetStatus
    <3> HIDE DEF k
    <3> QED
      BY <3>1, <3>2, ResumeOK
  <2>3. TypeOK'
    <3>1. status' \in [Pcb -> Status]
      BY <1>1, <1>4 DEF TypeOK, Status
    <3> QED
      BY <1>1, <1>4, <1>u, <3>1 DEF TypeOK
  <2>4. RunnerInv'
    BY <1>1, <1>2, <1>4, <1>u, <2>1 DEF SchedInv, RunnerInv, Off
  <2>5. StackInv'
    BY <1>1, <1>4, <1>u, <2>1 DEF SchedInv, StackInv
  <2>6. PidInv'
    BY <1>1, <1>u, <2>1 DEF SchedInv, PidInv, PidsUnique
  <2>7. WaitInv' /\ ShellInv'
    BY <1>4, <1>u, <2>1 DEF SchedInv, WaitInv, WaitersHaveTarget, ShellInv, ShellKeepsReady
  <2> QED
    BY <2>2, <2>3, <2>4, <2>5, <2>6, <2>7 DEF SchedInv
<1>5. ASSUME NEW p \in Task \ {current_running}, t # 0, pid[p] = t,
             free_proc(Unlink(RunState, p), p, "return"), UNCHANGED panic
      PROVE  SchedInv'
  <2> DEFINE k == Unlink(RunState, p)
  <2>1. status[p] # "NONE"
    BY <1>5 DEF SchedInv, PidInv, PidsUnique
  <2>2. status[p] \in Queued
    BY <1>1, <2>1, TaskFacts DEF SchedInv, RunnerInv, TypeOK, Status, Queued, Off
  <2>3. /\ RunOK(k) /\ k.status = [status EXCEPT ![p] = "EXITED"]
        /\ \A q \in Queue : Range(k.queue[q]) = Range(queue[q]) \ {p}
    BY <1>0, <1>1, <2>2, UnlinkOK
  <2>4. free_proc(k, p, "return")
    BY <1>5
  <2> HIDE DEF k
  <2>5. \A x \in Task : k.status[x] = IF x = p THEN "EXITED" ELSE status[x]
    BY <1>1, <2>3, TaskFacts DEF TypeOK
  <2>6. \A x \in Task : x \in Range(k.queue["waitpid"]) => x \in Range(queue["waitpid"])
    BY <2>3, QueueFacts DEF KernelQueue
  <2>7. time_elapsed' \in Nat
    BY <1>1 DEF TypeOK
  <2>8. UNCHANGED <<kernel_sp, locks, ids, current_running, sleep_until, waitpid, panic>>
    BY <1>1, <1>5
  <2> QED
    BY <1>1, <1>2, <2>1, <2>3, <2>4, <2>5, <2>6, <2>7, <2>8, FreeProcInv DEF Stage
<1> QED
  BY <1>3, <1>4, <1>5 DEF do_kill

\* The end of free_proc, whatever it returns to.
LEMMA FreedInv ==
  ASSUME SchedInv, freeing # NotFreeing, NEW v \in Task, v = freeing.victim,
         RunOK(RunState)', RunnerInv', current_running' \in Pcb,
         panic' \in {"none", "no_ready"}, freeing' = NotFreeing,
         pid' = [pid EXCEPT ![v] = 0], holders' = [l \in Lock |-> holders[l] \ {v}],
         \A p \in Task : status'[p] = "NONE" <=> status[p] = "NONE" \/ p = v,
         \A p \in Task : p \in Range(queue'["waitpid"]) =>
                           p \in Range(queue["waitpid"]) /\ waitpid[p] # pid[v],
         \A p \in Task \ {v} : pid[p] = 1 => status'[p] \in {"READY", "RUNNING"},
         panic' = "no_ready" => \A p \in Task \ {v} : pid[p] # 1,
         UNCHANGED <<stack, locks_got, lock_status, tainted, next_pid,
                     sleep_until, waitpid, time_elapsed>>
  PROVE  SchedInv'
<1>0. /\ kernel_sp' = kernel_sp /\ kernel_stack_used' = kernel_stack_used
      /\ locks_got' = locks_got /\ lock_status' = lock_status /\ tainted' = tainted
      /\ next_pid' = next_pid /\ sleep_until' = sleep_until /\ waitpid' = waitpid
      /\ time_elapsed' = time_elapsed
  BY DEF stack
<1>1. TypeOK /\ \A p \in Pcb : pid'[p] = IF p = v THEN 0 ELSE pid[p]
  BY TaskFacts DEF SchedInv, TypeOK
<1>2. TypeOK'
  <2>1. /\ status' \in [Pcb -> Status] /\ in_queue' \in [Pcb -> Queue \cup {NULL}]
        /\ queue' \in [Queue -> Seq(Task)]
    BY DEF RunOK, RunState
  <2>2. panic' \in Panic
    BY DEF Panic
  <2>3. freeing' \in [victim : Pcb, slot : 0..MaxLock, then : Stage]
    BY TaskFacts, LockAssumption DEF NotFreeing, Stage
  <2>4. pid' \in [Pcb -> Nat]
    BY <1>1 DEF TypeOK
  <2>5. holders' \in [Lock -> SUBSET Task]
    BY <1>1 DEF TypeOK
  <2> QED
    BY <1>0, <1>1, <2>1, <2>2, <2>3, <2>4, <2>5 DEF TypeOK
<1>3. StackInv'
  <2>1. freeing'.victim \notin Task
    BY TaskFacts DEF NotFreeing
  <2> QED
    BY <1>0, <2>1 DEF SchedInv, StackInv
<1>4. PidInv'
  <2>1. \A p \in Task : pid'[p] = IF p = v THEN 0 ELSE pid[p]
    BY <1>1, TaskFacts
  <2>2. pid'[0] = 0
    BY <1>1, TaskFacts DEF SchedInv, PidInv
  <2>3. next_pid \in Nat \ {0}
    BY <1>1 DEF TypeOK
  <2> QED
    BY <1>0, <2>1, <2>2, <2>3 DEF SchedInv, PidInv, PidsUnique
<1>5. WaitInv'
  <2> SUFFICES ASSUME NEW p \in Task, p \in Range(queue'["waitpid"]), waitpid[p] # 0
               PROVE  \E r \in Task : pid'[r] = waitpid[p]
    BY <1>0 DEF WaitInv, WaitersHaveTarget
  <2>1. p \in Range(queue["waitpid"]) /\ waitpid[p] # pid[v]
    OBVIOUS
  <2>2. PICK r \in Task : pid[r] = waitpid[p]
    BY <2>1 DEF SchedInv, WaitInv, WaitersHaveTarget
  <2>3. pid'[r] = pid[r]
    BY <1>1, <2>1, <2>2, TaskFacts
  <2> QED
    BY <2>2, <2>3
<1>6. ShellInv'
  <2>1. \A p \in Task : pid'[p] = IF p = v THEN 0 ELSE pid[p]
    BY <1>1, TaskFacts
  <2> QED
    BY <2>1 DEF ShellInv, ShellKeepsReady
<1> QED
  BY <1>2, <1>3, <1>4, <1>5, <1>6 DEF SchedInv

\* The same, when free_proc returns to the scheduler, which dispatches from d.
LEMMA FreedSwitchInv ==
  ASSUME SchedInv, freeing # NotFreeing, NEW v \in Task, v = freeing.victim,
         v = current_running, panic = "none", NEW d, RunOK(d), Dispatch(d),
         freeing' = NotFreeing,
         pid' = [pid EXCEPT ![v] = 0], holders' = [l \in Lock |-> holders[l] \ {v}],
         d.status[v] = "NONE",
         \A p \in Task \ {v} :
           \/ d.status[p] = status[p]
           \/ d.status[p] = "READY" /\ status[p] \in {"BLOCKED", "SLEEPING"},
         \A p \in Task : p \in Range(d.queue["waitpid"]) =>
                           p \in Range(queue["waitpid"]) /\ waitpid[p] # pid[v],
         UNCHANGED <<stack, locks_got, lock_status, tainted, next_pid,
                     sleep_until, waitpid, time_elapsed>>
  PROVE  SchedInv'
<1>1. \A p \in Task \ {v} : status[p] \notin Off
  BY DEF SchedInv, RunnerInv
<1>2. \A p \in Task : d.status[p] \notin Off
  BY <1>1 DEF Off
<1>3. /\ RunOK(RunState)' /\ RunnerInv'
      /\ current_running' \in Pcb
      /\ panic' \in {"none", "no_ready"}
      /\ \A p \in Task : status'[p] = "NONE" <=> d.status[p] = "NONE"
      /\ \A p \in Task : d.status[p] = "READY" => status'[p] \in {"READY", "RUNNING"}
      /\ panic' = "no_ready" => \A p \in Task : d.status[p] # "READY"
      /\ \A q \in Queue \ {"ready"} : queue'[q] = d.queue[q]
  <2>1. current_running \in Pcb
    BY TaskFacts
  <2> QED
    BY <1>2, <2>1, DispatchSettled
<1>4. \A p \in Task : status'[p] = "NONE" <=> status[p] = "NONE" \/ p = v
  BY <1>3
<1>5. \A p \in Task : p \in Range(queue'["waitpid"]) =>
                         p \in Range(queue["waitpid"]) /\ waitpid[p] # pid[v]
  <2>1. queue'["waitpid"] = d.queue["waitpid"]
    BY <1>3, QueueFacts DEF KernelQueue
  <2> QED
    BY <2>1
<1>6. \A p \in Task \ {v} : pid[p] = 1 => d.status[p] = "READY"
  BY <1>1 DEF SchedInv, ShellInv, Off
<1>7. /\ \A p \in Task \ {v} : pid[p] = 1 => status'[p] \in {"READY", "RUNNING"}
      /\ panic' = "no_ready" => \A p \in Task \ {v} : pid[p] # 1
  BY <1>3, <1>6
<1> QED
  BY <1>3, <1>4, <1>5, <1>7, FreedInv

LEMMA FreeDoneInv == SchedInv /\ FreeDone => SchedInv'
<1> SUFFICES ASSUME SchedInv, FreeDone
             PROVE  SchedInv'
  OBVIOUS
<1> DEFINE v == freeing.victim
           w == Wake(RunState, "waitpid", WaitingFor(v))
           k == SetStatus(w, v, "NONE")
<1>0. RunState.queue = queue /\ RunState.status = status /\ RunState.in_queue = in_queue
  BY DEF RunState
<1>1. /\ freeing # NotFreeing /\ v \in Task /\ status[v] = "EXITED"
      /\ panic = "none" /\ current_running \in Task
      /\ pid' = [pid EXCEPT ![v] = 0] /\ holders' = [l \in Lock |-> holders[l] \ {v}]
      /\ freeing' = NotFreeing
      /\ UNCHANGED <<stack, locks_got, lock_status, tainted, next_pid,
                     sleep_until, waitpid, time_elapsed>>
      /\ TypeOK /\ RunOK(RunState)
  BY DEF FreeDone, SchedInv, RunnerInv
<1>2. \/ freeing.then = "return" /\ Resume(k) /\ UNCHANGED <<current_running, panic>>
      \/ /\ freeing.then = "scheduler"
         /\ Dispatch(check_sleeping(k, sleep_until, get_timer(time_elapsed)))
      \/ freeing.then = "dispatch" /\ Dispatch(k)
  BY DEF FreeDone
<1> DEFINE A == WaitingFor(v)
<1>3. "waitpid" \in Queue /\ "waitpid" # "ready" /\ "waitpid" # "sleep"
      /\ queue["waitpid"] \in Seq(Task)
  BY <1>1, QueueFacts DEF KernelQueue, TypeOK
<1>4. /\ RunOK(w)
      /\ \A p \in Pcb : w.status[p] = IF p \in Range(queue["waitpid"]) \cap A
                                       THEN "READY" ELSE status[p]
      /\ Range(w.queue["waitpid"]) = Range(queue["waitpid"]) \ A
  <2> HIDE DEF A
  <2>1. w = Wake(RunState, "waitpid", A)
    BY DEF A
  <2> HIDE DEF w
  <2> QED
    BY <1>0, <1>1, <1>3, <2>1, WakeOK
<1>5. \A p \in Task : p \in Range(queue["waitpid"]) => status[p] = "BLOCKED"
  <2> SUFFICES ASSUME NEW p \in Task, p \in Range(queue["waitpid"])
               PROVE  status[p] = "BLOCKED"
    OBVIOUS
  <2>1. status[p] \in Queued /\ in_queue[p] = "waitpid"
    BY <1>0, <1>1, <1>3 DEF RunOK
  <2>2. in_queue[p] \in QueueOf(status[p])
    BY <1>0, <1>1, <2>1 DEF RunOK
  <2> QED
    BY <2>1, <2>2 DEF Queued, QueueOf
<1> HIDE DEF w, A
<1>6. /\ RunOK(k)
      /\ k.queue = w.queue
      /\ \A p \in Task : k.status[p] = IF p = v THEN "NONE" ELSE w.status[p]
  <2>1. w.status[v] = "EXITED"
    BY <1>1, <1>4, <1>5, TaskFacts
  <2>2. RunOK(k)
    BY <1>1, <1>4, <2>1, StatusOK DEF Status, Queued
  <2> QED
    BY <1>1, <1>4, <2>2, TaskFacts DEF SetStatus, RunOK
<1> HIDE DEF k
<1>7. \A p \in Task : p \in Range(k.queue["waitpid"]) =>
                         p \in Range(queue["waitpid"]) /\ waitpid[p] # pid[v]
  BY <1>4, <1>6 DEF A, WaitingFor
<1>8. \A p \in Task \ {v} : \/ k.status[p] = status[p]
                            \/ k.status[p] = "READY" /\ status[p] = "BLOCKED"
  BY <1>4, <1>5, <1>6, TaskFacts
<1>9. \A p \in Task : status[p] \in Off => p = current_running \/ p = v
  BY <1>1 DEF SchedInv, RunnerInv
<1>10. k.status[v] = "NONE"
  BY <1>1, <1>6
<1>11. \A p \in Task \ {v} : pid[p] = 1 => status[p] \in {"READY", "RUNNING", "EXITED"}
  BY DEF SchedInv, ShellInv
<1>12. CASE freeing.then = "return" /\ Resume(k) /\ UNCHANGED <<current_running, panic>>
  <2>1. v # current_running /\ status[current_running] = "RUNNING"
    BY <1>1, <1>12 DEF SchedInv, RunnerInv
  <2>2. RunOK(RunState)' /\ status' = k.status /\ queue' = k.queue
    BY <1>6, <1>12, ResumeOK
  <2>3. k.status[current_running] = "RUNNING"
    BY <1>1, <1>8, <2>1
  <2>4. RunnerInv'
    BY <1>1, <1>8, <1>9, <1>10, <1>12, <2>1, <2>2, <2>3 DEF RunnerInv, Off
  <2>5. current_running' \in Pcb /\ panic' = "none"
    BY <1>1, <1>12, TaskFacts
  <2>6. \A p \in Task : status'[p] = "NONE" <=> status[p] = "NONE" \/ p = v
    BY <1>8, <1>10, <2>2
  <2>7. \A p \in Task \ {v} : pid[p] = 1 => status'[p] \in {"READY", "RUNNING"}
    BY <1>8, <1>9, <1>11, <2>1, <2>2 DEF Off
  <2>8. \A p \in Task : p \in Range(queue'["waitpid"]) =>
                           p \in Range(queue["waitpid"]) /\ waitpid[p] # pid[v]
    BY <1>7, <2>2
  <2> HIDE DEF v
  <2>9. v = freeing.victim
    BY DEF v
  <2> QED
    BY <1>1, <2>2, <2>4, <2>5, <2>6, <2>7, <2>8, <2>9, FreedInv
<1>13. CASE freeing.then # "return"
  <2>1. v = current_running
    BY <1>1, <1>13 DEF SchedInv, RunnerInv
  <2>2. CASE freeing.then = "dispatch" /\ Dispatch(k)
    <3> HIDE DEF v
    <3>1. v = freeing.victim
      BY DEF v
    <3> QED
      BY <1>1, <1>6, <1>7, <1>8, <1>10, <2>1, <2>2, <3>1, FreedSwitchInv
  <2>3. CASE /\ freeing.then = "scheduler"
             /\ Dispatch(check_sleeping(k, sleep_until, get_timer(time_elapsed)))
    <3> DEFINE d == check_sleeping(k, sleep_until, get_timer(time_elapsed))
    <3>1. /\ RunOK(d)
          /\ \A p \in Pcb : \/ d.status[p] = k.status[p]
                            \/ d.status[p] = "READY" /\ k.status[p] = "SLEEPING"
          /\ \A q \in Queue \ {"sleep", "ready"} : d.queue[q] = k.queue[q]
      BY <1>6, CheckSleepingOK
    <3>2. Dispatch(d)
      BY <2>3
    <3> HIDE DEF d
    <3>3. d.status[v] = "NONE"
      BY <1>1, <1>10, <3>1, TaskFacts
    <3>4. \A p \in Task \ {v} :
            \/ d.status[p] = status[p]
            \/ d.status[p] = "READY" /\ status[p] \in {"BLOCKED", "SLEEPING"}
      BY <1>8, <3>1, TaskFacts
    <3>5. \A p \in Task : p \in Range(d.queue["waitpid"]) =>
                             p \in Range(queue["waitpid"]) /\ waitpid[p] # pid[v]
      BY <1>3, <1>7, <3>1
    <3> HIDE DEF v
    <3>6. v = freeing.victim
      BY DEF v
    <3> QED
      BY <1>1, <2>1, <3>1, <3>2, <3>3, <3>4, <3>5, <3>6, FreedSwitchInv
  <2> QED
    BY <1>2, <1>13, <2>2, <2>3
<1> QED
  BY <1>2, <1>12, <1>13

\* The lowest free slot and the lowest free stack have the same number.
LEMMA SpawnInv == SchedInv /\ do_spawn => SchedInv'
<1> SUFFICES ASSUME SchedInv, do_spawn
             PROVE  SchedInv'
  OBVIOUS
<1>0. RunState.queue = queue /\ RunState.status = status /\ RunState.in_queue = in_queue
  BY DEF RunState
<1>1. /\ panic = "none" /\ freeing = NotFreeing /\ status[current_running] = "RUNNING"
      /\ next_pid' = next_pid + 1
      /\ UNCHANGED <<lock_status, holders, tainted, current_running, sleep_until,
                     waitpid, time_elapsed, freeing>>
      /\ TypeOK /\ RunOK(RunState)
  BY DEF do_spawn, InCall, Idle, SchedInv
<1>2. PICK p \in Task :
        /\ FreeSlot(p)
        /\ IF \A i \in Task : kernel_stack_used[i]
           THEN panic' = "no_stack" /\ UNCHANGED <<run, pid, stack, locks_got>>
           ELSE \E i \in Task :
                  /\ FreeStack(i)
                  /\ kernel_stack_used' = [kernel_stack_used EXCEPT ![i] = TRUE]
                  /\ kernel_sp' = [kernel_sp EXCEPT ![p] = i]
                  /\ pid' = [pid EXCEPT ![p] = alloc_pid]
                  /\ Resume(Push(RunState, p, "ready", "READY"))
                  /\ locks_got' = [locks_got EXCEPT ![p] = [j \in Slot |-> NULL]]
                  /\ UNCHANGED panic
  BY DEF do_spawn
<1>3. status[p] = "NONE" /\ \A r \in Task : status[r] = "NONE" => p <= r
  BY <1>2 DEF FreeSlot
<1>4. \A r \in Task : kernel_stack_used[r] <=> status[r] # "NONE"
  BY <1>1, TaskFacts DEF SchedInv, StackInv, NotFreeing
<1> DEFINE k == Push(RunState, p, "ready", "READY")
<1>5. /\ kernel_stack_used' = [kernel_stack_used EXCEPT ![p] = TRUE]
      /\ kernel_sp' = [kernel_sp EXCEPT ![p] = p]
      /\ pid' = [pid EXCEPT ![p] = next_pid]
      /\ Resume(k)
      /\ locks_got' = [locks_got EXCEPT ![p] = [j \in Slot |-> NULL]]
      /\ panic' = panic
  <2>1. ~ \A i \in Task : kernel_stack_used[i]
    BY <1>3, <1>4
  <2>2. PICK i \in Task :
          /\ FreeStack(i)
          /\ kernel_stack_used' = [kernel_stack_used EXCEPT ![i] = TRUE]
          /\ kernel_sp' = [kernel_sp EXCEPT ![p] = i]
          /\ pid' = [pid EXCEPT ![p] = alloc_pid]
          /\ Resume(Push(RunState, p, "ready", "READY"))
          /\ locks_got' = [locks_got EXCEPT ![p] = [j \in Slot |-> NULL]]
          /\ UNCHANGED panic
    BY <1>2, <2>1
  <2>3. i <= p /\ p <= i
    BY <1>3, <1>4, <2>2 DEF FreeStack
  <2>4. i = p
    BY <2>3 DEF Task
  <2> QED
    BY <2>2, <2>4 DEF alloc_pid
<1>6. /\ RunOK(k) /\ k.status = [status EXCEPT ![p] = "READY"]
      /\ \A r \in Queue \ {"ready"} : k.queue[r] = queue[r]
  <2>1. RunState.status[p] \notin Queued /\ "READY" \in Queued /\ "ready" \in QueueOf("READY")
    BY <1>0, <1>3 DEF Queued, QueueOf
  <2> QED
    BY <1>0, <1>1, <2>1, PushOK
<1> HIDE DEF k
<1>7. RunOK(RunState)' /\ status' = k.status /\ queue' = k.queue
  BY <1>5, <1>6, ResumeOK
<1>8. \A x \in Task : /\ status'[x] = IF x = p THEN "READY" ELSE status[x]
                      /\ pid'[x] = IF x = p THEN next_pid ELSE pid[x]
                      /\ kernel_sp'[x] = IF x = p THEN p ELSE kernel_sp[x]
                      /\ kernel_stack_used'[x] = IF x = p THEN TRUE ELSE kernel_stack_used[x]
  BY <1>1, <1>5, <1>6, <1>7, TaskFacts DEF TypeOK
<1>9. TypeOK'
  <2>1. /\ status' \in [Pcb -> Status] /\ in_queue' \in [Pcb -> Queue \cup {NULL}]
        /\ queue' \in [Queue -> Seq(Task)]
    BY <1>7 DEF RunOK, RunState
  <2>2. locks_got' \in [Pcb -> [Slot -> Lock \cup {NULL}]]
    BY <1>1, <1>5 DEF TypeOK
  <2>3. /\ pid' \in [Pcb -> Nat] /\ next_pid' \in Nat \ {0}
        /\ kernel_sp' \in [Pcb -> Pcb] /\ kernel_stack_used' \in [Pcb -> BOOLEAN]
    BY <1>1, <1>5, TaskFacts DEF TypeOK
  <2> QED
    BY <1>1, <1>5, <2>1, <2>2, <2>3 DEF TypeOK
<1>10. RunnerInv'
  <2>1. current_running # p
    BY <1>1, <1>3
  <2>2. current_running # 0 => current_running \in Task
    BY <1>1, TaskFacts DEF TypeOK
  <2> QED
    BY <1>1, <1>5, <1>8, <2>1, <2>2 DEF SchedInv, RunnerInv, Off
<1>11. StackInv'
  <2>1. freeing'.victim = 0 /\ panic' # "no_stack"
    BY <1>1, <1>5 DEF NotFreeing
  <2> QED
    BY <1>4, <1>8, <2>1, TaskFacts DEF SchedInv, StackInv
<1>12. PidInv'
  <2>1. pid'[0] = 0
    BY <1>1, <1>5, TaskFacts DEF SchedInv, PidInv, TypeOK
  <2>2. \A x \in Task : pid[x] \in Nat /\ next_pid \in Nat \ {0}
    BY <1>1, TaskFacts DEF TypeOK
  <2>3. \A x \in Task : /\ pid[x] < next_pid /\ (pid[x] = 0 <=> status[x] = "NONE")
                        /\ \A r \in Task : pid[x] = pid[r] /\ pid[x] # 0 => x = r
    BY DEF SchedInv, PidInv, PidsUnique
  <2>6. \A x \in Task : /\ pid'[x] = IF x = p THEN next_pid ELSE pid[x]
                        /\ status'[x] = IF x = p THEN "READY" ELSE status[x]
    BY <1>8
  <2>4. ASSUME NEW x \in Task
        PROVE  pid'[x] < next_pid' /\ (pid'[x] = 0 <=> status'[x] = "NONE")
    <3>1. CASE x = p
      BY <1>1, <2>2, <2>6, <3>1
    <3>2. CASE x # p
      BY <1>1, <2>2, <2>3, <2>6, <3>2
    <3> QED
      BY <3>1, <3>2
  <2>5. ASSUME NEW x \in Task, NEW r \in Task, pid'[x] = pid'[r], pid'[x] # 0
        PROVE  x = r
    <3>1. CASE x = p /\ r # p
      BY <2>2, <2>3, <2>5, <2>6, <3>1
    <3>2. CASE x # p /\ r = p
      BY <2>2, <2>3, <2>5, <2>6, <3>2
    <3>3. CASE x # p /\ r # p
      BY <2>3, <2>5, <2>6, <3>3
    <3> QED
      BY <3>1, <3>2, <3>3
  <2> QED
    BY <2>1, <2>4, <2>5 DEF PidInv, PidsUnique
<1>13. WaitInv'
  <2>1. queue'["waitpid"] = queue["waitpid"] /\ waitpid' = waitpid
    BY <1>1, <1>6, <1>7, QueueFacts DEF KernelQueue
  <2>2. pid[p] = 0
    BY <1>3 DEF SchedInv, PidInv, PidsUnique
  <2> SUFFICES ASSUME NEW x \in Task, x \in Range(queue["waitpid"]), waitpid[x] # 0
               PROVE  \E r \in Task : pid'[r] = waitpid[x]
    BY <2>1 DEF WaitInv, WaitersHaveTarget
  <2>3. PICK r \in Task : pid[r] = waitpid[x]
    BY DEF SchedInv, WaitInv, WaitersHaveTarget
  <2> QED
    BY <1>8, <2>2, <2>3
<1>14. ShellInv'
  <2>1. \A x \in Task : pid[x] = 1 => status[x] \in {"READY", "RUNNING", "EXITED"}
    BY DEF SchedInv, ShellInv
  <2> QED
    BY <1>1, <1>5, <1>8, <2>1 DEF ShellInv, ShellKeepsReady
<1> QED
  BY <1>7, <1>9, <1>10, <1>11, <1>12, <1>13, <1>14 DEF SchedInv

LEMMA StutterInv == SchedInv /\ UNCHANGED vars => SchedInv'
<1> SUFFICES ASSUME SchedInv, UNCHANGED vars
             PROVE  SchedInv'
  OBVIOUS
<1>1. /\ status' = status /\ in_queue' = in_queue /\ queue' = queue
      /\ kernel_sp' = kernel_sp /\ kernel_stack_used' = kernel_stack_used
      /\ locks_got' = locks_got /\ lock_status' = lock_status
      /\ holders' = holders /\ tainted' = tainted
      /\ pid' = pid /\ next_pid' = next_pid /\ current_running' = current_running
      /\ sleep_until' = sleep_until /\ waitpid' = waitpid
      /\ time_elapsed' = time_elapsed /\ freeing' = freeing /\ panic' = panic
  BY DEF vars, run, stack, locks, ids
<1>2. TypeOK'
  BY <1>1 DEF SchedInv, TypeOK
<1>3. RunOK(RunState)'
  BY <1>1 DEF SchedInv, RunOK, RunState
<1>4. RunnerInv' /\ StackInv' /\ PidInv'
  BY <1>1 DEF SchedInv, RunnerInv, StackInv, PidInv, PidsUnique
<1>5. WaitInv' /\ ShellInv'
  BY <1>1 DEF SchedInv, WaitInv, WaitersHaveTarget, ShellInv, ShellKeepsReady
<1> QED
  BY <1>2, <1>3, <1>4, <1>5 DEF SchedInv

LEMMA NextSchedInv == SchedInv /\ [Next]_vars => SchedInv'
<1> SUFFICES ASSUME SchedInv, [Next]_vars
             PROVE  SchedInv'
  OBVIOUS
<1>1. CASE BootLoop
  BY <1>1, BootLoopInv
<1>2. CASE irq_timer
  BY <1>2, TimerInterruptInv
<1>3. CASE ReapExited
  BY <1>3, ReapExitedInv
<1>4. CASE FreeLock
  BY <1>4, FreeLockInv
<1>5. CASE FreeDone
  BY <1>5, FreeDoneInv
<1>6. CASE do_spawn
  BY <1>6, SpawnInv
<1>7. CASE do_exit
  BY <1>7, ExitInv
<1>8. CASE do_scheduler
  BY <1>8, YieldInv
<1>9. ASSUME NEW n \in 0..MaxSleep, do_sleep(n)
      PROVE  SchedInv'
  BY <1>9, SleepInv
<1>10. ASSUME NEW p \in 0..MaxPid, do_kill(p) \/ do_waitpid(p)
       PROVE  SchedInv'
  BY <1>10, KillInv, WaitpidInv
<1>11. ASSUME NEW l \in Lock,
              do_mutex_lock_init(l) \/ do_mutex_lock_acquire(l) \/ UnlockCall(l)
       PROVE  SchedInv'
  BY <1>11, LockInitInv, AcquireInv, UnlockInv
<1>12. CASE UNCHANGED vars
  BY <1>12, StutterInv
<1> QED
  BY <1>1, <1>2, <1>3, <1>4, <1>5, <1>6, <1>7, <1>8, <1>9, <1>10, <1>11, <1>12 DEF Next

\* SchedInv is an invariant of the specification.
LEMMA SchedInvariant == Spec => []SchedInv
<1>1. Init => SchedInv
  BY InitSchedInv
<1>2. SchedInv /\ [Next]_vars => SchedInv'
  BY NextSchedInv
<1> QED
  BY <1>1, <1>2, PTL DEF Spec
-----------------------------------------------------------------------------
(***************************************************************************)
(* The results.                                                            *)
(***************************************************************************)

\* The variables of sched.c, lock.c and irq.c keep their types.
THEOREM SchedTypeOK == Spec => []TypeOK
<1>1. SchedInv => TypeOK
  BY DEF SchedInv
<1> QED
  BY <1>1, SchedInvariant, PTL

\* Every handler of sched.c and lock.c leaves the ready, sleep, waitpid and lock
\* queues, the statuses and in_queue in agreement, whatever order they run in.
THEOREM SchedQueues == Spec => []QueuesConsistent
<1>1. SchedInv => QueuesConsistent
  BY DEF SchedInv, RunOK, RunState, QueuesConsistent
<1> QED
  BY <1>1, SchedInvariant, PTL

\* Only current_running runs, and the processor is never left with a process that
\* scheduler, do_sleep, do_block or do_waitpid took off it.
THEOREM SchedOneRunner == Spec => []OneRunner
<1>1. SchedInv => OneRunner
  <2> SUFFICES ASSUME SchedInv
               PROVE  OneRunner
    OBVIOUS
  <2>1. CASE freeing = NotFreeing
    BY <2>1 DEF SchedInv, RunnerInv, OneRunner, Off
  <2>2. CASE freeing # NotFreeing
    <3>1. status[current_running] \in Off
      BY <2>2 DEF SchedInv, RunnerInv, TypeOK, Stage, Off
    <3> QED
      BY <2>2, <3>1 DEF SchedInv, RunnerInv, OneRunner, Off
  <2> QED
    BY <2>1, <2>2
<1> QED
  BY <1>1, SchedInvariant, PTL

\* Live processes have kernel stacks of their own, and new_kernel_stack never fails
\* in do_spawn.
THEOREM SchedStacks == Spec => []StackPerProcess
<1>1. SchedInv => StackPerProcess
  BY DEF SchedInv, StackInv, StackPerProcess
<1> QED
  BY <1>1, SchedInvariant, PTL

\* A pid names one process, for every order of do_spawn, do_exit and do_kill.
THEOREM SchedPids == Spec => []PidsUnique
<1>1. SchedInv => PidsUnique
  BY DEF SchedInv, PidInv
<1> QED
  BY <1>1, SchedInvariant, PTL

\* No process waits in do_waitpid for a process that free_proc has freed.
THEOREM SchedWaiters == Spec => []WaitersHaveTarget
<1>1. SchedInv => WaitersHaveTarget
  BY DEF SchedInv, WaitInv
<1> QED
  BY <1>1, SchedInvariant, PTL

\* As long as the shell lives, scheduler finds a ready process.
THEOREM SchedShell == Spec => []ShellKeepsReady
<1>1. SchedInv => ShellKeepsReady
  BY DEF SchedInv, ShellInv
<1> QED
  BY <1>1, SchedInvariant, PTL
-----------------------------------------------------------------------------
(***************************************************************************)
(* The mutex locks.  Their proofs rest on SchedInv and on a frame fact: no *)
(* handler but those of lock.c touches the locks, and none makes an empty  *)
(* lock queue nonempty.                                                    *)
(***************************************************************************)

LockInv == NoWaiterOnFreeLock /\ ExclusionUntilTainted

\* Steps that leave the locks alone, and their queues at least when they are empty.
LockFrame ==
  /\ UNCHANGED <<lock_status, tainted>>
  /\ \A l \in Lock : holders'[l] \subseteq holders[l]
  /\ \A l \in Lock : queue[l] = <<>> => queue'[l] = <<>>

LEMMA FrameInv == ASSUME LockInv, LockFrame
                  PROVE  LockInv'
  BY DEF LockInv, LockFrame, NoWaiterOnFreeLock, ExclusionUntilTainted

LEMMA LockQueueNames == \A l \in Lock : l \in Queue \ {"sleep", "ready", "waitpid"}
  BY QueueFacts DEF KernelQueue

\* The handlers that end in scheduler() with the running process still ready.
LEMMA SchedulerFrame ==
  ASSUME SchedInv, panic = "none", freeing = NotFreeing,
         current_running = 0 \/ status[current_running] = "RUNNING",
         NEW now, scheduler(RunState, now)
  PROVE  \A l \in Lock : queue'[l] = queue[l]
<1> DEFINE k == Preempt(check_sleeping(RunState, sleep_until, now))
<1>1. Settled(k) /\ \A q \in Queue \ {"sleep", "ready"} : k.queue[q] = queue[q]
  BY PreemptSettled
<1>2. Dispatch(k)
  BY DEF scheduler
<1> HIDE DEF k
<1>3. \A q \in Queue \ {"ready"} : queue'[q] = k.queue[q]
  BY <1>1, <1>2, DispatchOK DEF Settled
<1> QED
  BY <1>1, <1>3, LockQueueNames

\* The handlers in which the running process sleeps or waits in q.
LEMMA BlockFrame ==
  ASSUME SchedInv, panic = "none", freeing = NotFreeing,
         status[current_running] = "RUNNING", pid[current_running] # 1,
         NEW st \in Queued \ {"READY"}, NEW q \in QueueOf(st), NEW until, NEW now,
         Dispatch(check_sleeping(Push(RunState, current_running, q, st), until, now))
  PROVE  \A l \in Lock \ {q} : queue'[l] = queue[l]
<1> DEFINE k == check_sleeping(Push(RunState, current_running, q, st), until, now)
<1>1. Settled(k) /\ \A r \in Queue \ {"sleep", "ready"} :
                      k.queue[r] = IF r = q THEN Append(queue[r], current_running) ELSE queue[r]
  BY BlockSettled
<1>2. Dispatch(k)
  OBVIOUS
<1> HIDE DEF k
<1>3. \A r \in Queue \ {"ready"} : queue'[r] = k.queue[r]
  BY <1>1, <1>2, DispatchOK DEF Settled
<1> QED
  BY <1>1, <1>3, LockQueueNames

LEMMA FreeDoneFrame == SchedInv /\ FreeDone => \A l \in Lock : queue'[l] = queue[l]
<1> SUFFICES ASSUME SchedInv, FreeDone
             PROVE  \A l \in Lock : queue'[l] = queue[l]
  OBVIOUS
<1> DEFINE v == freeing.victim
           w == Wake(RunState, "waitpid", WaitingFor(v))
           k == SetStatus(w, v, "NONE")
           A == WaitingFor(v)
<1>0. RunState.queue = queue /\ RunState.status = status /\ RunState.in_queue = in_queue
  BY DEF RunState
<1>1. /\ freeing # NotFreeing /\ v \in Task /\ status[v] = "EXITED"
      /\ TypeOK /\ RunOK(RunState)
  BY DEF FreeDone, SchedInv, RunnerInv
<1>2. \/ Resume(k)
      \/ Dispatch(check_sleeping(k, sleep_until, get_timer(time_elapsed)))
      \/ Dispatch(k)
  BY DEF FreeDone
<1>3. "waitpid" \in Queue /\ "waitpid" # "ready"
  BY QueueFacts DEF KernelQueue
<1>4. /\ RunOK(w)
      /\ \A p \in Pcb : w.status[p] = IF p \in Range(queue["waitpid"]) \cap A
                                       THEN "READY" ELSE status[p]
      /\ \A r \in Queue \ {"waitpid", "ready"} : w.queue[r] = queue[r]
  <2> HIDE DEF A
  <2>1. w = Wake(RunState, "waitpid", A)
    BY DEF A
  <2> HIDE DEF w
  <2> QED
    BY <1>0, <1>1, <1>3, <2>1, WakeOK
<1> HIDE DEF w, A
<1>5. v \notin Range(queue["waitpid"])
  BY <1>0, <1>1, <1>3 DEF RunOK, Queued
<1>6. RunOK(k) /\ k.queue = w.queue
  <2>1. w.status[v] = "EXITED"
    BY <1>1, <1>4, <1>5, TaskFacts
  <2>2. RunOK(k)
    BY <1>1, <1>4, <2>1, StatusOK DEF Status, Queued
  <2> QED
    BY <2>2 DEF SetStatus
<1> HIDE DEF k
<1>7. \A l \in Lock : k.queue[l] = queue[l]
  BY <1>4, <1>6, LockQueueNames
<1>8. CASE Resume(k)
  BY <1>7, <1>8 DEF Resume
<1>9. CASE Dispatch(k)
  BY <1>6, <1>7, <1>9, DispatchOK, LockQueueNames
<1>10. CASE Dispatch(check_sleeping(k, sleep_until, get_timer(time_elapsed)))
  <2> DEFINE d == check_sleeping(k, sleep_until, get_timer(time_elapsed))
  <2>1. RunOK(d) /\ \A q \in Queue \ {"sleep", "ready"} : d.queue[q] = k.queue[q]
    BY <1>6, CheckSleepingOK
  <2>2. Dispatch(d)
    BY <1>10
  <2> HIDE DEF d
  <2>3. \A q \in Queue \ {"ready"} : queue'[q] = d.queue[q]
    BY <2>1, <2>2, DispatchOK
  <2> QED
    BY <1>7, <2>1, <2>3, LockQueueNames
<1> QED
  BY <1>2, <1>8, <1>9, <1>10

\* do_kill takes its victim off a queue, but fills none.
LEMMA KillFrame ==
  ASSUME SchedInv, NEW t \in 0..MaxPid, do_kill(t)
  PROVE  \A l \in Lock : queue[l] = <<>> => queue'[l] = <<>>
<1>0. RunState.queue = queue /\ RunState.status = status /\ RunState.in_queue = in_queue
  BY DEF RunState
<1>1. /\ freeing = NotFreeing /\ TypeOK /\ RunOK(RunState)
  BY DEF do_kill, InCall, Idle, SchedInv
<1>2. CASE queue' = queue
  BY <1>2
<1>3. ASSUME NEW p \in Task \ {current_running}, t # 0, pid[p] = t,
             Resume(Unlink(RunState, p))
      PROVE  \A l \in Lock : queue[l] = <<>> => queue'[l] = <<>>
  <2>1. status[p] # "NONE"
    BY <1>3 DEF SchedInv, PidInv, PidsUnique
  <2>2. status[p] \in Queued
    BY <1>1, <2>1, TaskFacts DEF SchedInv, RunnerInv, TypeOK, Status, Queued, Off
  <2>3. in_queue[p] \in Queue
    BY <1>0, <1>1, <2>2, QueueFacts DEF RunOK, QueueOf, KernelQueue
  <2>4. p \in Range(queue[in_queue[p]])
    BY <1>0, <1>1, <2>2, <2>3 DEF RunOK
  <2>5. Range(<<>>) = {}
    BY DEF Range
  <2>6. queue' = [queue EXCEPT ![in_queue[p]] = Without(@, p)]
    BY <1>0, <1>3 DEF Resume, Unlink
  <2>7. \A l \in Lock : queue[l] = <<>> => l # in_queue[p]
    BY <2>4, <2>5
  <2> QED
    BY <1>1, <2>6, <2>7, LockQueueNames DEF TypeOK
<1> QED
  BY <1>2, <1>3 DEF do_kill, free_proc, run

LEMMA FrameStep ==
  ASSUME SchedInv,
         \/ BootLoop \/ irq_timer \/ ReapExited \/ FreeDone \/ do_spawn \/ do_exit
         \/ do_scheduler \/ (\E n \in 0..MaxSleep : do_sleep(n))
         \/ (\E p \in 0..MaxPid : do_kill(p) \/ do_waitpid(p)) \/ UNCHANGED vars
  PROVE  LockFrame
<1>0. /\ holders \in [Lock -> SUBSET Task] /\ queue \in [Queue -> Seq(Task)]
      /\ RunState.queue = queue /\ RunState.status = status /\ RunState.in_queue = in_queue
      /\ RunOK(RunState) /\ current_running \in Pcb
  BY DEF SchedInv, TypeOK, RunState
<1>1. CASE BootLoop
  BY <1>1, SchedulerFrame DEF BootLoop, Idle, LockFrame, locks
<1>2. CASE irq_timer
  BY <1>2, SchedulerFrame DEF irq_timer, Idle, LockFrame, locks
<1>3. CASE do_scheduler
  BY <1>3, SchedulerFrame DEF do_scheduler, InCall, Idle, LockFrame, locks
<1>4. ASSUME NEW n \in 0..MaxSleep, do_sleep(n)
      PROVE  LockFrame
  <2>1. /\ panic = "none" /\ freeing = NotFreeing /\ status[current_running] = "RUNNING"
        /\ pid[current_running] # 1 /\ UNCHANGED locks
    BY <1>4 DEF do_sleep, InCall, Idle, ShellCall
  <2>2. "SLEEPING" \in Queued \ {"READY"} /\ "sleep" \in QueueOf("SLEEPING")
    BY DEF Queued, QueueOf
  <2>3. Dispatch(check_sleeping(Push(RunState, current_running, "sleep", "SLEEPING"),
                                sleep_until', get_timer(time_elapsed)))
    BY <1>4 DEF do_sleep
  <2>4. \A l \in Lock \ {"sleep"} : queue'[l] = queue[l]
    BY <2>1, <2>2, <2>3, BlockFrame
  <2> QED
    BY <2>1, <2>4, LockQueueNames DEF LockFrame, locks
<1>5. ASSUME NEW p \in 0..MaxPid, do_waitpid(p)
      PROVE  LockFrame
  <2>1. /\ panic = "none" /\ freeing = NotFreeing /\ status[current_running] = "RUNNING"
        /\ pid[current_running] # 1 /\ UNCHANGED locks
    BY <1>5 DEF do_waitpid, InCall, Idle, ShellCall
  <2>2. "BLOCKED" \in Queued \ {"READY"} /\ "waitpid" \in QueueOf("BLOCKED")
    BY DEF Queued, QueueOf
  <2>3. Dispatch(check_sleeping(Push(RunState, current_running, "waitpid", "BLOCKED"),
                                sleep_until, get_timer(time_elapsed)))
    BY <1>5 DEF do_waitpid, do_block
  <2>4. \A l \in Lock \ {"waitpid"} : queue'[l] = queue[l]
    BY <2>1, <2>2, <2>3, BlockFrame
  <2> QED
    BY <2>1, <2>4, LockQueueNames DEF LockFrame, locks
<1>6. ASSUME NEW p \in 0..MaxPid, do_kill(p)
      PROVE  LockFrame
  BY <1>6, KillFrame DEF do_kill, LockFrame, locks
<1>7. CASE FreeDone
  <2>1. UNCHANGED <<lock_status, tainted>> /\ holders' = [l \in Lock |-> holders[l] \ {freeing.victim}]
    BY <1>7 DEF FreeDone
  <2> QED
    BY <1>7, <2>1, FreeDoneFrame DEF LockFrame
<1>8. CASE ReapExited
  <2> DEFINE k == check_sleeping(RunState, sleep_until, get_timer(time_elapsed'))
  <2>1. UNCHANGED locks /\ queue' = k.queue
    BY <1>8 DEF ReapExited, free_proc, Resume
  <2>2. \A q \in Queue \ {"sleep", "ready"} : k.queue[q] = queue[q]
    BY <1>0, CheckSleepingOK
  <2> HIDE DEF k
  <2> QED
    BY <2>1, <2>2, LockQueueNames DEF LockFrame, locks
<1>9. CASE do_exit
  <2>1. UNCHANGED locks /\ queue' = queue
    BY <1>0, <1>9 DEF do_exit, free_proc, Resume, SetStatus
  <2> QED
    BY <2>1 DEF LockFrame, locks
<1>10. CASE do_spawn
  <2>1. UNCHANGED <<lock_status, holders, tainted>>
    BY <1>10 DEF do_spawn
  <2>2. queue' = queue \/ \E p \in Task : queue' = [queue EXCEPT !["ready"] = Append(@, p)]
    BY <1>0, <1>10 DEF do_spawn, run, Resume, Push
  <2>3. \A l \in Lock : queue'[l] = queue[l]
    BY <1>0, <2>2, LockQueueNames
  <2> QED
    BY <2>1, <2>3 DEF LockFrame
<1>11. CASE UNCHANGED vars
  BY <1>11 DEF vars, run, locks, LockFrame
<1> QED
  BY <1>1, <1>2, <1>3, <1>4, <1>5, <1>6, <1>7, <1>8, <1>9, <1>10, <1>11

\* What NoBarging says of one step.
InOrder == \A l \in Lock : \A p \in holders'[l] \ holders[l] :
             queue[l] = <<>> \/ p = Head(queue[l])

LEMMA ReleaseLock ==
  ASSUME SchedInv, LockInv, NEW l \in Lock, NEW p \in Task, do_mutex_lock_release(l, p),
         \A m \in Lock \ {l} : tainted'[m] = tainted[m],
         tainted[l] \/ p \notin holders[l] => tainted'[l]
  PROVE  LockInv' /\ InOrder
<1>0. /\ holders \in [Lock -> SUBSET Task] /\ queue \in [Queue -> Seq(Task)]
      /\ lock_status \in [Lock -> {"LOCKED", "UNLOCKED"}]
      /\ RunState.queue = queue /\ RunOK(RunState)
  BY DEF SchedInv, TypeOK, RunState
<1>1. ~tainted'[l] => ~tainted[l] /\ p \in holders[l]
  OBVIOUS
<1>2. CASE queue[l] = <<>>
  <2>1. /\ lock_status' = [lock_status EXCEPT ![l] = "UNLOCKED"]
        /\ holders' = [holders EXCEPT ![l] = @ \ {p}]
        /\ queue' = queue
    BY <1>2 DEF do_mutex_lock_release, run
  <2>2. \A m \in Lock : holders'[m] \subseteq holders[m]
    BY <1>0, <2>1
  <2>3. ~tainted'[l] => holders'[l] = {}
    BY <1>0, <1>1, <2>1 DEF LockInv, ExclusionUntilTainted
  <2>4. NoWaiterOnFreeLock'
    BY <1>0, <1>2, <2>1 DEF LockInv, NoWaiterOnFreeLock
  <2>5. ExclusionUntilTainted'
    BY <1>0, <2>1, <2>2, <2>3 DEF LockInv, ExclusionUntilTainted
  <2> QED
    BY <2>2, <2>4, <2>5 DEF LockInv, InOrder
<1>3. CASE queue[l] # <<>>
  <2> DEFINE h == Head(queue[l])
             w == Wake(RunState, l, {h})
  <2>1. /\ Resume(w) /\ lock_status' = lock_status
        /\ holders' = [holders EXCEPT ![l] = (@ \ {p}) \cup {h}]
    BY <1>0, <1>3 DEF do_mutex_lock_release, do_unblock_one
  <2>2. \A r \in Queue \ {l, "ready"} : w.queue[r] = queue[r]
    BY <1>0, LockQueueNames, WakeOK
  <2> HIDE DEF w, h
  <2>3. \A m \in Lock \ {l} : queue'[m] = queue[m] /\ holders'[m] = holders[m]
    BY <1>0, <2>1, <2>2, LockQueueNames DEF Resume
  <2>4. holders'[l] = (holders[l] \ {p}) \cup {h}
    BY <1>0, <2>1
  <2>5. lock_status[l] = "LOCKED"
    BY <1>0, <1>3 DEF LockInv, NoWaiterOnFreeLock
  <2>6. ~tainted'[l] => holders'[l] = {h}
    BY <1>1, <2>4 DEF LockInv, ExclusionUntilTainted
  <2>7. NoWaiterOnFreeLock'
    BY <2>1, <2>3, <2>5 DEF LockInv, NoWaiterOnFreeLock
  <2>8. ExclusionUntilTainted'
    BY <2>1, <2>3, <2>5, <2>6 DEF LockInv, ExclusionUntilTainted
  <2>9. InOrder
    BY <2>3, <2>4 DEF InOrder, h
  <2> QED
    BY <2>7, <2>8, <2>9 DEF LockInv
<1> QED
  BY <1>2, <1>3

LEMMA UnlockLock == ASSUME SchedInv, LockInv, NEW l \in Lock, UnlockCall(l)
                    PROVE  LockInv' /\ InOrder
<1>1. /\ current_running \in holders[l] /\ do_mutex_lock_release(l, current_running)
      /\ tainted' = tainted
  BY DEF UnlockCall
<1>2. current_running \in Task
  BY <1>1 DEF SchedInv, TypeOK
<1> QED
  BY <1>1, <1>2, ReleaseLock

LEMMA FreeLockLock == SchedInv /\ LockInv /\ FreeLock => LockInv' /\ InOrder
<1> SUFFICES ASSUME SchedInv, LockInv, FreeLock
             PROVE  LockInv' /\ InOrder
  OBVIOUS
<1> DEFINE v == freeing.victim
<1>1. TypeOK /\ v \in Task /\ freeing.slot \in 0..MaxLock
  BY DEF FreeLock, SchedInv, RunnerInv, TypeOK
<1>2. PICK i \in Pending :
        /\ do_mutex_lock_release(locks_got[v][i], v)
        /\ tainted' = [tainted EXCEPT ![locks_got[v][i]] = @ \/ v \notin holders[locks_got[v][i]]]
  BY DEF FreeLock
<1> DEFINE l == locks_got[v][i]
<1>3. l \in Lock
  BY <1>1, LockAssumption, TaskFacts DEF Pending, Slot, TypeOK
<1>4. /\ do_mutex_lock_release(l, v)
      /\ tainted' = [tainted EXCEPT ![l] = @ \/ v \notin holders[l]]
  BY <1>2
<1> HIDE DEF l
<1>5. /\ \A m \in Lock \ {l} : tainted'[m] = tainted[m]
      /\ tainted[l] \/ v \notin holders[l] => tainted'[l]
  <2>1. tainted'[l] = (tainted[l] \/ v \notin holders[l])
    BY <1>1, <1>3, <1>4 DEF TypeOK
  <2> QED
    BY <1>1, <1>3, <1>4, <2>1 DEF TypeOK
<1> QED
  BY <1>1, <1>3, <1>4, <1>5, ReleaseLock

LEMMA AcquireLock == ASSUME SchedInv, LockInv, NEW l \in Lock, do_mutex_lock_acquire(l)
                     PROVE  LockInv' /\ InOrder
<1>0. /\ holders \in [Lock -> SUBSET Task] /\ queue \in [Queue -> Seq(Task)]
      /\ lock_status \in [Lock -> {"LOCKED", "UNLOCKED"}] /\ tainted' = tainted
  BY DEF SchedInv, TypeOK, do_mutex_lock_acquire
<1>1. CASE /\ lock_status[l] = "UNLOCKED"
           /\ lock_status' = [lock_status EXCEPT ![l] = "LOCKED"]
           /\ holders' = [holders EXCEPT ![l] = @ \cup {current_running}]
           /\ queue' = queue
  <2>1. \A m \in Lock \ {l} : holders'[m] = holders[m] /\ lock_status'[m] = lock_status[m]
    BY <1>0, <1>1
  <2>2. holders'[l] = holders[l] \cup {current_running} /\ lock_status'[l] = "LOCKED"
    BY <1>0, <1>1
  <2>3. ~tainted[l] => holders[l] = {}
    BY <1>1 DEF LockInv, ExclusionUntilTainted
  <2>4. queue[l] = <<>>
    BY <1>1 DEF LockInv, NoWaiterOnFreeLock
  <2>5. NoWaiterOnFreeLock'
    BY <1>1, <2>1, <2>2 DEF LockInv, NoWaiterOnFreeLock
  <2>6. ExclusionUntilTainted'
    BY <1>0, <2>1, <2>2, <2>3 DEF LockInv, ExclusionUntilTainted
  <2> QED
    BY <2>1, <2>2, <2>4, <2>5, <2>6 DEF LockInv, InOrder
<1>2. CASE /\ lock_status[l] = "LOCKED" /\ do_block(l)
           /\ UNCHANGED <<lock_status, holders>>
  <2>1. /\ panic = "none" /\ freeing = NotFreeing /\ status[current_running] = "RUNNING"
        /\ pid[current_running] # 1
    BY DEF do_mutex_lock_acquire, InCall, Idle, ShellCall
  <2>2. "BLOCKED" \in Queued \ {"READY"} /\ l \in QueueOf("BLOCKED")
    BY DEF Queued, QueueOf
  <2>3. Dispatch(check_sleeping(Push(RunState, current_running, l, "BLOCKED"),
                                sleep_until, get_timer(time_elapsed)))
    BY <1>2 DEF do_block
  <2>4. \A m \in Lock \ {l} : queue'[m] = queue[m]
    BY <2>1, <2>2, <2>3, BlockFrame
  <2>5. NoWaiterOnFreeLock'
    BY <1>2, <2>4 DEF LockInv, NoWaiterOnFreeLock
  <2>6. ExclusionUntilTainted'
    BY <1>0, <1>2 DEF LockInv, ExclusionUntilTainted
  <2> QED
    BY <1>2, <2>5, <2>6 DEF LockInv, InOrder
<1> QED
  BY <1>1, <1>2 DEF do_mutex_lock_acquire, run

LEMMA InitLock == ASSUME SchedInv, LockInv, NEW l \in Lock, do_mutex_lock_init(l)
                  PROVE  LockInv' /\ InOrder
<1>1. /\ lock_status' = [lock_status EXCEPT ![l] = "UNLOCKED"]
      /\ queue' = [queue EXCEPT ![l] = <<>>] /\ queue[l] = <<>> /\ holders[l] = {}
      /\ holders' = holders /\ tainted' = tainted
  BY DEF do_mutex_lock_init
<1>2. queue' = queue
  BY <1>1, LockQueueNames DEF SchedInv, TypeOK
<1>3. \A m \in Lock : lock_status'[m] = IF m = l THEN "UNLOCKED" ELSE lock_status[m]
  BY <1>1 DEF SchedInv, TypeOK
<1>4. NoWaiterOnFreeLock' /\ ExclusionUntilTainted'
  BY <1>1, <1>2, <1>3 DEF LockInv, NoWaiterOnFreeLock, ExclusionUntilTainted
<1> QED
  BY <1>1, <1>4 DEF LockInv, InOrder

LEMMA NextLock == SchedInv /\ LockInv /\ [Next]_vars => LockInv' /\ InOrder
<1> SUFFICES ASSUME SchedInv, LockInv, [Next]_vars
             PROVE  LockInv' /\ InOrder
  OBVIOUS
<1>1. CASE \/ BootLoop \/ irq_timer \/ ReapExited \/ FreeDone \/ do_spawn \/ do_exit
           \/ do_scheduler \/ (\E n \in 0..MaxSleep : do_sleep(n))
           \/ (\E p \in 0..MaxPid : do_kill(p) \/ do_waitpid(p)) \/ UNCHANGED vars
  <2>1. LockFrame
    BY <1>1, FrameStep
  <2> QED
    BY <2>1, FrameInv DEF LockFrame, InOrder
<1>2. CASE FreeLock
  BY <1>2, FreeLockLock
<1>3. ASSUME NEW l \in Lock,
             do_mutex_lock_init(l) \/ do_mutex_lock_acquire(l) \/ UnlockCall(l)
      PROVE  LockInv' /\ InOrder
  BY <1>3, InitLock, AcquireLock, UnlockLock
<1> QED
  BY <1>1, <1>2, <1>3 DEF Next

LEMMA LockInvariant == Spec => []LockInv
<1>1. Init => LockInv
  BY LockQueueNames DEF Init, LockInv, NoWaiterOnFreeLock, ExclusionUntilTainted
<1>2. SchedInv /\ LockInv /\ [Next]_vars => LockInv'
  BY NextLock
<1> QED
  BY <1>1, <1>2, SchedInvariant, PTL DEF Spec
-----------------------------------------------------------------------------
(***************************************************************************)
(* The results.                                                            *)
(***************************************************************************)

\* No handler leaves a process waiting for a lock that is UNLOCKED.
THEOREM LockNoWaiterOnFree == Spec => []NoWaiterOnFreeLock
<1>1. LockInv => NoWaiterOnFreeLock
  BY DEF LockInv
<1> QED
  BY <1>1, LockInvariant, PTL

\* Mutual exclusion holds, whatever processes do and whenever they die, for every
\* lock that free_proc has not released on behalf of a process that did not hold it.
THEOREM LockExclusion == Spec => []ExclusionUntilTainted
<1>1. LockInv => ExclusionUntilTainted
  BY DEF LockInv
<1> QED
  BY <1>1, LockInvariant, PTL

\* do_mutex_lock_acquire and do_mutex_lock_release serve waiters in order.
THEOREM LockNoBarging == Spec => NoBarging
<1>1. SchedInv /\ LockInv /\ [Next]_vars => [InOrder]_vars
  BY NextLock
<1> QED
  BY <1>1, SchedInvariant, LockInvariant, PTL DEF Spec, NoBarging, InOrder
=============================================================================
