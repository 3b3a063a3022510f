------------------------------ MODULE Barrier ------------------------------
(***************************************************************************)
(* A barrier (ipc/barrier.c) and the tasks that meet at it                 *)
(* (test/test_project3/test_barrier.c).                                    *)
(*                                                                         *)
(* The tasks run in user mode and may be preempted between any two steps;  *)
(* do_barrier_init and do_barrier_wait run in the kernel, which is not.    *)
(* A task that finds is_init zero initializes the barrier; two may find it *)
(* zero.  A task may be killed, also while it is blocked: do_kill takes it *)
(* out of the queue and does not know about the barrier.                   *)
(*                                                                         *)
(* A definition named X_fault is not part of the model: it is X with a     *)
(* plausible programming error, kept to show that a property detects it.   *)
(***************************************************************************)
EXTENDS QueueOps

CONSTANTS Task,       \* the tasks that meet
          NumTask,    \* num_task
          MaxKilled,  \* bound: how many tasks are killed
          MaxRound    \* bound: how often a task goes through the barrier

ASSUME BarrierAssumption ==
  /\ IsFiniteSet(Task) /\ NumTask = Cardinality(Task)
  /\ NumTask \in Nat \ {0} /\ MaxKilled \in Nat /\ MaxRound \in Nat

VARIABLES
  goal,          \* barrier->goal
  now,           \* barrier->now
  block_queue,   \* barrier->block_queue
  is_init,       \* is_init of the tasks
  pc,            \* what a task does next
  arrived,       \* how often a task has called barrier_wait
  passed,        \* how often it has returned from it
  killed,        \* how many tasks have been killed
  raced          \* history: a task used the barrier before it was initialized, or
                 \* before it was initialized once more

barrierVars == <<goal, now, block_queue, is_init, pc, arrived, passed, killed, raced>>

\* The barrier is a static variable.
BarrierInit ==
  /\ goal = 0 /\ now = 0 /\ block_queue = <<>>
  /\ is_init = FALSE
  /\ pc = [t \in Task |-> "start"]
  /\ arrived = [t \in Task |-> 0] /\ passed = [t \in Task |-> 0]
  /\ killed = 0
  /\ raced = FALSE
-----------------------------------------------------------------------------
\* if (!is_init)
TestInit(t) ==
  /\ pc[t] = "start"
  /\ pc' = [pc EXCEPT ![t] = IF is_init THEN "wait" ELSE "set"]
  /\ UNCHANGED <<goal, now, block_queue, is_init, arrived, passed, killed, raced>>

\* is_init = 1
SetInit(t) ==
  /\ pc[t] = "set"
  /\ is_init' = TRUE
  /\ pc' = [pc EXCEPT ![t] = "init"]
  /\ UNCHANGED <<goal, now, block_queue, arrived, passed, killed, raced>>

do_barrier_init(t) ==
  /\ pc[t] = "init"
  /\ goal' = NumTask /\ now' = 0
  /\ pc' = [pc EXCEPT ![t] = "wait"]
  /\ raced' = (raced \/ \E u \in Task : arrived[u] > 0)
  /\ UNCHANGED <<block_queue, is_init, arrived, passed, killed>>

\* The barrier opens one task early.
do_barrier_wait_fault(t) ==
  /\ pc[t] = "wait" /\ arrived[t] < MaxRound
  /\ arrived' = [arrived EXCEPT ![t] = @ + 1]
  /\ IF now + 1 < goal - 1
     THEN /\ now' = now + 1
          /\ block_queue' = Append(block_queue, t)
          /\ pc' = [pc EXCEPT ![t] = "blocked"]
          /\ UNCHANGED passed
     ELSE /\ now' = 0
          /\ block_queue' = <<>>
          /\ pc' = [u \in Task |-> IF u \in Range(block_queue) THEN "ready" ELSE pc[u]]
          /\ passed' = [passed EXCEPT ![t] = @ + 1]
  /\ raced' = (raced \/ goal = 0)
  /\ UNCHANGED <<goal, is_init, killed>>

\* Only one of the waiting tasks is unblocked.
do_barrier_wait_fault3(t) ==
  /\ pc[t] = "wait" /\ arrived[t] < MaxRound
  /\ arrived' = [arrived EXCEPT ![t] = @ + 1]
  /\ IF now + 1 < goal
     THEN /\ now' = now + 1
          /\ block_queue' = Append(block_queue, t)
          /\ pc' = [pc EXCEPT ![t] = "blocked"]
          /\ UNCHANGED passed
     ELSE /\ now' = 0
          /\ block_queue' = IF block_queue = <<>> THEN <<>> ELSE Tail(block_queue)
          /\ pc' = [u \in Task |-> IF block_queue # <<>> /\ u = Head(block_queue)
                                   THEN "ready" ELSE pc[u]]
          /\ passed' = [passed EXCEPT ![t] = @ + 1]
  /\ raced' = (raced \/ goal = 0)
  /\ UNCHANGED <<goal, is_init, killed>>

\* All but the last to arrive block; the last unblocks them and goes on.
do_barrier_wait(t) ==
  /\ pc[t] = "wait" /\ arrived[t] < MaxRound
  /\ arrived' = [arrived EXCEPT ![t] = @ + 1]
  /\ IF now + 1 < goal
     THEN /\ now' = now + 1
          /\ block_queue' = Append(block_queue, t)
          /\ pc' = [pc EXCEPT ![t] = "blocked"]
          /\ UNCHANGED passed
     ELSE /\ now' = 0
          /\ block_queue' = <<>>
          /\ pc' = [u \in Task |-> IF u \in Range(block_queue) THEN "ready" ELSE pc[u]]
          /\ passed' = [passed EXCEPT ![t] = @ + 1]
  /\ raced' = (raced \/ goal = 0)
  /\ UNCHANGED <<goal, is_init, killed>>

\* A task that was unblocked runs again and returns from barrier_wait.
Return(t) ==
  /\ pc[t] = "ready"
  /\ passed' = [passed EXCEPT ![t] = @ + 1]
  /\ pc' = [pc EXCEPT ![t] = "wait"]
  /\ UNCHANGED <<goal, now, block_queue, is_init, arrived, killed, raced>>

KillTask(t) ==
  /\ pc[t] # "dead" /\ killed < MaxKilled
  /\ killed' = killed + 1
  /\ pc' = [pc EXCEPT ![t] = "dead"]
  /\ block_queue' = Keep(block_queue, Task \ {t})
  /\ UNCHANGED <<goal, now, is_init, arrived, passed, raced>>

Step(t) == \/ TestInit(t) \/ SetInit(t) \/ do_barrier_init(t)
           \/ do_barrier_wait(t) \/ Return(t)

BarrierNext == \E t \in Task : Step(t) \/ KillTask(t)

\* Every task that can run does: the scheduler is fair.
BarrierSpec ==
  BarrierInit /\ [][BarrierNext]_barrierVars /\ \A t \in Task : WF_barrierVars(Step(t))
-----------------------------------------------------------------------------
BarrierTypeOK ==
  /\ goal \in {0, NumTask} /\ now \in 0..NumTask
  /\ block_queue \in Seq(Task)
  /\ is_init \in BOOLEAN
  /\ pc \in [Task -> {"start", "set", "init", "wait", "blocked", "ready", "dead"}]
  /\ arrived \in [Task -> 0..MaxRound] /\ passed \in [Task -> 0..MaxRound]
  /\ killed \in 0..MaxKilled /\ raced \in BOOLEAN

\* Nobody leaves the barrier for the r-th time before everybody has arrived r times,
\* whoever is killed at the barrier, provided that it was initialized once and first; and
\* the state is well typed.
NoEarlyPass == BarrierTypeOK /\ (~raced => \A t, u \in Task : passed[t] <= arrived[u])

\* A task that blocks at the barrier leaves it, unless a task was killed or the
\* initialization raced with the use of the barrier.
Passes == \A t \in Task :
            pc[t] = "blocked" ~> pc[t] # "blocked" \/ killed > 0 \/ raced
=============================================================================
