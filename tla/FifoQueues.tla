----------------------------- MODULE FifoQueues -----------------------------
(***************************************************************************)
(* What kernel/sched/queue.c promises its callers: every queue is a list   *)
(* of pcbs, first come first served, from which any member can also be     *)
(* taken out of turn.  A pcb is in at most one queue at a time.            *)
(***************************************************************************)
EXTENDS QueueOps

CONSTANTS Item, Queue, NULL

VARIABLES list,   \* the pcbs in each queue, oldest first
          ret     \* what the last call returned

Free(x) == \A q \in Queue : x \notin Range(list[q])

\* The element after x in s.
Successor(s, x) == IF Pos(s, x) = Len(s) THEN NULL ELSE s[Pos(s, x) + 1]

Init == list = [q \in Queue |-> <<>>] /\ ret = NULL

Push(q, x) ==
  /\ Free(x)
  /\ list' = [list EXCEPT ![q] = Append(@, x)]
  /\ ret' = NULL

IsEmpty(q) == ret' = (list[q] = <<>>) /\ UNCHANGED list

Dequeue(q) ==
  /\ list[q] # <<>>
  /\ list' = [list EXCEPT ![q] = Tail(@)]
  /\ ret' = Head(list[q])

Remove(q, x) ==
  /\ x \in Range(list[q])
  /\ list' = [list EXCEPT ![q] = Without(@, x)]
  /\ ret' = Successor(list[q], x)

\* x moves from q to the end of r and the caller goes on with its successor.
Move(q, r, x) ==
  /\ q # r
  /\ x \in Range(list[q])
  /\ list' = [list EXCEPT ![q] = Without(@, x), ![r] = Append(@, x)]
  /\ ret' = Successor(list[q], x)

Next ==
  \E q \in Queue :
    \/ IsEmpty(q)
    \/ Dequeue(q)
    \/ \E x \in Item : \/ Push(q, x)
                       \/ Remove(q, x)
                       \/ \E r \in Queue : Move(q, r, x)

Spec == Init /\ [][Next]_<<list, ret>>
=============================================================================
