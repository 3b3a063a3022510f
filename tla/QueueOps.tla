------------------------------ MODULE QueueOps ------------------------------
(***************************************************************************)
(* Operations on a FIFO queue of process control blocks, seen as a         *)
(* sequence.  They are what the list routines of kernel/sched/queue.c      *)
(* compute (module PcbQueue shows that for the linked lists themselves),   *)
(* written without recursion so that facts about them can be proved for    *)
(* queues of every length.                                                 *)
(***************************************************************************)
EXTENDS Integers, Sequences, FiniteSets, Functions

\* Where x stands in s.
Pos(s, x) == CHOOSE i \in 1..Len(s) : s[i] = x

\* What is left of s when queue_remove has unlinked x.
Without(s, x) ==
  [j \in 1..(Len(s) - 1) |-> IF j < Pos(s, x) THEN s[j] ELSE s[j + 1]]

(***************************************************************************)
(* The loops over sleep_queue and waitpid_queue visit the items from head  *)
(* to tail and move those that satisfy a condition to the ready queue.     *)
(* Keep(s, A) is the subsequence of s of the items in A: position k holds  *)
(* the item whose index is the k-th smallest one selected.                 *)
(***************************************************************************)
Selected(s, A) == {i \in 1..Len(s) : s[i] \in A}
Rank(I, i)     == Cardinality({j \in I : j <= i})
Keep(s, A) ==
  LET I == Selected(s, A)
  IN  [k \in 1..Cardinality(I) |-> s[CHOOSE i \in I : Rank(I, i) = k]]
=============================================================================
