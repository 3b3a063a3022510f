------------------------------ MODULE MCSched ------------------------------
(***************************************************************************)
(* Sched for TLC, with the queue operators compared with the standard      *)
(* definition on all short queues without repetitions.                     *)
(***************************************************************************)
EXTENDS Sched

ShortQueue == {s \in UNION {[1..n -> Task] : n \in 0..3} : IsInjective(s)}

ASSUME KeepSelects ==
  \A s \in ShortQueue, A \in SUBSET Task :
    Keep(s, A) = SelectSeq(s, LAMBDA x : x \in A)

ASSUME WithoutSelects ==
  \A s \in ShortQueue : \A x \in Range(s) :
    Without(s, x) = SelectSeq(s, LAMBDA y : y # x)
=============================================================================
