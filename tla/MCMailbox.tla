----------------------------- MODULE MCMailbox -----------------------------
(* Small instances of Mailbox. *)
EXTENDS Mailbox, TLC

CONSTANTS NamesHaveHash   \* every name has this hash

MCHash == [nm \in Name |-> NamesHaveHash]
ProcSymmetry == Permutations(Proc)
=============================================================================
