------------------------------- MODULE MCFs --------------------------------
(***************************************************************************)
(* The symmetry of the checked instance of Fs: names, values and slots of  *)
(* open files are only compared; and the old inodes.                       *)
(***************************************************************************)
EXTENDS Fs, TLC

\* Nothing, or a directory with addresses.
OldInodes == {[type |-> "NONE", addrs |-> NoAddrs],
              [type |-> "DIR", addrs |-> [k \in Index |-> NumBlock - k]]}

Symmetric == Permutations(Name) \cup Permutations(Value) \cup Permutations(File)
=============================================================================
