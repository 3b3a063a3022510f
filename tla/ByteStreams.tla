---------------------------- MODULE ByteStreams ----------------------------
(***************************************************************************)
(* What the mailboxes promise: each box is a bounded first-in first-out    *)
(* stream of bytes.  A message goes in whole or not at all, a receiver     *)
(* takes the oldest bytes, and nothing is lost while somebody has the box  *)
(* open.  When the first user opens a box it is empty.                     *)
(***************************************************************************)
EXTENDS Integers, Sequences

CONSTANTS Box, Message, Lengths, Capacity

VARIABLES
  stream,   \* the bytes in each box, oldest first
  users,    \* how many processes have opened the box and not closed it
  got       \* what was received last

vars == <<stream, users, got>>

Init ==
  /\ stream = [b \in Box |-> <<>>]
  /\ users = [b \in Box |-> 0]
  /\ got = <<>>

Open(b) ==
  /\ users' = [users EXCEPT ![b] = @ + 1]
  /\ stream' = IF users[b] = 0 THEN [stream EXCEPT ![b] = <<>>] ELSE stream
  /\ UNCHANGED got

Close(b) ==
  /\ users[b] > 0
  /\ users' = [users EXCEPT ![b] = @ - 1]
  /\ UNCHANGED <<stream, got>>

Put(b, m) ==
  /\ users[b] > 0
  /\ Len(stream[b]) + Len(m) <= Capacity
  /\ stream' = [stream EXCEPT ![b] = @ \o m]
  /\ UNCHANGED <<users, got>>

Get(b, n) ==
  /\ users[b] > 0
  /\ n <= Len(stream[b])
  /\ got' = SubSeq(stream[b], 1, n)
  /\ stream' = [stream EXCEPT ![b] = SubSeq(@, n + 1, Len(@))]
  /\ UNCHANGED users

Next == \E b \in Box : \/ Open(b) \/ Close(b)
                       \/ \E m \in Message : Put(b, m)
                       \/ \E n \in Lengths : Get(b, n)

Spec == Init /\ [][Next]_vars
=============================================================================
