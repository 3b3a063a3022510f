------------------------------ MODULE Mailbox ------------------------------
(***************************************************************************)
(* Mailboxes (libs/mailbox.c) on top of the mutex lock and the condition   *)
(* variables each of them contains (kernel/locking/lock.c, ipc/cond.c).    *)
(*                                                                         *)
(* The kernel is not preempted, so a call runs in one step up to the point *)
(* where the process blocks in the queue of a condition.  A process that   *)
(* is in no queue is ready, and any ready process may be the next to run:  *)
(* module Sched shows that each of them eventually does.                   *)
(*                                                                         *)
(* Processes use a mailbox only between opening and closing it.  They may  *)
(* be killed at any time, also while they wait.                            *)
(***************************************************************************)
EXTENDS QueueOps

CONSTANTS Proc,        \* the processes
          Name,        \* the names of mailboxes
          NumBox,      \* MAX_NUM_BOX
          Hash,        \* the sum of a name's characters, modulo MAX_NUM_BOX
          MaxLength,   \* MAX_MBOX_LENGTH
          Byte,        \* the values of a byte
          Lengths,     \* the message lengths the processes use
          NoName,      \* the name of a mailbox that was never opened
          MaxKills     \* bound: how many processes are killed

Box     == 0..(NumBox - 1)
Index   == 0..(MaxLength - 1)
Cond    == {"not_full", "not_empty"}
Message == UNION {[1..n -> Byte] : n \in Lengths}
Request == [op : {"send"}, box : Box, msg : Message]
           \cup [op : {"recv"}, box : Box, len : Lengths]

ASSUME BoxAssumption ==
  /\ IsFiniteSet(Proc) /\ Byte # {}
  /\ NumBox \in Nat \ {0} /\ MaxLength \in Nat \ {0}
  /\ Hash \in [Name -> Box] /\ NoName \notin Name
  /\ Lengths \subseteq 1..MaxLength
  /\ MaxKills \in Nat

VARIABLES
  mboxs,     \* mboxs[MAX_NUM_BOX], with the queues of the lock and the conditions
  call,      \* the call a process is in, once it has waited on a condition
  got,       \* the bytes the last do_mbox_recv that returned copied to its caller
  handles,   \* the mailboxes a process has open
  kills,     \* how many processes have been killed
  sent       \* history: the bytes sent to a mailbox and not received yet

vars == <<mboxs, call, got, handles, kills, sent>>

NoCall == [op |-> "none"]

Unused == [name |-> NoName, user_cnt |-> 0, buff_used |-> 0, start |-> 0, end |-> 0,
           buff |-> [i \in Index |-> CHOOSE x \in Byte : TRUE],
           lock |-> "UNLOCKED", lock_queue |-> <<>>, not_full |-> <<>>, not_empty |-> <<>>]

Init ==
  /\ mboxs = [b \in Box |-> Unused]
  /\ call = [p \in Proc |-> NoCall]
  /\ got = <<>>
  /\ handles = [p \in Proc |-> {}]
  /\ kills = 0
  /\ sent = [b \in Box |-> <<>>]
-----------------------------------------------------------------------------
(***************************************************************************)
(* The routines of lock.c and cond.c on one mailbox m.                     *)
(***************************************************************************)

(***************************************************************************)
(* A definition named X_fault is not part of the model: it is X with a     *)
(* plausible programming error, kept to show that a property detects it.   *)
(***************************************************************************)
do_mutex_lock_release(m) ==
  IF m.lock_queue = <<>> THEN [m EXCEPT !.lock = "UNLOCKED"]
                         ELSE [m EXCEPT !.lock_queue = Tail(@)]

\* do_condition_wait up to do_block.
do_condition_wait(m, p, c) == [do_mutex_lock_release(m) EXCEPT ![c] = Append(@, p)]

\* Only the first waiter is woken: do_condition_signal.
do_condition_broadcast_fault(m, c) ==
  [m EXCEPT ![c] = IF @ = <<>> THEN <<>> ELSE Tail(@)]

do_condition_broadcast(m, c) == [m EXCEPT ![c] = <<>>]
-----------------------------------------------------------------------------
(***************************************************************************)
(* The bodies of do_mbox_send and do_mbox_recv, with the lock held.        *)
(***************************************************************************)
MustWait(m, r) ==
  IF r.op = "send" THEN m.buff_used + Len(r.msg) > MaxLength
                   ELSE m.buff_used - r.len < 0

WaitFor(r) == IF r.op = "send" THEN "not_full" ELSE "not_empty"

\* The index of the next free byte is not wrapped.
CopyIn_fault(m, msg) ==
  [m EXCEPT !.buff_used = @ + Len(msg),
            !.buff = [i \in Index |-> IF i - m.end \in 0..(Len(msg) - 1)
                                      THEN msg[i - m.end + 1] ELSE @[i]],
            !.end = (@ + Len(msg)) % MaxLength]

\* The message goes to the ring buffer at end.
CopyIn(m, msg) ==
  [m EXCEPT !.buff_used = @ + Len(msg),
            !.buff = [i \in Index |-> LET k == (i - m.end) % MaxLength
                                      IN  IF k < Len(msg) THEN msg[k + 1] ELSE @[i]],
            !.end = (@ + Len(msg)) % MaxLength]

\* The first n bytes of the ring buffer, and the mailbox without them.
Front(m, n) == [i \in 1..n |-> m.buff[(m.start + i - 1) % MaxLength]]
CopyOut(m, n) == [m EXCEPT !.buff_used = @ - n, !.start = (@ + n) % MaxLength]

Transfer(m, r) ==
  do_mutex_lock_release(
    IF r.op = "send" THEN do_condition_broadcast(CopyIn(m, r.msg), "not_empty")
                     ELSE do_condition_broadcast(CopyOut(m, r.len), "not_full"))

\* p, which holds the lock of m, performs its request r or waits on a condition.
Body(p, r, m) ==
  /\ IF MustWait(m, r)
     THEN /\ mboxs' = [mboxs EXCEPT ![r.box] = do_condition_wait(m, p, WaitFor(r))]
          /\ call' = [call EXCEPT ![p] = r]
          /\ UNCHANGED <<got, sent>>
     ELSE /\ mboxs' = [mboxs EXCEPT ![r.box] = Transfer(m, r)]
          /\ call' = [call EXCEPT ![p] = NoCall]
          /\ got' = IF r.op = "recv" THEN Front(m, r.len) ELSE got
          /\ sent' = [sent EXCEPT ![r.box] = IF r.op = "send" THEN @ \o r.msg
                                            ELSE SubSeq(@, r.len + 1, Len(@))]
  /\ UNCHANGED <<handles, kills>>

\* do_mutex_lock_acquire, and the body if the lock is free.  LockFreeBetweenCalls
\* says that it always is: nobody returns from the lock's queue.
LockAndBody(p, r) ==
  LET m == mboxs[r.box]
  IN  IF m.lock = "UNLOCKED"
      THEN Body(p, r, [m EXCEPT !.lock = "LOCKED"])
      ELSE /\ mboxs' = [mboxs EXCEPT ![r.box].lock_queue = Append(@, p)]
           /\ call' = [call EXCEPT ![p] = r]
           /\ UNCHANGED <<got, handles, kills, sent>>
-----------------------------------------------------------------------------
(***************************************************************************)
(* The system calls and their continuations.                               *)
(***************************************************************************)
\* The slot do_mbox_open stops at: unused, or of that name.
Match(nm, b) == mboxs[b].user_cnt = 0 \/ mboxs[b].name = nm
Probe(nm, i) == (i + Hash[nm]) % NumBox

\* The slot that was found is initialized, and its users forgotten.
do_mbox_open_fault(p, nm) ==
  /\ call[p] = NoCall
  /\ \A b \in handles[p] : mboxs[b].name # nm
  /\ \E i \in Box :
       /\ Match(nm, Probe(nm, i))
       /\ \A j \in Box : j < i => ~Match(nm, Probe(nm, j))
       /\ LET b == Probe(nm, i)
          IN  /\ mboxs' = [mboxs EXCEPT ![b] = [Unused EXCEPT
                             !.name = nm, !.user_cnt = 1, !.buff = mboxs[b].buff]]
              /\ handles' = [handles EXCEPT ![p] = @ \cup {b}]
  /\ UNCHANGED <<call, got, kills, sent>>

\* Linear probing from the name's hash.  An unused mailbox is initialized; when
\* every slot is taken by another name the call returns NULL.
do_mbox_open(p, nm) ==
  /\ call[p] = NoCall
  /\ \A b \in handles[p] : mboxs[b].name # nm
  /\ \E i \in Box :
       /\ Match(nm, Probe(nm, i))
       /\ \A j \in Box : j < i => ~Match(nm, Probe(nm, j))
       /\ LET b == Probe(nm, i)
              m == IF mboxs[b].user_cnt = 0
                   THEN [Unused EXCEPT !.name = nm, !.buff = mboxs[b].buff]
                   ELSE mboxs[b]
          IN  /\ mboxs' = [mboxs EXCEPT ![b] = [m EXCEPT !.user_cnt = @ + 1]]
              /\ handles' = [handles EXCEPT ![p] = @ \cup {b}]
              /\ sent' = IF mboxs[b].user_cnt = 0 THEN [sent EXCEPT ![b] = <<>>] ELSE sent
  /\ UNCHANGED <<call, got, kills>>

do_mbox_close(p, b) ==
  /\ call[p] = NoCall
  /\ b \in handles[p]
  /\ mboxs' = [mboxs EXCEPT ![b].user_cnt = IF @ > 0 THEN @ - 1 ELSE @]
  /\ handles' = [handles EXCEPT ![p] = @ \ {b}]
  /\ UNCHANGED <<call, got, kills, sent>>

do_mbox_send(p, b, msg) ==
  /\ call[p] = NoCall
  /\ b \in handles[p]
  /\ LockAndBody(p, [op |-> "send", box |-> b, msg |-> msg])

do_mbox_recv(p, b, n) ==
  /\ call[p] = NoCall
  /\ b \in handles[p]
  /\ LockAndBody(p, [op |-> "recv", box |-> b, len |-> n])

Waiting(p) == /\ call[p] # NoCall
              /\ \/ p \in Range(mboxs[call[p].box][WaitFor(call[p])])
                 \/ p \in Range(mboxs[call[p].box].lock_queue)

\* p runs again after do_condition_wait blocked it, and acquires the lock.
Woken(p) == call[p] # NoCall /\ ~Waiting(p) /\ LockAndBody(p, call[p])

\* p is killed, or exits, and leaves the queue it waits in.  Nobody closes its
\* mailboxes.  A new process takes its place.
do_kill(p) ==
  /\ kills < MaxKills
  /\ kills' = kills + 1
  /\ mboxs' = [b \in Box |-> [mboxs[b] EXCEPT !.not_full  = Keep(@, Proc \ {p}),
                                              !.not_empty = Keep(@, Proc \ {p})]]
  /\ call' = [call EXCEPT ![p] = NoCall]
  /\ handles' = [handles EXCEPT ![p] = {}]
  /\ UNCHANGED <<got, sent>>

Next == \E p \in Proc :
          \/ \E nm \in Name : do_mbox_open(p, nm)
          \/ \E b \in Box : \/ do_mbox_close(p, b)
                            \/ \E msg \in Message : do_mbox_send(p, b, msg)
                            \/ \E n \in Lengths : do_mbox_recv(p, b, n)
          \/ Woken(p)
          \/ do_kill(p)

Spec == Init /\ [][Next]_vars
-----------------------------------------------------------------------------
TypeOK ==
  /\ mboxs \in [Box -> [name : Name \cup {NoName}, user_cnt : 0..(Cardinality(Proc) + MaxKills),
                        buff_used : 0..MaxLength, start : Index, end : Index,
                        buff : [Index -> Byte], lock : {"LOCKED", "UNLOCKED"},
                        lock_queue : Seq(Proc), not_full : Seq(Proc), not_empty : Seq(Proc)]]
  /\ call \in [Proc -> Request \cup {NoCall}]
  /\ got \in UNION {[1..n -> Byte] : n \in Lengths \cup {0}}
  /\ handles \in [Proc -> SUBSET Box]
  /\ kills \in 0..MaxKills
  /\ sent \in [Box -> Seq(Byte)]

\* Every call gives the lock of the mailbox back before it returns or waits.
LockFreeBetweenCalls == \A b \in Box : mboxs[b].lock = "UNLOCKED"

\* A process waits on a condition only as long as its request cannot be served: no
\* wakeup is lost between the test in the while loop and do_block, whatever other
\* processes send and receive meanwhile, and a wakeup never goes to a dead process.
\* Nor does a process that waits, or is killed there, leave the others locked out.
NoLostWakeup ==
  /\ TypeOK
  /\ LockFreeBetweenCalls
  /\ \A b \in Box, c \in Cond : \A p \in Range(mboxs[b][c]) :
       call[p] # NoCall /\ MustWait(mboxs[b], call[p])

\* A sender and a receiver wait at the same time only when their messages do not fit
\* in the mailbox together: messages of up to half its size are always exchanged.
NoStandoff ==
  \A b \in Box : \A p \in Range(mboxs[b].not_full), q \in Range(mboxs[b].not_empty) :
    Len(call[p].msg) + call[q].len > MaxLength + 1

\* do_mbox_open never takes a mailbox somebody still has open for an unused one:
\* user_cnt may be too high, after a process died without closing, but never too low.
OpenMailboxIsCounted ==
  \A b \in Box : mboxs[b].user_cnt >= Cardinality({p \in Proc : b \in handles[p]})

\* A mailbox is a first-in first-out stream of bytes: what do_mbox_recv copies out of
\* the ring buffer is what do_mbox_send was given, as module ByteStreams specifies.
Streams == INSTANCE ByteStreams WITH
  stream   <- sent,
  users    <- [b \in Box |-> mboxs[b].user_cnt],
  Capacity <- MaxLength
StreamsSpec == Streams!Spec
=============================================================================
