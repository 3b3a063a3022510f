----------------------------- MODULE WaitProofs -----------------------------
(***************************************************************************)
(* The processes that wait, and the queues they wait in.                   *)
(*                                                                         *)
(* The mailboxes, for any number of processes, names and boxes and any     *)
(* size of the buffer: no wakeup is lost, no sender and receiver wait for  *)
(* each other without need, no open mailbox is taken for an unused one,    *)
(* and the ring buffers implement the streams of module ByteStreams.       *)
(* And nobody leaves a barrier early, for any number of tasks, rounds and  *)
(* kills, unless its initialization raced with its use (module Barrier).   *)
(*                                                                         *)
(* The linked lists of module PcbQueue represent the queues they stand     *)
(* for, implement the abstract queues of module FifoQueues, and a walk     *)
(* that moves members to another queue visits every member once, for any   *)
(* number of pcbs and queues.  What the routines do is proved of a memory  *)
(* m and the lists l it represents, one lemma per routine, so that         *)
(* ScanMove, which calls two of them, is their composition.                *)
(***************************************************************************)
EXTENDS Mailbox, Barrier, PcbQueue, QueueOpsProofs

MboxType == [name : Name \cup {NoName}, user_cnt : 0..(Cardinality(Proc) + MaxKills),
             buff_used : 0..MaxLength, start : Index, end : Index,
             buff : [Index -> Byte], lock : {"LOCKED", "UNLOCKED"},
             lock_queue : Seq(Proc), not_full : Seq(Proc), not_empty : Seq(Proc)]

SendRequest == [op : {"send"}, box : Box, msg : Message]
RecvRequest == [op : {"recv"}, box : Box, len : Lengths]

\* The bytes between start and end of the ring buffer of m are those of s.
Ring(m, s) ==
  /\ s \in Seq(Byte) /\ Len(s) = m.buff_used
  /\ m.end = (m.start + m.buff_used) % MaxLength
  /\ \A k \in 1..m.buff_used : s[k] = m.buff[(m.start + k - 1) % MaxLength]

\* Every process in the queues of m, which is mailbox b, is in a call that has to wait
\* there: cl gives the calls.
Waiters(m, b, cl) ==
  /\ \A p \in Range(m.not_full) :
       cl[p] \in SendRequest /\ cl[p].box = b /\ MustWait(m, cl[p])
  /\ \A p \in Range(m.not_empty) :
       cl[p] \in RecvRequest /\ cl[p].box = b /\ MustWait(m, cl[p])

\* user_cnt is between the number of processes that have b open, and that number with
\* one more for every process that was killed.
Openers(b) == {p \in Proc : b \in handles[p]}
Counted(n, A, k) == Cardinality(A) <= n /\ n <= Cardinality(A) + k

Free(m) == m.lock = "UNLOCKED" /\ m.lock_queue = <<>>

MailboxInv ==
  /\ TypeOK
  /\ \A b \in Box : /\ Free(mboxs[b])
                    /\ Ring(mboxs[b], sent[b])
                    /\ Waiters(mboxs[b], b, call)
                    /\ Counted(mboxs[b].user_cnt, Openers(b), kills)
  /\ \A p \in Proc : call[p] # NoCall => call[p].box \in handles[p]
-----------------------------------------------------------------------------
(***************************************************************************)
(* The ring buffer.                                                        *)
(***************************************************************************)
LEMMA ModOnce ==
  ASSUME NEW M \in Nat \ {0}
  PROVE  /\ \A x \in 0..(M - 1) : x % M = x
         /\ \A x \in M..(2 * M - 1) : x % M = x - M
         /\ \A x \in (-M)..(-1) : x % M = x + M
<1>1. ASSUME NEW x \in 0..(M - 1)
      PROVE  x % M = x
  OBVIOUS
<1>2. ASSUME NEW x \in M..(2 * M - 1)
      PROVE  x % M = x - M
  OBVIOUS
<1>3. ASSUME NEW x \in (-M)..(-1)
      PROVE  x % M = x + M
  OBVIOUS
<1> QED
  BY <1>1, <1>2, <1>3

\* The remainder, in a form without a modulo.
Wrap(x, M) == IF x < M THEN x ELSE x - M

LEMMA WrapIsMod ==
  ASSUME NEW M \in Nat \ {0}, NEW x \in 0..(2 * M - 1)
  PROVE  x % M = Wrap(x, M) /\ Wrap(x, M) \in 0..(M - 1)
<1>1. CASE x < M
  <2>1. x \in 0..(M - 1)
    BY <1>1
  <2> QED
    BY <1>1, <2>1, ModOnce DEF Wrap
<1>2. CASE ~(x < M)
  <2>1. x \in M..(2 * M - 1)
    BY <1>2
  <2> QED
    BY <1>2, <2>1, ModOnce DEF Wrap
<1> QED
  BY <1>1, <1>2

\* n bytes go to a ring of M that has u bytes from position st up to e.  The k-th byte
\* after that is at position i, at distance j from the old end.
Pushed(M, st, u, n, e) ==
  /\ e \in 0..(M - 1) /\ (e + n) % M \in 0..(M - 1)
  /\ (e + n) % M = (st + (u + n)) % M
  /\ \A k \in 1..(u + n) :
       LET i == (st + k - 1) % M
           j == (i - e) % M
       IN  /\ i \in 0..(M - 1) /\ j \in 0..(M - 1)
           /\ k <= u => ~(j < n)
           /\ k > u  => j = k - u - 1

LEMMA RingPush ==
  ASSUME NEW M \in Nat \ {0}, NEW st \in 0..(M - 1), NEW u \in 0..M,
         NEW n \in 1..M, u + n <= M, NEW e, e = (st + u) % M
  PROVE  Pushed(M, st, u, n, e)
<1>2. e = Wrap(st + u, M) /\ e \in 0..(M - 1)
  <2>1. st + u \in 0..(2 * M - 1)
    OBVIOUS
  <2> QED
    BY <2>1, WrapIsMod
<1>3. (e + n) % M \in 0..(M - 1) /\ (e + n) % M = (st + (u + n)) % M
  <2>1. e + n \in 0..(2 * M - 1) /\ st + (u + n) \in 0..(2 * M - 1)
    BY <1>2
  <2>2. /\ (e + n) % M = Wrap(e + n, M) /\ (e + n) % M \in 0..(M - 1)
        /\ (st + (u + n)) % M = Wrap(st + (u + n), M)
    BY <2>1, WrapIsMod
  <2>3. Wrap(e + n, M) = Wrap(st + (u + n), M)
    BY <1>2 DEF Wrap
  <2> QED
    BY <2>2, <2>3
<1>4. ASSUME NEW k \in 1..(u + n), NEW i, i = (st + k - 1) % M, NEW j, j = (i - e) % M
      PROVE  /\ i \in 0..(M - 1) /\ j \in 0..(M - 1)
             /\ k <= u => ~(j < n)
             /\ k > u  => j = k - u - 1
  <2>1. st + k - 1 \in 0..(2 * M - 1)
    OBVIOUS
  <2>2. i = Wrap(st + k - 1, M) /\ i \in 0..(M - 1)
    BY <1>4, <2>1, WrapIsMod
  <2>3. CASE i - e < 0
    <3>1. i - e \in (-M)..(-1)
      BY <1>2, <2>2, <2>3
    <3>2. j = i - e + M
      BY <1>4, <3>1, ModOnce
    <3> QED
      BY <1>2, <2>2, <2>3, <3>2 DEF Wrap
  <2>4. CASE ~(i - e < 0)
    <3>1. i - e \in 0..(M - 1)
      BY <1>2, <2>2, <2>4
    <3>2. j = i - e
      BY <1>4, <3>1, ModOnce
    <3> QED
      BY <1>2, <2>2, <2>4, <3>2 DEF Wrap
  <2> QED
    BY <2>3, <2>4
<1> QED
  BY <1>2, <1>3, <1>4 DEF Pushed

\* n bytes are taken from it.
PopIndices(M, st, u, n, f) ==
  /\ f \in 0..(M - 1)
  /\ (f + (u - n)) % M = (st + u) % M
  /\ \A k \in 1..(u - n) : (f + k - 1) % M = (st + (k + n) - 1) % M

LEMMA RingPop ==
  ASSUME NEW M \in Nat \ {0}, NEW st \in 0..(M - 1), NEW u \in 0..M, NEW n \in 1..u
  PROVE  PopIndices(M, st, u, n, (st + n) % M)
<1>1. PICK f : f = (st + n) % M
  OBVIOUS
<1>2. f = Wrap(st + n, M) /\ f \in 0..(M - 1)
  <2>1. st + n \in 0..(2 * M - 1)
    OBVIOUS
  <2> QED
    BY <1>1, <2>1, WrapIsMod
<1>3. ASSUME NEW x \in 0..(u - n)
      PROVE  (f + x) % M = (st + (x + n)) % M
  <2>1. f + x \in 0..(2 * M - 1) /\ st + (x + n) \in 0..(2 * M - 1)
    BY <1>2
  <2>2. (f + x) % M = Wrap(f + x, M) /\ (st + (x + n)) % M = Wrap(st + (x + n), M)
    BY <2>1, WrapIsMod
  <2>3. CASE x + st + n < M
    BY <1>2, <2>2, <2>3 DEF Wrap
  <2>4. CASE ~(x + st + n < M)
    BY <1>2, <2>2, <2>4 DEF Wrap
  <2> QED
    BY <2>3, <2>4
<1>4. ASSUME NEW k \in 1..(u - n)
      PROVE  (f + k - 1) % M = (st + (k + n) - 1) % M
  <2>1. k - 1 \in 0..(u - n) /\ f + k - 1 = f + (k - 1)
        /\ st + (k + n) - 1 = st + ((k - 1) + n)
    BY <1>2
  <2> QED
    BY <1>3, <2>1
<1>5. (f + (u - n)) % M = (st + u) % M
  <2>1. u - n \in 0..(u - n) /\ (u - n) + n = u
    OBVIOUS
  <2> QED
    BY <1>3, <2>1
<1> QED
  BY <1>1, <1>2, <1>4, <1>5 DEF PopIndices

LEMMA Requests ==
  /\ \A r \in SendRequest : /\ r.op = "send" /\ r.box \in Box /\ r.msg \in Seq(Byte)
                            /\ r.msg \in Message /\ Len(r.msg) \in 1..MaxLength
                            /\ WaitFor(r) = "not_full" /\ r # NoCall
  /\ \A r \in RecvRequest : /\ r.op = "recv" /\ r.box \in Box
                            /\ r.len \in Lengths /\ r.len \in 1..MaxLength
                            /\ WaitFor(r) = "not_empty" /\ r # NoCall
  /\ Request = SendRequest \cup RecvRequest
<1>1. ASSUME NEW r \in SendRequest
      PROVE  /\ r.op = "send" /\ r.box \in Box /\ r.msg \in Seq(Byte)
             /\ r.msg \in Message /\ Len(r.msg) \in 1..MaxLength
             /\ WaitFor(r) = "not_full" /\ r # NoCall
  <2>1. r.op = "send" /\ r.box \in Box /\ r.msg \in Message
    BY DEF SendRequest
  <2>2. PICK n \in Lengths : r.msg \in [1..n -> Byte]
    BY <2>1 DEF Message
  <2>3. n \in 1..MaxLength /\ n \in Nat
    BY BoxAssumption
  <2>4. r.msg \in Seq(Byte) /\ Len(r.msg) = n
    BY <2>2, <2>3
  <2> QED
    BY <2>1, <2>3, <2>4 DEF WaitFor, NoCall
<1>2. ASSUME NEW r \in RecvRequest
      PROVE  /\ r.op = "recv" /\ r.box \in Box
             /\ r.len \in Lengths /\ r.len \in 1..MaxLength
             /\ WaitFor(r) = "not_empty" /\ r # NoCall
  <2>1. r.op = "recv" /\ r.box \in Box /\ r.len \in Lengths
    BY DEF RecvRequest
  <2>2. Lengths \subseteq 1..MaxLength
    BY BoxAssumption
  <2>3. WaitFor(r) = "not_empty" /\ r # NoCall
    BY <2>1 DEF WaitFor, NoCall
  <2> QED
    BY <2>1, <2>2, <2>3
<1>3. Request = SendRequest \cup RecvRequest
  BY DEF Request, SendRequest, RecvRequest
<1> QED
  BY <1>1, <1>2, <1>3

\* do_mbox_send puts its message behind the bytes that are in the buffer, and leaves
\* those alone: it does not overtake the reader.
LEMMA CopyInRing ==
  ASSUME NEW m \in MboxType, NEW s, Ring(m, s), NEW msg \in Seq(Byte),
         Len(msg) \in 1..MaxLength, m.buff_used + Len(msg) <= MaxLength
  PROVE  /\ CopyIn(m, msg) \in MboxType
         /\ Ring(CopyIn(m, msg), s \o msg)
<1>0. PICK M, n, u, st, e :
        /\ M = MaxLength /\ n = Len(msg) /\ u = m.buff_used /\ st = m.start /\ e = m.end
  OBVIOUS
<1>1. /\ M \in Nat \ {0} /\ n \in 1..M /\ u \in 0..M /\ u + n <= M
      /\ st \in 0..(M - 1) /\ e \in 0..(M - 1) /\ e = (st + u) % M
      /\ Index = 0..(M - 1) /\ m.buff \in [Index -> Byte]
  BY <1>0, BoxAssumption DEF MboxType, Ring, Index
<1> DEFINE B == [i \in Index |-> LET k == (i - e) % M
                                 IN  IF k < n THEN msg[k + 1] ELSE m.buff[i]]
           w == CopyIn(m, msg)
<1>2. /\ (e + n) % M \in 0..(M - 1) /\ (e + n) % M = (st + (u + n)) % M
      /\ Pushed(M, st, u, n, e)
  <2>1. Pushed(M, st, u, n, e)
    BY <1>1, RingPush
  <2> QED
    BY <2>1 DEF Pushed
<1>3. B \in [Index -> Byte]
  <2> SUFFICES ASSUME NEW i \in Index
               PROVE  B[i] \in Byte
    OBVIOUS
  <2>1. PICK x : x = i - e
    OBVIOUS
  <2>2. x \in Int
    BY <1>1, <2>1
  <2>3. PICK k : k = x % M
    OBVIOUS
  <2>4. k \in 0..(M - 1)
    BY <1>1, <2>2, <2>3
  <2>5. k < n => msg[k + 1] \in Byte
    BY <1>0, <1>1, <2>4
  <2> QED
    BY <1>1, <2>1, <2>3, <2>5
<1>4. w = [m EXCEPT !.buff_used = u + n, !.buff = B, !.end = (e + n) % M]
  BY <1>0 DEF CopyIn, MboxType
<1>5. u + n \in 0..M
  BY <1>1
<1> HIDE DEF B, w
<1>6. /\ w \in MboxType /\ w.buff_used = u + n /\ w.buff = B
      /\ w.end = (e + n) % M /\ w.start = st
  BY <1>0, <1>1, <1>2, <1>3, <1>4, <1>5 DEF MboxType
<1>7. s \in Seq(Byte) /\ Len(s) = u
  BY <1>0 DEF Ring
<1>8. /\ s \o msg \in Seq(Byte) /\ Len(s \o msg) = u + n
      /\ \A k \in 1..(u + n) : (s \o msg)[k] = IF k <= u THEN s[k] ELSE msg[k - u]
  <2>1. /\ s \o msg \in Seq(Byte) /\ Len(s \o msg) = Len(s) + Len(msg)
        /\ \A k \in 1..(Len(s) + Len(msg)) :
             (s \o msg)[k] = IF k <= Len(s) THEN s[k] ELSE msg[k - Len(s)]
    BY <1>7, ConcatProperties
  <2> QED
    BY <1>0, <1>7, <2>1
<1>9. ASSUME NEW k \in 1..(u + n)
      PROVE  (s \o msg)[k] = B[(st + k - 1) % M]
  <2>1. PICK i, j : i = (st + k - 1) % M /\ j = (i - e) % M
    OBVIOUS
  <2>2. i \in Index /\ j \in 0..(M - 1) /\ (k <= u => ~(j < n)) /\ (k > u => j = k - u - 1)
    BY <1>1, <1>2, <2>1 DEF Pushed
  <2>3. B[i] = IF j < n THEN msg[j + 1] ELSE m.buff[i]
    BY <2>1, <2>2 DEF B
  <2>4. CASE k <= u
    <3>1. k \in 1..u
      BY <1>1, <2>4
    <3>2. s[k] = m.buff[i]
      BY <1>0, <2>1, <3>1 DEF Ring
    <3> QED
      BY <1>8, <2>1, <2>2, <2>3, <2>4, <3>2
  <2>5. CASE ~(k <= u)
    <3>1. j < n /\ j + 1 = k - u
      BY <1>1, <2>2, <2>5
    <3> QED
      BY <1>8, <2>1, <2>3, <2>5, <3>1
  <2> QED
    BY <2>4, <2>5
<1> QED
  BY <1>0, <1>2, <1>6, <1>8, <1>9 DEF Ring, w

\* do_mbox_recv takes the oldest bytes and leaves the others.
LEMMA CopyOutRing ==
  ASSUME NEW m \in MboxType, NEW s, Ring(m, s), NEW n \in 1..MaxLength, n <= m.buff_used
  PROVE  /\ CopyOut(m, n) \in MboxType
         /\ Ring(CopyOut(m, n), SubSeq(s, n + 1, Len(s)))
         /\ Front(m, n) = SubSeq(s, 1, n)
         /\ Front(m, n) \in [1..n -> Byte]
<1>0. PICK M, u, st : M = MaxLength /\ u = m.buff_used /\ st = m.start
  OBVIOUS
<1>1. /\ M \in Nat \ {0} /\ u \in 0..M /\ n \in 1..u /\ st \in 0..(M - 1)
      /\ m.end = (st + u) % M
      /\ Index = 0..(M - 1) /\ m.buff \in [Index -> Byte]
  BY <1>0, BoxAssumption DEF MboxType, Ring, Index
<1>2. PICK f : f = (st + n) % M
  OBVIOUS
<1>3. /\ f \in 0..(M - 1) /\ (f + (u - n)) % M = (st + u) % M
      /\ \A k \in 1..(u - n) : (f + k - 1) % M = (st + (k + n) - 1) % M
  <2>1. PopIndices(M, st, u, n, f)
    BY <1>1, <1>2, RingPop
  <2> QED
    BY <2>1 DEF PopIndices
<1> DEFINE w == CopyOut(m, n)
           t == SubSeq(s, n + 1, Len(s))
<1>4. w = [m EXCEPT !.buff_used = u - n, !.start = f]
  BY <1>0, <1>2 DEF CopyOut, MboxType
<1>5. u - n \in 0..M
  BY <1>1
<1> HIDE DEF w
<1>6. /\ w \in MboxType /\ w.buff_used = u - n /\ w.buff = m.buff
      /\ w.end = m.end /\ w.start = f
  BY <1>0, <1>1, <1>3, <1>4, <1>5 DEF MboxType
<1>7. s \in Seq(Byte) /\ Len(s) = u
  BY <1>0 DEF Ring
<1>8. /\ t \in Seq(Byte) /\ Len(t) = u - n
      /\ \A k \in 1..(u - n) : t[k] = s[k + n]
  <2>1. n + 1 \in Int /\ Len(s) \in Int /\ Len(s) - (n + 1) + 1 = u - n
        /\ n + 1 <= Len(s) + 1 /\ u - n >= 0
    BY <1>1, <1>7
  <2>2. t = [i \in 1..(u - n) |-> s[i + n]]
    BY <1>1, <1>7, <2>1
  <2>3. \A i \in 1..(u - n) : s[i + n] \in Byte
    BY <1>1, <1>7
  <2> HIDE DEF t
  <2>4. u - n \in Nat
    BY <1>1
  <2>6. t \in [1..(u - n) -> Byte]
    BY <2>2, <2>3
  <2>5. t \in Seq(Byte) /\ Len(t) = u - n
    BY <2>4, <2>6
  <2> QED
    BY <2>2, <2>5
<1> HIDE DEF t
<1>9. ASSUME NEW k \in 1..(u - n)
      PROVE  t[k] = w.buff[(f + k - 1) % M]
  <2>1. k + n \in 1..u
    BY <1>1
  <2>2. s[k + n] = m.buff[(st + (k + n) - 1) % M]
    BY <1>0, <2>1 DEF Ring
  <2> QED
    BY <1>3, <1>6, <1>8, <2>2
<1>10. /\ Front(m, n) = SubSeq(s, 1, n)
       /\ Front(m, n) \in [1..n -> Byte]
  <2>1. SubSeq(s, 1, n) = [i \in 1..n |-> s[i]]
    BY <1>1, <1>7
  <2>2. ASSUME NEW i \in 1..n
        PROVE  s[i] = m.buff[(st + i - 1) % M] /\ s[i] \in Byte
    <3>1. i \in 1..u
      BY <1>1
    <3> QED
      BY <1>0, <1>7, <3>1 DEF Ring
  <2>3. Front(m, n) = [i \in 1..n |-> m.buff[(st + i - 1) % M]]
    BY <1>0 DEF Front
  <2> QED
    BY <2>1, <2>2, <2>3
<1> QED
  BY <1>0, <1>1, <1>3, <1>6, <1>8, <1>9, <1>10 DEF Ring, w, t
-----------------------------------------------------------------------------
(***************************************************************************)
(* What the body of a call does to the mailbox m, which was not locked.    *)
(***************************************************************************)
Locked(m) == [m EXCEPT !.lock = "LOCKED"]

\* The request is served: r waits no more, and whoever still waits on the condition that
\* was not signalled has to.
LEMMA TransferBox ==
  ASSUME NEW m \in MboxType, Free(m), NEW s, Ring(m, s), NEW r \in Request,
         ~MustWait(Locked(m), r)
  PROVE  LET t == Transfer(Locked(m), r)
         IN  /\ t \in MboxType /\ Free(t) /\ t.user_cnt = m.user_cnt
             /\ r \in SendRequest => /\ Ring(t, s \o r.msg)
                                     /\ m.buff_used + Len(r.msg) <= MaxLength
                                     /\ t.buff_used = m.buff_used + Len(r.msg)
                                     /\ t.not_full = m.not_full /\ t.not_empty = <<>>
             /\ r \in RecvRequest => /\ Ring(t, SubSeq(s, r.len + 1, Len(s)))
                                     /\ r.len <= m.buff_used
                                     /\ t.buff_used = m.buff_used - r.len
                                     /\ t.not_empty = m.not_empty /\ t.not_full = <<>>
                                     /\ Front(Locked(m), r.len) = SubSeq(s, 1, r.len)
                                     /\ Front(Locked(m), r.len) \in [1..r.len -> Byte]
<1> DEFINE k == Locked(m)
           t == Transfer(k, r)
<1>1. /\ k \in MboxType /\ k.user_cnt = m.user_cnt /\ k.buff_used = m.buff_used
      /\ k.not_full = m.not_full /\ k.not_empty = m.not_empty /\ k.lock_queue = <<>>
      /\ k.start = m.start /\ k.end = m.end /\ k.buff = m.buff
  BY DEF Locked, MboxType, Free
<1>2. Ring(k, s)
  BY <1>1 DEF Ring
<1> HIDE DEF k
<1>3. CASE r \in SendRequest
  <2>1. r.op = "send" /\ r.msg \in Seq(Byte) /\ Len(r.msg) \in 1..MaxLength
    BY <1>3, Requests
  <2>2. k.buff_used + Len(r.msg) <= MaxLength
    <3>1. ~(k.buff_used + Len(r.msg) > MaxLength)
      BY <2>1 DEF MustWait, k
    <3>2. k.buff_used \in Int /\ MaxLength \in Int /\ Len(r.msg) \in Int
      BY <1>1, <2>1, BoxAssumption DEF MboxType
    <3> QED
      BY <3>1, <3>2
  <2>3. PICK w : w = CopyIn(k, r.msg)
    OBVIOUS
  <2>4. w \in MboxType /\ Ring(w, s \o r.msg)
    BY <1>1, <1>2, <2>1, <2>2, <2>3, CopyInRing
  <2>5. /\ w.user_cnt = k.user_cnt /\ w.buff_used = k.buff_used + Len(r.msg)
        /\ w.not_full = k.not_full /\ w.lock_queue = <<>>
    BY <1>1, <2>3 DEF CopyIn, MboxType
  <2>6. t = do_mutex_lock_release(do_condition_broadcast(w, "not_empty"))
    BY <2>1, <2>3 DEF Transfer
  <2>7. t = [w EXCEPT !.not_empty = <<>>, !.lock = "UNLOCKED"]
    BY <2>4, <2>5, <2>6 DEF do_mutex_lock_release, do_condition_broadcast, MboxType
  <2> HIDE DEF t
  <2>8. /\ t \in MboxType /\ t.lock = "UNLOCKED" /\ t.lock_queue = <<>>
        /\ t.user_cnt = w.user_cnt /\ t.buff_used = w.buff_used /\ t.not_full = w.not_full
        /\ t.start = w.start /\ t.end = w.end /\ t.buff = w.buff /\ t.not_empty = <<>>
    BY <2>4, <2>5, <2>7 DEF MboxType
  <2>9. Ring(t, s \o r.msg)
    BY <2>4, <2>8 DEF Ring
  <2>10. r \notin RecvRequest
    BY <2>1 DEF RecvRequest
  <2> QED
    BY <1>1, <1>3, <2>2, <2>5, <2>8, <2>9, <2>10 DEF Free, t, k
<1>4. CASE r \in RecvRequest
  <2>1. r.op = "recv" /\ r.len \in 1..MaxLength
    BY <1>4, Requests
  <2>2. r.len <= k.buff_used
    <3>1. ~(k.buff_used - r.len < 0)
      BY <2>1 DEF MustWait, k
    <3>2. k.buff_used \in Int /\ r.len \in Int
      BY <1>1, <2>1, BoxAssumption DEF MboxType
    <3> QED
      BY <3>1, <3>2
  <2>3. PICK w : w = CopyOut(k, r.len)
    OBVIOUS
  <2>4. /\ w \in MboxType /\ Ring(w, SubSeq(s, r.len + 1, Len(s)))
        /\ Front(k, r.len) = SubSeq(s, 1, r.len)
        /\ Front(k, r.len) \in [1..r.len -> Byte]
    BY <1>1, <1>2, <2>1, <2>2, <2>3, CopyOutRing
  <2>5. /\ w.user_cnt = k.user_cnt /\ w.buff_used = k.buff_used - r.len
        /\ w.not_empty = k.not_empty /\ w.lock_queue = <<>>
    BY <1>1, <2>3 DEF CopyOut, MboxType
  <2>6. t = do_mutex_lock_release(do_condition_broadcast(w, "not_full"))
    BY <2>1, <2>3 DEF Transfer
  <2>7. t = [w EXCEPT !.not_full = <<>>, !.lock = "UNLOCKED"]
    BY <2>4, <2>5, <2>6 DEF do_mutex_lock_release, do_condition_broadcast, MboxType
  <2> HIDE DEF t
  <2>8. /\ t \in MboxType /\ t.lock = "UNLOCKED" /\ t.lock_queue = <<>>
        /\ t.user_cnt = w.user_cnt /\ t.buff_used = w.buff_used /\ t.not_full = <<>>
        /\ t.start = w.start /\ t.end = w.end /\ t.buff = w.buff /\ t.not_empty = w.not_empty
    BY <2>4, <2>5, <2>7 DEF MboxType
  <2>9. Ring(t, SubSeq(s, r.len + 1, Len(s)))
    BY <2>4, <2>8 DEF Ring
  <2>10. r \notin SendRequest
    BY <2>1 DEF SendRequest
  <2> QED
    BY <1>1, <1>4, <2>2, <2>4, <2>5, <2>8, <2>9, <2>10 DEF Free, t, k
<1> QED
  BY <1>3, <1>4, Requests

\* p waits: only the queue of the condition changes.
LEMMA WaitBox ==
  ASSUME NEW m \in MboxType, Free(m), NEW s, Ring(m, s), NEW r \in Request, NEW p \in Proc
  PROVE  LET t == do_condition_wait(Locked(m), p, WaitFor(r))
         IN  /\ t \in MboxType /\ Free(t) /\ t.user_cnt = m.user_cnt
             /\ Ring(t, s) /\ t.buff_used = m.buff_used
             /\ r \in SendRequest => /\ t.not_full = Append(m.not_full, p)
                                     /\ t.not_empty = m.not_empty
             /\ r \in RecvRequest => /\ t.not_empty = Append(m.not_empty, p)
                                     /\ t.not_full = m.not_full
<1> DEFINE t == do_condition_wait(Locked(m), p, WaitFor(r))
<1>1. do_mutex_lock_release(Locked(m)) = m
  BY DEF do_mutex_lock_release, Locked, Free, MboxType
<1>2. t = [m EXCEPT ![WaitFor(r)] = Append(@, p)]
  BY <1>1 DEF do_condition_wait
<1> HIDE DEF t
<1>3. m.not_full \in Seq(Proc) /\ m.not_empty \in Seq(Proc)
  BY DEF MboxType
<1>4. Append(m.not_full, p) \in Seq(Proc) /\ Append(m.not_empty, p) \in Seq(Proc)
  BY <1>3, AppendQueue
<1>5. CASE r \in SendRequest
  <2>1. WaitFor(r) = "not_full" /\ r \notin RecvRequest
    BY <1>5, Requests DEF RecvRequest
  <2>2. /\ t \in MboxType /\ t.user_cnt = m.user_cnt /\ t.buff_used = m.buff_used
        /\ t.start = m.start /\ t.end = m.end /\ t.buff = m.buff
        /\ t.lock = m.lock /\ t.lock_queue = m.lock_queue
        /\ t.not_full = Append(m.not_full, p) /\ t.not_empty = m.not_empty
    BY <1>2, <1>4, <2>1 DEF MboxType
  <2> QED
    BY <2>1, <2>2 DEF t, Ring, Free
<1>6. CASE r \in RecvRequest
  <2>1. WaitFor(r) = "not_empty" /\ r \notin SendRequest
    BY <1>6, Requests DEF SendRequest
  <2>2. /\ t \in MboxType /\ t.user_cnt = m.user_cnt /\ t.buff_used = m.buff_used
        /\ t.start = m.start /\ t.end = m.end /\ t.buff = m.buff
        /\ t.lock = m.lock /\ t.lock_queue = m.lock_queue
        /\ t.not_empty = Append(m.not_empty, p) /\ t.not_full = m.not_full
    BY <1>2, <1>4, <2>1 DEF MboxType
  <2> QED
    BY <2>1, <2>2 DEF t, Ring, Free
<1> QED
  BY <1>5, <1>6, Requests
-----------------------------------------------------------------------------
(***************************************************************************)
(* The calls that send and receive.  StreamStep is a step of ByteStreams,  *)
(* or none.                                                                *)
(***************************************************************************)
StreamStep == [Streams!Next]_(Streams!vars)

InNoQueue(p) == \A b \in Box : /\ p \notin Range(mboxs[b].not_full)
                               /\ p \notin Range(mboxs[b].not_empty)

\* The type invariant, by mailbox.
LEMMA BoxTyped == TypeOK => mboxs \in [Box -> MboxType]
  BY DEF TypeOK, MboxType

\* Whether a request has to wait depends on the bytes in the mailbox only.
LEMMA SameUsed ==
  ASSUME NEW m, NEW t, m.buff_used = t.buff_used, NEW r
  PROVE  MustWait(m, r) <=> MustWait(t, r)
  BY DEF MustWait

\* A process that was not in a queue, p, changed mailbox b, and nothing else, in a call
\* that it continues as x.
LEMMA OneBox ==
  ASSUME MailboxInv, NEW p \in Proc, InNoQueue(p), NEW b \in Box, NEW t, NEW s, NEW x,
         t \in MboxType, Free(t), Ring(t, s), t.user_cnt = mboxs[b].user_cnt,
         x \in Request \cup {NoCall}, x # NoCall => x.box \in handles[p],
         mboxs' = [mboxs EXCEPT ![b] = t], sent' = [sent EXCEPT ![b] = s],
         call' = [call EXCEPT ![p] = x], Waiters(t, b, call'),
         got' \in UNION {[1..n -> Byte] : n \in Lengths \cup {0}},
         UNCHANGED <<handles, kills>>
  PROVE  MailboxInv'
<1>1. /\ mboxs \in [Box -> MboxType] /\ call \in [Proc -> Request \cup {NoCall}]
      /\ sent \in [Box -> Seq(Byte)]
  BY BoxTyped DEF MailboxInv, TypeOK
<1>2. /\ mboxs' \in [Box -> MboxType] /\ mboxs'[b] = t
      /\ \A c \in Box \ {b} : mboxs'[c] = mboxs[c]
  BY <1>1
<1>3. /\ sent' \in [Box -> Seq(Byte)] /\ sent'[b] = s
      /\ \A c \in Box \ {b} : sent'[c] = sent[c]
  BY <1>1 DEF Ring
<1>4. /\ call' \in [Proc -> Request \cup {NoCall}] /\ call'[p] = x
      /\ \A q \in Proc \ {p} : call'[q] = call[q]
  BY <1>1
<1>5. TypeOK'
  BY <1>2, <1>3, <1>4 DEF MailboxInv, TypeOK, MboxType
<1>6. ASSUME NEW c \in Box
      PROVE  /\ Free(mboxs'[c]) /\ Ring(mboxs'[c], sent'[c])
             /\ Waiters(mboxs'[c], c, call')
             /\ mboxs'[c].user_cnt = mboxs[c].user_cnt
  <2>1. CASE c = b
    BY <1>2, <1>3, <2>1
  <2>2. CASE c # b
    <3>1. mboxs'[c] = mboxs[c] /\ sent'[c] = sent[c]
      BY <1>2, <1>3, <2>2
    <3>2. Free(mboxs[c]) /\ Ring(mboxs[c], sent[c]) /\ Waiters(mboxs[c], c, call)
      BY DEF MailboxInv
    <3>3. /\ Range(mboxs[c].not_full) \subseteq Proc \ {p}
          /\ Range(mboxs[c].not_empty) \subseteq Proc \ {p}
      <4>1. mboxs[c].not_full \in Seq(Proc) /\ mboxs[c].not_empty \in Seq(Proc)
        BY <1>1 DEF MboxType
      <4> QED
        BY <4>1 DEF InNoQueue, Range
    <3>4. Waiters(mboxs[c], c, call')
      BY <1>4, <3>2, <3>3 DEF Waiters
    <3> QED
      BY <3>1, <3>2, <3>4
  <2> QED
    BY <2>1, <2>2
<1>7. \A c \in Box : Openers(c)' = Openers(c)
  BY DEF Openers
<1>8. \A c \in Box : Counted(mboxs'[c].user_cnt, Openers(c)', kills')
  BY <1>6, <1>7 DEF MailboxInv
<1>9. \A q \in Proc : call'[q] # NoCall => call'[q].box \in handles'[q]
  BY <1>4 DEF MailboxInv
<1> QED
  BY <1>5, <1>6, <1>8, <1>9 DEF MailboxInv

\* A process that has b open is counted.
LEMMA OpenHasUsers ==
  ASSUME MailboxInv, NEW p \in Proc, NEW b \in handles[p]
  PROVE  b \in Box /\ mboxs[b].user_cnt > 0
<1>1. b \in Box
  BY DEF MailboxInv, TypeOK
<1>2. IsFiniteSet(Openers(b)) /\ p \in Openers(b)
  BY <1>1, FS_Subset, BoxAssumption DEF Openers
<1>3. Cardinality(Openers(b)) \in Nat /\ Cardinality(Openers(b)) # 0
  BY <1>2, FS_CardinalityType, FS_EmptySet
<1>4. mboxs[b].user_cnt \in Int
  BY <1>1, BoxTyped DEF MailboxInv, MboxType
<1> QED
  BY <1>1, <1>3, <1>4 DEF MailboxInv, Counted

LEMMA RequestStep ==
  ASSUME MailboxInv, NEW p \in Proc, NEW r \in Request, r.box \in handles[p], InNoQueue(p),
         LockAndBody(p, r)
  PROVE  MailboxInv' /\ StreamStep
<1>0. PICK b : b = r.box
  OBVIOUS
<1>1. PICK m : m = mboxs[b]
  OBVIOUS
<1>2. PICK s : s = sent[b]
  OBVIOUS
<1>3. b \in Box /\ m.user_cnt > 0
  BY <1>0, <1>1, OpenHasUsers
<1>4. /\ mboxs \in [Box -> MboxType] /\ sent \in [Box -> Seq(Byte)]
      /\ got \in UNION {[1..n -> Byte] : n \in Lengths \cup {0}}
      /\ call \in [Proc -> Request \cup {NoCall}]
  BY BoxTyped DEF MailboxInv, TypeOK
<1>5. m \in MboxType /\ Free(m) /\ Ring(m, s) /\ Waiters(m, b, call)
  BY <1>1, <1>2, <1>3, <1>4 DEF MailboxInv
<1>6. Body(p, r, Locked(m))
  BY <1>0, <1>1, <1>5 DEF LockAndBody, Free, Locked
<1>7. /\ Range(m.not_full) \subseteq Proc \ {p} /\ Range(m.not_empty) \subseteq Proc \ {p}
      /\ m.not_full \in Seq(Proc) /\ m.not_empty \in Seq(Proc)
  <2>1. m.not_full \in Seq(Proc) /\ m.not_empty \in Seq(Proc)
    BY <1>5 DEF MboxType
  <2> QED
    BY <1>1, <1>3, <2>1 DEF InNoQueue, Range
<1>8. m.buff_used \in Nat /\ MaxLength \in Nat
  BY <1>5, BoxAssumption DEF MboxType
<1>9. Locked(m).buff_used = m.buff_used
  BY <1>5 DEF Locked, MboxType
<1>10. CASE MustWait(Locked(m), r)
  <2>1. PICK t : t = do_condition_wait(Locked(m), p, WaitFor(r))
    OBVIOUS
  <2>2. /\ mboxs' = [mboxs EXCEPT ![b] = t] /\ call' = [call EXCEPT ![p] = r]
        /\ UNCHANGED <<got, sent, handles, kills>>
    BY <1>0, <1>6, <1>10, <2>1 DEF Body
  <2>3. /\ t \in MboxType /\ Free(t) /\ t.user_cnt = m.user_cnt
        /\ Ring(t, s) /\ t.buff_used = m.buff_used
        /\ r \in SendRequest => /\ t.not_full = Append(m.not_full, p)
                                /\ t.not_empty = m.not_empty
        /\ r \in RecvRequest => /\ t.not_empty = Append(m.not_empty, p)
                                /\ t.not_full = m.not_full
    BY <1>5, <2>1, WaitBox
  <2>4. call'[p] = r /\ \A q \in Proc \ {p} : call'[q] = call[q]
    BY <1>4, <2>2
  <2>5. /\ Range(Append(m.not_full, p)) = Range(m.not_full) \cup {p}
        /\ Range(Append(m.not_empty, p)) = Range(m.not_empty) \cup {p}
    BY <1>7, AppendQueue
  <2>6. \A q : (MustWait(t, q) <=> MustWait(m, q)) /\ (MustWait(Locked(m), q) <=> MustWait(m, q))
    BY <1>9, <2>3, SameUsed
  <2>7. Waiters(t, b, call')
    <3>1. MustWait(t, r) /\ r.box = b
      BY <1>0, <1>10, <2>6
    <3>2. /\ \A q \in Range(m.not_full) :
               call'[q] \in SendRequest /\ call'[q].box = b /\ MustWait(t, call'[q])
          /\ \A q \in Range(m.not_empty) :
               call'[q] \in RecvRequest /\ call'[q].box = b /\ MustWait(t, call'[q])
      BY <1>5, <1>7, <2>4, <2>6 DEF Waiters
    <3>3. CASE r \in SendRequest
      BY <2>3, <2>4, <2>5, <3>1, <3>2, <3>3 DEF Waiters
    <3>4. CASE r \in RecvRequest
      BY <2>3, <2>4, <2>5, <3>1, <3>2, <3>4 DEF Waiters
    <3> QED
      BY <3>3, <3>4, Requests
  <2>8. sent' = [sent EXCEPT ![b] = s]
    BY <1>2, <1>4, <2>2
  <2>9. MailboxInv'
    BY <1>0, <1>1, <1>3, <1>4, <2>2, <2>3, <2>7, <2>8, OneBox
  <2>10. \A c \in Box : mboxs'[c].user_cnt = mboxs[c].user_cnt
    BY <1>1, <1>3, <1>4, <2>2, <2>3
  <2>11. UNCHANGED Streams!vars
    BY <2>2, <2>10 DEF Streams!vars
  <2> QED
    BY <2>9, <2>11 DEF StreamStep
<1>11. CASE ~MustWait(Locked(m), r)
  <2>1. PICK t : t = Transfer(Locked(m), r)
    OBVIOUS
  <2>2. /\ mboxs' = [mboxs EXCEPT ![b] = t] /\ call' = [call EXCEPT ![p] = NoCall]
        /\ got' = IF r.op = "recv" THEN Front(Locked(m), r.len) ELSE got
        /\ sent' = [sent EXCEPT ![b] = IF r.op = "send" THEN s \o r.msg
                                       ELSE SubSeq(s, r.len + 1, Len(s))]
        /\ UNCHANGED <<handles, kills>>
    BY <1>0, <1>2, <1>6, <1>11, <2>1 DEF Body
  <2>3. /\ t \in MboxType /\ Free(t) /\ t.user_cnt = m.user_cnt
        /\ r \in SendRequest => /\ Ring(t, s \o r.msg)
                                /\ m.buff_used + Len(r.msg) <= MaxLength
                                /\ t.buff_used = m.buff_used + Len(r.msg)
                                /\ t.not_full = m.not_full /\ t.not_empty = <<>>
        /\ r \in RecvRequest => /\ Ring(t, SubSeq(s, r.len + 1, Len(s)))
                                /\ r.len <= m.buff_used
                                /\ t.buff_used = m.buff_used - r.len
                                /\ t.not_empty = m.not_empty /\ t.not_full = <<>>
                                /\ Front(Locked(m), r.len) = SubSeq(s, 1, r.len)
                                /\ Front(Locked(m), r.len) \in [1..r.len -> Byte]
    BY <1>5, <1>11, <2>1, TransferBox
  <2>4. call'[p] = NoCall /\ \A q \in Proc \ {p} : call'[q] = call[q]
    BY <1>4, <2>2
  <2>5. \A c \in Box : mboxs'[c].user_cnt = mboxs[c].user_cnt
    BY <1>1, <1>3, <1>4, <2>2, <2>3
  <2>6. Range(<<>>) = {}
    BY DEF Range
  <2>7. Len(s) = m.buff_used
    BY <1>5 DEF Ring
  <2>8. CASE r \in SendRequest
    <3>1. r.op = "send" /\ r.msg \in Message /\ Len(r.msg) \in Nat
      BY <2>8, Requests
    <3>2. got' = got /\ sent' = [sent EXCEPT ![b] = s \o r.msg]
      BY <2>2, <3>1
    <3>3. ASSUME NEW q \in Range(t.not_full)
          PROVE  call'[q] \in SendRequest /\ call'[q].box = b /\ MustWait(t, call'[q])
      <4>1. q \in Range(m.not_full) /\ call'[q] = call[q]
        BY <1>7, <2>3, <2>4, <2>8
      <4>2. call[q] \in SendRequest /\ call[q].box = b /\ MustWait(m, call[q])
        BY <1>5, <4>1 DEF Waiters
      <4>3. call[q].op = "send" /\ Len(call[q].msg) \in Nat
        BY <4>2, Requests
      <4>4. m.buff_used + Len(call[q].msg) > MaxLength
        BY <4>2, <4>3 DEF MustWait
      <4>5. t.buff_used + Len(call[q].msg) > MaxLength
        BY <1>8, <2>3, <2>8, <3>1, <4>3, <4>4
      <4> QED
        BY <4>1, <4>2, <4>3, <4>5 DEF MustWait
    <3>4. Waiters(t, b, call')
      BY <2>3, <2>6, <2>8, <3>3 DEF Waiters
    <3>5. MailboxInv'
      BY <1>0, <1>1, <1>3, <1>4, <2>2, <2>3, <2>8, <3>2, <3>4, OneBox
    <3>6. Streams!Put(b, r.msg)
      <4>1. [c \in Box |-> mboxs[c].user_cnt][b] > 0
        BY <1>1, <1>3
      <4>2. Len(sent[b]) + Len(r.msg) <= MaxLength
        BY <1>2, <2>3, <2>7, <2>8
      <4>3. sent' = [sent EXCEPT ![b] = @ \o r.msg]
        BY <1>2, <3>2
      <4> QED
        BY <2>5, <3>2, <4>1, <4>2, <4>3 DEF Streams!Put
    <3> QED
      BY <1>3, <3>1, <3>5, <3>6 DEF StreamStep, Streams!Next
  <2>9. CASE r \in RecvRequest
    <3>1. r.op = "recv" /\ r.len \in Lengths /\ r.len \in Nat
      BY <2>9, Requests
    <3>2. /\ got' = SubSeq(s, 1, r.len) /\ got' \in [1..r.len -> Byte]
          /\ sent' = [sent EXCEPT ![b] = SubSeq(s, r.len + 1, Len(s))]
      BY <2>2, <2>3, <2>9, <3>1
    <3>3. ASSUME NEW q \in Range(t.not_empty)
          PROVE  call'[q] \in RecvRequest /\ call'[q].box = b /\ MustWait(t, call'[q])
      <4>1. q \in Range(m.not_empty) /\ call'[q] = call[q]
        BY <1>7, <2>3, <2>4, <2>9
      <4>2. call[q] \in RecvRequest /\ call[q].box = b /\ MustWait(m, call[q])
        BY <1>5, <4>1 DEF Waiters
      <4>3. call[q].op = "recv" /\ call[q].len \in Nat
        BY <4>2, Requests
      <4>4. m.buff_used - call[q].len < 0
        BY <4>2, <4>3 DEF MustWait
      <4>5. t.buff_used - call[q].len < 0
        BY <1>8, <2>3, <2>9, <3>1, <4>3, <4>4
      <4> QED
        BY <4>1, <4>2, <4>3, <4>5 DEF MustWait
    <3>4. Waiters(t, b, call')
      BY <2>3, <2>6, <2>9, <3>3 DEF Waiters
    <3>5. got' \in UNION {[1..n -> Byte] : n \in Lengths \cup {0}}
      BY <3>1, <3>2
    <3>6. MailboxInv'
      BY <1>0, <1>1, <1>3, <2>2, <2>3, <2>9, <3>2, <3>4, <3>5, OneBox
    <3>7. Streams!Get(b, r.len)
      <4>1. [c \in Box |-> mboxs[c].user_cnt][b] > 0
        BY <1>1, <1>3
      <4>2. r.len <= Len(sent[b])
        BY <1>2, <2>3, <2>7, <2>9
      <4>3. sent' = [sent EXCEPT ![b] = SubSeq(@, r.len + 1, Len(@))]
        BY <1>2, <3>2
      <4> QED
        BY <1>2, <2>5, <3>2, <4>1, <4>2, <4>3 DEF Streams!Get
    <3> QED
      BY <1>3, <3>1, <3>6, <3>7 DEF StreamStep, Streams!Next
  <2> QED
    BY <2>8, <2>9, Requests
<1> QED
  BY <1>10, <1>11
-----------------------------------------------------------------------------
(***************************************************************************)
(* Opening, closing, and the death of a process.                           *)
(***************************************************************************)

\* The count of the users of a mailbox, by the change of those that have it open.
LEMMA CountUp ==
  ASSUME NEW A \in SUBSET Proc, NEW p \in Proc, p \notin A, NEW n \in Nat, NEW k \in 0..MaxKills,
         Counted(n, A, k)
  PROVE  Counted(n + 1, A \cup {p}, k) /\ n + 1 \in 0..(Cardinality(Proc) + MaxKills)
<1>1. IsFiniteSet(A) /\ IsFiniteSet(A \cup {p}) /\ A \cup {p} \in SUBSET Proc
      /\ IsFiniteSet(Proc)
  BY FS_Subset, BoxAssumption
<1>2. Cardinality(A \cup {p}) = Cardinality(A) + 1
  BY <1>1, FS_AddElement
<1>3. Cardinality(A) \in Nat /\ Cardinality(Proc) \in Nat /\ MaxKills \in Nat
  BY <1>1, FS_CardinalityType, BoxAssumption
<1>4. Cardinality(A \cup {p}) <= Cardinality(Proc)
  BY <1>1, FS_Subset
<1> QED
  BY <1>2, <1>3, <1>4 DEF Counted

LEMMA CountDown ==
  ASSUME NEW A \in SUBSET Proc, NEW p \in A, NEW n \in Nat, NEW k \in Nat, Counted(n, A, k)
  PROVE  n > 0 /\ Counted(n - 1, A \ {p}, k) /\ Counted(n, A \ {p}, k + 1)
<1>1. IsFiniteSet(A)
  BY FS_Subset, BoxAssumption
<1>2. Cardinality(A \ {p}) = Cardinality(A) - 1
  BY <1>1, FS_RemoveElement
<1>3. Cardinality(A) \in Nat /\ Cardinality(A) # 0
  BY <1>1, FS_CardinalityType, FS_EmptySet
<1> QED
  BY <1>2, <1>3 DEF Counted

\* The mailbox do_mbox_open finds: still in use, or initialized.
LEMMA OpenStep ==
  ASSUME MailboxInv, NEW p \in Proc, NEW nm \in Name, do_mbox_open(p, nm)
  PROVE  MailboxInv' /\ StreamStep
<1>1. PICK i \in Box :
        /\ Match(nm, Probe(nm, i))
        /\ LET b == Probe(nm, i)
               m == IF mboxs[b].user_cnt = 0
                    THEN [Unused EXCEPT !.name = nm, !.buff = mboxs[b].buff]
                    ELSE mboxs[b]
           IN  /\ mboxs' = [mboxs EXCEPT ![b] = [m EXCEPT !.user_cnt = @ + 1]]
               /\ handles' = [handles EXCEPT ![p] = @ \cup {b}]
               /\ sent' = IF mboxs[b].user_cnt = 0 THEN [sent EXCEPT ![b] = <<>>] ELSE sent
  BY DEF do_mbox_open
<1>2. PICK b : b = Probe(nm, i)
  OBVIOUS
<1>3. PICK m : m = IF mboxs[b].user_cnt = 0
                   THEN [Unused EXCEPT !.name = nm, !.buff = mboxs[b].buff]
                   ELSE mboxs[b]
  OBVIOUS
<1>4. PICK t : t = [m EXCEPT !.user_cnt = @ + 1]
  OBVIOUS
<1>5. PICK s : s = IF mboxs[b].user_cnt = 0 THEN <<>> ELSE sent[b]
  OBVIOUS
<1>6. b \in Box
  <2>1. i \in Int /\ Hash[nm] \in Int /\ NumBox \in Nat \ {0}
    BY BoxAssumption DEF Box
  <2>2. PICK x : x = i + Hash[nm]
    OBVIOUS
  <2>3. x \in Int
    BY <2>1, <2>2
  <2>4. x % NumBox \in 0..(NumBox - 1)
    BY <2>1, <2>3
  <2> QED
    BY <1>2, <2>2, <2>4 DEF Probe, Box
<1>7. /\ mboxs \in [Box -> MboxType] /\ sent \in [Box -> Seq(Byte)]
      /\ call \in [Proc -> Request \cup {NoCall}] /\ handles \in [Proc -> SUBSET Box]
      /\ got \in UNION {[1..n -> Byte] : n \in Lengths \cup {0}} /\ kills \in 0..MaxKills
  BY BoxTyped DEF MailboxInv, TypeOK
<1>8. mboxs[b] \in MboxType
  BY <1>6, <1>7
<1>9. /\ mboxs' = [mboxs EXCEPT ![b] = t] /\ handles' = [handles EXCEPT ![p] = @ \cup {b}]
      /\ sent' = [sent EXCEPT ![b] = s] /\ UNCHANGED <<call, got, kills>>
  <2>1. /\ mboxs' = [mboxs EXCEPT ![b] = t] /\ handles' = [handles EXCEPT ![p] = @ \cup {b}]
        /\ sent' = IF mboxs[b].user_cnt = 0 THEN [sent EXCEPT ![b] = <<>>] ELSE sent
    BY <1>1, <1>2, <1>3, <1>4
  <2>2. sent' = [sent EXCEPT ![b] = s]
    BY <1>5, <1>6, <1>7, <2>1
  <2> QED
    BY <2>1, <2>2 DEF do_mbox_open
<1>10. /\ m \in MboxType /\ m.user_cnt = mboxs[b].user_cnt /\ Free(m) /\ Ring(m, s)
       /\ Waiters(m, b, call)
  <2>1. CASE mboxs[b].user_cnt = 0
    <3>1. m = [Unused EXCEPT !.name = nm, !.buff = mboxs[b].buff] /\ s = <<>>
      BY <1>3, <1>5, <2>1
    <3>2. 0 \in Index /\ 0 \in 0..MaxLength /\ 0 \in 0..(Cardinality(Proc) + MaxKills)
      <4>1. Cardinality(Proc) \in Nat /\ MaxLength \in Nat \ {0} /\ MaxKills \in Nat
        BY BoxAssumption, FS_CardinalityType
      <4> QED
        BY <4>1 DEF Index
    <3>3. mboxs[b].buff \in [Index -> Byte]
      BY <1>8 DEF MboxType
    <3>4. m = [name |-> nm, user_cnt |-> 0, buff_used |-> 0, start |-> 0, end |-> 0,
               buff |-> mboxs[b].buff, lock |-> "UNLOCKED", lock_queue |-> <<>>,
               not_full |-> <<>>, not_empty |-> <<>>]
      BY <3>1 DEF Unused
    <3>5. m \in MboxType
      BY <3>2, <3>3, <3>4 DEF MboxType
    <3>6. (0 + 0) % MaxLength = 0
      BY BoxAssumption
    <3>7. Ring(m, s)
      <4>1. m.buff_used = 0 /\ m.start = 0 /\ m.end = 0
        BY <3>4
      <4>2. s \in Seq(Byte) /\ Len(s) = 0
        BY <3>1
      <4>3. 1..0 = {}
        OBVIOUS
      <4> QED
        BY <3>6, <4>1, <4>2, <4>3 DEF Ring
    <3>8. Range(<<>>) = {}
      BY DEF Range
    <3> QED
      BY <2>1, <3>4, <3>5, <3>7, <3>8 DEF Free, Waiters
  <2>2. CASE mboxs[b].user_cnt # 0
    BY <1>3, <1>5, <1>6, <1>8, <2>2 DEF MailboxInv
  <2> QED
    BY <2>1, <2>2
<1>11. b \notin handles[p]
  <2>1. CASE mboxs[b].user_cnt = 0
    BY <2>1, OpenHasUsers
  <2>2. CASE mboxs[b].user_cnt # 0
    BY <1>1, <1>2, <2>2 DEF Match, do_mbox_open
  <2> QED
    BY <2>1, <2>2
<1>12. /\ handles' \in [Proc -> SUBSET Box] /\ handles'[p] = handles[p] \cup {b}
       /\ \A q \in Proc \ {p} : handles'[q] = handles[q]
  BY <1>6, <1>7, <1>9
<1>13. /\ Openers(b)' = Openers(b) \cup {p} /\ p \notin Openers(b)
       /\ \A c \in Box \ {b} : Openers(c)' = Openers(c)
  BY <1>11, <1>12 DEF Openers
<1>14. /\ Counted(m.user_cnt + 1, Openers(b)', kills)
       /\ m.user_cnt + 1 \in 0..(Cardinality(Proc) + MaxKills)
  <2>1. m.user_cnt \in Nat
    BY <1>10, BoxAssumption DEF MboxType
  <2>2. Counted(m.user_cnt, Openers(b), kills)
    BY <1>6, <1>10 DEF MailboxInv
  <2>3. Openers(b) \in SUBSET Proc
    BY DEF Openers
  <2>4. QED
    <3>1. PICK A, n : A = Openers(b) /\ n = m.user_cnt
      OBVIOUS
    <3>2. Counted(n + 1, A \cup {p}, kills) /\ n + 1 \in 0..(Cardinality(Proc) + MaxKills)
      BY <1>7, <1>13, <2>1, <2>2, <2>3, <3>1, CountUp
    <3> QED
      BY <1>13, <3>1, <3>2
<1>15. /\ t \in MboxType /\ t.user_cnt = m.user_cnt + 1 /\ t.buff_used = m.buff_used
       /\ t.start = m.start /\ t.end = m.end /\ t.buff = m.buff
       /\ t.lock = m.lock /\ t.lock_queue = m.lock_queue
       /\ t.not_full = m.not_full /\ t.not_empty = m.not_empty
  BY <1>4, <1>10, <1>14 DEF MboxType
<1>16. Free(t) /\ Ring(t, s) /\ Waiters(t, b, call)
  <2>1. \A r : MustWait(t, r) <=> MustWait(m, r)
    BY <1>15, SameUsed
  <2> QED
    BY <1>10, <1>15, <2>1 DEF Free, Ring, Waiters
<1>17. /\ mboxs' \in [Box -> MboxType] /\ mboxs'[b] = t
       /\ \A c \in Box \ {b} : mboxs'[c] = mboxs[c]
  BY <1>6, <1>7, <1>9, <1>15
<1>18. /\ sent' \in [Box -> Seq(Byte)] /\ sent'[b] = s
       /\ \A c \in Box \ {b} : sent'[c] = sent[c]
  BY <1>6, <1>7, <1>9, <1>16 DEF Ring
<1>19. TypeOK'
  BY <1>7, <1>9, <1>12, <1>17, <1>18 DEF TypeOK, MboxType
<1>20. \A c \in Box : /\ Free(mboxs'[c]) /\ Ring(mboxs'[c], sent'[c])
                      /\ Waiters(mboxs'[c], c, call')
                      /\ Counted(mboxs'[c].user_cnt, Openers(c)', kills')
  BY <1>9, <1>13, <1>14, <1>15, <1>16, <1>17, <1>18 DEF MailboxInv
<1>21. \A q \in Proc : call'[q] # NoCall => call'[q].box \in handles'[q]
  BY <1>9, <1>12 DEF MailboxInv
<1>22. MailboxInv'
  BY <1>19, <1>20, <1>21 DEF MailboxInv
<1>23. Streams!Open(b)
  <2>1. [c \in Box |-> mboxs'[c].user_cnt]
          = [[c \in Box |-> mboxs[c].user_cnt] EXCEPT ![b] = @ + 1]
    BY <1>6, <1>10, <1>15, <1>17
  <2>2. sent' = IF mboxs[b].user_cnt = 0 THEN [sent EXCEPT ![b] = <<>>] ELSE sent
    BY <1>1, <1>2
  <2> QED
    BY <1>6, <1>9, <2>1, <2>2 DEF Streams!Open
<1> QED
  BY <1>6, <1>22, <1>23 DEF StreamStep, Streams!Next

LEMMA CloseStep ==
  ASSUME MailboxInv, NEW p \in Proc, NEW b \in Box, do_mbox_close(p, b)
  PROVE  MailboxInv' /\ StreamStep
<1>1. /\ mboxs \in [Box -> MboxType] /\ handles \in [Proc -> SUBSET Box]
      /\ call[p] = NoCall /\ b \in handles[p] /\ kills \in 0..MaxKills /\ MaxKills \in Nat
  BY BoxTyped, BoxAssumption DEF MailboxInv, TypeOK, do_mbox_close
<1>2. PICK m : m = mboxs[b]
  OBVIOUS
<1>3. PICK t : t = [m EXCEPT !.user_cnt = m.user_cnt - 1]
  OBVIOUS
<1>4. m \in MboxType /\ m.user_cnt > 0 /\ m.user_cnt - 1 \in 0..(Cardinality(Proc) + MaxKills)
      /\ m.user_cnt \in Nat
  <2>1. m \in MboxType /\ m.user_cnt > 0
    BY <1>1, <1>2, OpenHasUsers
  <2>2. m.user_cnt \in 0..(Cardinality(Proc) + MaxKills)
    BY <2>1 DEF MboxType
  <2>3. Cardinality(Proc) \in Nat /\ MaxKills \in Nat
    BY BoxAssumption, FS_CardinalityType
  <2> QED
    BY <2>1, <2>2, <2>3
<1>5. /\ mboxs' = [mboxs EXCEPT ![b] = t] /\ handles' = [handles EXCEPT ![p] = @ \ {b}]
      /\ UNCHANGED <<call, got, kills, sent>>
  <2>1. mboxs' = [mboxs EXCEPT ![b].user_cnt = IF @ > 0 THEN @ - 1 ELSE @]
    BY DEF do_mbox_close
  <2>2. mboxs' = [mboxs EXCEPT ![b] = t]
    BY <1>1, <1>2, <1>3, <1>4, <2>1 DEF MboxType
  <2> QED
    BY <2>2 DEF do_mbox_close
<1>6. /\ t \in MboxType /\ t.user_cnt = m.user_cnt - 1 /\ t.buff_used = m.buff_used
      /\ t.start = m.start /\ t.end = m.end /\ t.buff = m.buff
      /\ t.lock = m.lock /\ t.lock_queue = m.lock_queue
      /\ t.not_full = m.not_full /\ t.not_empty = m.not_empty
  BY <1>3, <1>4 DEF MboxType
<1>7. Free(t) /\ Ring(t, sent[b]) /\ Waiters(t, b, call)
  <2>1. \A r : MustWait(t, r) <=> MustWait(m, r)
    BY <1>6, SameUsed
  <2>2. Free(m) /\ Ring(m, sent[b]) /\ Waiters(m, b, call)
    BY <1>2 DEF MailboxInv
  <2> QED
    BY <1>6, <2>1, <2>2 DEF Free, Ring, Waiters
<1>8. /\ mboxs' \in [Box -> MboxType] /\ mboxs'[b] = t
      /\ \A c \in Box \ {b} : mboxs'[c] = mboxs[c]
  BY <1>1, <1>5, <1>6
<1>9. /\ handles' \in [Proc -> SUBSET Box] /\ handles'[p] = handles[p] \ {b}
      /\ \A q \in Proc \ {p} : handles'[q] = handles[q]
  BY <1>1, <1>5
<1>10. /\ Openers(b)' = Openers(b) \ {p} /\ p \in Openers(b)
       /\ \A c \in Box \ {b} : Openers(c)' = Openers(c)
  BY <1>1, <1>9 DEF Openers
<1>11. Counted(m.user_cnt - 1, Openers(b)', kills)
  <2>1. Counted(m.user_cnt, Openers(b), kills)
    BY <1>2 DEF MailboxInv
  <2>2. Openers(b) \in SUBSET Proc /\ kills \in Nat
    BY <1>1 DEF Openers
  <2> QED
    BY <1>4, <1>10, <2>1, <2>2, CountDown
<1>12. TypeOK'
  BY <1>5, <1>8, <1>9 DEF MailboxInv, TypeOK, MboxType
<1>13. \A c \in Box : /\ Free(mboxs'[c]) /\ Ring(mboxs'[c], sent'[c])
                      /\ Waiters(mboxs'[c], c, call')
                      /\ Counted(mboxs'[c].user_cnt, Openers(c)', kills')
  BY <1>5, <1>6, <1>7, <1>8, <1>10, <1>11 DEF MailboxInv
<1>14. \A q \in Proc : call'[q] # NoCall => call'[q].box \in handles'[q]
  BY <1>1, <1>5, <1>9 DEF MailboxInv
<1>15. MailboxInv'
  BY <1>12, <1>13, <1>14 DEF MailboxInv
<1>16. Streams!Close(b)
  <2>1. [c \in Box |-> mboxs'[c].user_cnt]
          = [[c \in Box |-> mboxs[c].user_cnt] EXCEPT ![b] = @ - 1]
    BY <1>2, <1>6, <1>8
  <2>2. [c \in Box |-> mboxs[c].user_cnt][b] > 0
    BY <1>2, <1>4
  <2> QED
    BY <1>5, <2>1, <2>2 DEF Streams!Close
<1> QED
  BY <1>15, <1>16 DEF StreamStep, Streams!Next

LEMMA KillStep ==
  ASSUME MailboxInv, NEW p \in Proc, do_kill(p)
  PROVE  MailboxInv' /\ StreamStep
<1>1. /\ mboxs \in [Box -> MboxType] /\ handles \in [Proc -> SUBSET Box]
      /\ call \in [Proc -> Request \cup {NoCall}]
      /\ kills \in 0..MaxKills /\ MaxKills \in Nat
  BY BoxTyped, BoxAssumption DEF MailboxInv, TypeOK
<1>2. PICK A : A = Proc \ {p}
  OBVIOUS
<1>3. /\ kills < MaxKills /\ kills' = kills + 1
      /\ mboxs' = [b \in Box |-> [mboxs[b] EXCEPT !.not_full = Keep(@, A),
                                                  !.not_empty = Keep(@, A)]]
      /\ call' = [call EXCEPT ![p] = NoCall] /\ handles' = [handles EXCEPT ![p] = {}]
      /\ UNCHANGED <<got, sent>>
  BY <1>2 DEF do_kill
<1>4. ASSUME NEW b \in Box
      PROVE  /\ mboxs'[b] \in MboxType /\ mboxs'[b].user_cnt = mboxs[b].user_cnt
             /\ Free(mboxs'[b]) /\ Ring(mboxs'[b], sent[b])
             /\ Waiters(mboxs'[b], b, call')
  <2>1. PICK m : m = mboxs[b]
    OBVIOUS
  <2>2. PICK t : t = [m EXCEPT !.not_full = Keep(m.not_full, A), !.not_empty = Keep(m.not_empty, A)]
    OBVIOUS
  <2>3. m \in MboxType /\ Free(m) /\ Ring(m, sent[b]) /\ Waiters(m, b, call)
    BY <1>1, <2>1 DEF MailboxInv
  <2>4. mboxs'[b] = t
    BY <1>3, <2>1, <2>2, <2>3 DEF MboxType
  <2>5. m.not_full \in Seq(Proc) /\ m.not_empty \in Seq(Proc)
    BY <2>3 DEF MboxType
  <2>6. /\ Keep(m.not_full, A) \in Seq(Proc) /\ Keep(m.not_empty, A) \in Seq(Proc)
        /\ Range(Keep(m.not_full, A)) = Range(m.not_full) \cap A
        /\ Range(Keep(m.not_empty, A)) = Range(m.not_empty) \cap A
    BY <2>5, KeepProperties
  <2>7. /\ t \in MboxType /\ t.user_cnt = m.user_cnt /\ t.buff_used = m.buff_used
        /\ t.start = m.start /\ t.end = m.end /\ t.buff = m.buff
        /\ t.lock = m.lock /\ t.lock_queue = m.lock_queue
        /\ t.not_full = Keep(m.not_full, A) /\ t.not_empty = Keep(m.not_empty, A)
    BY <2>2, <2>3, <2>6 DEF MboxType
  <2>8. \A r : MustWait(t, r) <=> MustWait(m, r)
    BY <2>7, SameUsed
  <2>9. \A q \in A : call'[q] = call[q]
    BY <1>1, <1>2, <1>3
  <2>10. Waiters(t, b, call')
    BY <2>3, <2>6, <2>7, <2>8, <2>9 DEF Waiters
  <2>11. Free(t) /\ Ring(t, sent[b])
    BY <2>3, <2>7 DEF Free, Ring
  <2> QED
    BY <2>1, <2>4, <2>7, <2>10, <2>11
<1>5. mboxs' \in [Box -> MboxType]
  <2>1. DOMAIN mboxs' = Box /\ mboxs' = [b \in Box |-> mboxs'[b]]
    BY <1>3
  <2> QED
    BY <1>4, <2>1
<1>6. /\ handles' \in [Proc -> SUBSET Box] /\ handles'[p] = {}
      /\ \A q \in Proc \ {p} : handles'[q] = handles[q]
  BY <1>1, <1>3
<1>7. /\ call' \in [Proc -> Request \cup {NoCall}] /\ call'[p] = NoCall
      /\ \A q \in Proc \ {p} : call'[q] = call[q]
  BY <1>1, <1>3
<1>8. ASSUME NEW b \in Box
      PROVE  Counted(mboxs'[b].user_cnt, Openers(b)', kills')
  <2>1. Openers(b)' = Openers(b) \ {p} /\ Openers(b) \in SUBSET Proc
    BY <1>6 DEF Openers
  <2>2. Counted(mboxs[b].user_cnt, Openers(b), kills)
    BY DEF MailboxInv
  <2>3. mboxs[b].user_cnt \in Nat /\ kills \in Nat
    <3>1. Cardinality(Proc) \in Nat
      BY BoxAssumption, FS_CardinalityType
    <3>2. mboxs[b].user_cnt \in 0..(Cardinality(Proc) + MaxKills)
      BY <1>1 DEF MboxType
    <3> QED
      BY <1>1, <3>1, <3>2
  <2>4. CASE p \in Openers(b)
    <3>1. Counted(mboxs[b].user_cnt, Openers(b) \ {p}, kills + 1)
      BY <2>1, <2>2, <2>3, <2>4, CountDown
    <3>2. mboxs'[b].user_cnt = mboxs[b].user_cnt /\ kills' = kills + 1
      BY <1>3, <1>4
    <3> QED
      BY <2>1, <3>1, <3>2
  <2>5. CASE p \notin Openers(b)
    <3>1. Openers(b)' = Openers(b)
      BY <2>1, <2>5
    <3>2. IsFiniteSet(Openers(b))
      BY <2>1, FS_Subset, BoxAssumption
    <3>3. Cardinality(Openers(b)) \in Nat
      BY <3>2, FS_CardinalityType
    <3>4. Counted(mboxs[b].user_cnt, Openers(b), kills + 1)
      BY <2>2, <2>3, <3>3 DEF Counted
    <3> QED
      BY <1>3, <1>4, <3>1, <3>4
  <2> QED
    BY <2>4, <2>5
<1>9. kills' \in 0..MaxKills
  <2>1. kills < MaxKills /\ kills' = kills + 1
    BY <1>3
  <2> QED
    BY <1>1, <2>1
<1>10. TypeOK'
  BY <1>3, <1>5, <1>6, <1>7, <1>9 DEF MailboxInv, TypeOK, MboxType
<1>11. \A q \in Proc : call'[q] # NoCall => call'[q].box \in handles'[q]
  BY <1>6, <1>7 DEF MailboxInv
<1>12. MailboxInv'
  BY <1>3, <1>4, <1>8, <1>10, <1>11 DEF MailboxInv
<1>13. UNCHANGED Streams!vars
  BY <1>3, <1>4 DEF Streams!vars
<1> QED
  BY <1>12, <1>13 DEF StreamStep
-----------------------------------------------------------------------------
(***************************************************************************)
(* The results.                                                            *)
(***************************************************************************)
LEMMA InitMailbox == Init => MailboxInv
<1> SUFFICES ASSUME Init
             PROVE  MailboxInv
  OBVIOUS
<1>1. 0 \in Index /\ 0 \in 0..MaxLength /\ 0 \in 0..(Cardinality(Proc) + MaxKills)
      /\ 0 \in 0..MaxKills
  <2>1. Cardinality(Proc) \in Nat /\ MaxLength \in Nat \ {0} /\ MaxKills \in Nat
    BY BoxAssumption, FS_CardinalityType
  <2> QED
    BY <2>1 DEF Index
<1>2. [i \in Index |-> CHOOSE x \in Byte : TRUE] \in [Index -> Byte]
  BY BoxAssumption
<1>3. Unused \in MboxType
  BY <1>1, <1>2 DEF Unused, MboxType
<1>4. mboxs \in [Box -> MboxType] /\ \A b \in Box : mboxs[b] = Unused
  BY <1>3 DEF Init
<1>5. got \in UNION {[1..n -> Byte] : n \in Lengths \cup {0}}
  <2>1. got \in [1..0 -> Byte]
    BY DEF Init
  <2> QED
    BY <2>1
<1>6. TypeOK
  BY <1>1, <1>4, <1>5 DEF Init, TypeOK, MboxType
<1>7. Ring(Unused, <<>>)
  <2>1. Unused.buff_used = 0 /\ Unused.start = 0 /\ Unused.end = 0
    BY DEF Unused
  <2>2. (0 + 0) % MaxLength = 0
    BY BoxAssumption
  <2>3. 1..0 = {} /\ <<>> \in Seq(Byte) /\ Len(<<>>) = 0
    OBVIOUS
  <2> QED
    BY <2>1, <2>2, <2>3 DEF Ring
<1>8. Free(Unused) /\ \A b : Waiters(Unused, b, call)
  BY DEF Unused, Free, Waiters, Range
<1>9. Counted(0, {}, 0)
  BY FS_EmptySet DEF Counted
<1>10. \A b \in Box : Openers(b) = {}
  BY DEF Init, Openers
<1>11. Unused.user_cnt = 0 /\ kills = 0 /\ \A b \in Box : sent[b] = <<>>
  BY DEF Init, Unused
<1>12. \A p \in Proc : call[p] = NoCall
  BY DEF Init
<1> QED
  BY <1>4, <1>6, <1>7, <1>8, <1>9, <1>10, <1>11, <1>12 DEF MailboxInv

\* A process that may run is in no queue.
LEMMA RunsInNoQueue ==
  ASSUME MailboxInv, NEW p \in Proc, call[p] = NoCall \/ ~Waiting(p)
  PROVE  InNoQueue(p)
<1> SUFFICES ASSUME NEW b \in Box,
                    p \in Range(mboxs[b].not_full) \/ p \in Range(mboxs[b].not_empty)
             PROVE  FALSE
  BY DEF InNoQueue
<1>1. Waiters(mboxs[b], b, call)
  BY DEF MailboxInv
<1>2. CASE p \in Range(mboxs[b].not_full)
  <2>1. call[p] \in SendRequest /\ call[p].box = b
    BY <1>1, <1>2 DEF Waiters
  <2>2. call[p] # NoCall /\ WaitFor(call[p]) = "not_full"
    BY <2>1, Requests
  <2> QED
    BY <1>2, <2>1, <2>2 DEF Waiting
<1>3. CASE p \in Range(mboxs[b].not_empty)
  <2>1. call[p] \in RecvRequest /\ call[p].box = b
    BY <1>1, <1>3 DEF Waiters
  <2>2. call[p] # NoCall /\ WaitFor(call[p]) = "not_empty"
    BY <2>1, Requests
  <2> QED
    BY <1>3, <2>1, <2>2 DEF Waiting
<1> QED
  BY <1>2, <1>3

LEMMA NextMailbox == MailboxInv /\ [Next]_vars => MailboxInv' /\ StreamStep
<1> SUFFICES ASSUME MailboxInv, [Next]_vars
             PROVE  MailboxInv' /\ StreamStep
  OBVIOUS
<1>1. CASE UNCHANGED vars
  <2>1. MailboxInv'
    BY <1>1 DEF vars, MailboxInv, TypeOK, Openers
  <2>2. UNCHANGED Streams!vars
    BY <1>1 DEF vars, Streams!vars
  <2> QED
    BY <2>1, <2>2 DEF StreamStep
<1>2. ASSUME NEW p \in Proc, NEW nm \in Name, do_mbox_open(p, nm)
      PROVE  MailboxInv' /\ StreamStep
  BY <1>2, OpenStep
<1>3. ASSUME NEW p \in Proc, NEW b \in Box, do_mbox_close(p, b)
      PROVE  MailboxInv' /\ StreamStep
  BY <1>3, CloseStep
<1>4. ASSUME NEW p \in Proc, NEW b \in Box, NEW msg \in Message, do_mbox_send(p, b, msg)
      PROVE  MailboxInv' /\ StreamStep
  <2>1. PICK r : r = [op |-> "send", box |-> b, msg |-> msg]
    OBVIOUS
  <2>2. r \in Request /\ r.box = b
    BY <2>1 DEF Request
  <2>3. call[p] = NoCall /\ b \in handles[p] /\ LockAndBody(p, r)
    BY <1>4, <2>1 DEF do_mbox_send
  <2> QED
    BY <2>2, <2>3, RunsInNoQueue, RequestStep
<1>5. ASSUME NEW p \in Proc, NEW b \in Box, NEW n \in Lengths, do_mbox_recv(p, b, n)
      PROVE  MailboxInv' /\ StreamStep
  <2>1. PICK r : r = [op |-> "recv", box |-> b, len |-> n]
    OBVIOUS
  <2>2. r \in Request /\ r.box = b
    BY <2>1 DEF Request
  <2>3. call[p] = NoCall /\ b \in handles[p] /\ LockAndBody(p, r)
    BY <1>5, <2>1 DEF do_mbox_recv
  <2> QED
    BY <2>2, <2>3, RunsInNoQueue, RequestStep
<1>6. ASSUME NEW p \in Proc, Woken(p)
      PROVE  MailboxInv' /\ StreamStep
  <2>1. PICK r : r = call[p]
    OBVIOUS
  <2>2. r # NoCall /\ ~Waiting(p) /\ LockAndBody(p, r)
    BY <1>6, <2>1 DEF Woken
  <2>3. r \in Request /\ r.box \in handles[p]
    BY <2>1, <2>2 DEF MailboxInv, TypeOK
  <2> QED
    BY <2>2, <2>3, RunsInNoQueue, RequestStep
<1>7. ASSUME NEW p \in Proc, do_kill(p)
      PROVE  MailboxInv' /\ StreamStep
  BY <1>7, KillStep
<1> QED
  BY <1>1, <1>2, <1>3, <1>4, <1>5, <1>6, <1>7 DEF Next

LEMMA MailboxInvariant == Spec => []MailboxInv
  BY InitMailbox, NextMailbox, PTL DEF Spec

\* Whatever processes send, receive, open and close, and whoever is killed while it
\* waits: do_mbox_send and do_mbox_recv leave nobody waiting for what is there, and the
\* lock is free between calls.
THEOREM MailboxWakeup == Spec => []NoLostWakeup
<1>1. MailboxInv => NoLostWakeup
  <2> SUFFICES ASSUME MailboxInv
               PROVE  NoLostWakeup
    OBVIOUS
  <2>1. TypeOK /\ LockFreeBetweenCalls
    BY DEF MailboxInv, LockFreeBetweenCalls, Free
  <2>2. ASSUME NEW b \in Box, NEW c \in Cond, NEW p \in Range(mboxs[b][c])
        PROVE  call[p] # NoCall /\ MustWait(mboxs[b], call[p])
    <3>1. Waiters(mboxs[b], b, call)
      BY DEF MailboxInv
    <3>2. CASE c = "not_full"
      BY <3>1, <3>2, Requests DEF Waiters
    <3>3. CASE c = "not_empty"
      BY <3>1, <3>3, Requests DEF Waiters
    <3> QED
      BY <3>2, <3>3 DEF Cond
  <2> QED
    BY <2>1, <2>2 DEF NoLostWakeup
<1> QED
  BY <1>1, MailboxInvariant, PTL

\* A sender and a receiver never wait in a mailbox that could serve both.
THEOREM MailboxStandoff == Spec => []NoStandoff
<1>1. MailboxInv => NoStandoff
  <2> SUFFICES ASSUME MailboxInv, NEW b \in Box, NEW p \in Range(mboxs[b].not_full),
                      NEW q \in Range(mboxs[b].not_empty)
               PROVE  Len(call[p].msg) + call[q].len > MaxLength + 1
    BY DEF NoStandoff
  <2>1. /\ call[p] \in SendRequest /\ MustWait(mboxs[b], call[p])
        /\ call[q] \in RecvRequest /\ MustWait(mboxs[b], call[q])
    BY DEF MailboxInv, Waiters
  <2>2. /\ call[p].op = "send" /\ Len(call[p].msg) \in Nat
        /\ call[q].op = "recv" /\ call[q].len \in Nat
    BY <2>1, Requests
  <2>3. /\ mboxs[b].buff_used + Len(call[p].msg) > MaxLength
        /\ mboxs[b].buff_used - call[q].len < 0
    BY <2>1, <2>2 DEF MustWait
  <2>4. mboxs[b].buff_used \in Nat /\ MaxLength \in Nat
    BY BoxTyped, BoxAssumption DEF MailboxInv, MboxType
  <2> QED
    BY <2>2, <2>3, <2>4
<1> QED
  BY <1>1, MailboxInvariant, PTL

\* user_cnt is never too low, so that do_mbox_open initializes no mailbox in use.
THEOREM MailboxCounted == Spec => []OpenMailboxIsCounted
<1>1. MailboxInv => OpenMailboxIsCounted
  <2> SUFFICES ASSUME MailboxInv, NEW b \in Box
               PROVE  mboxs[b].user_cnt >= Cardinality({p \in Proc : b \in handles[p]})
    BY DEF OpenMailboxIsCounted
  <2>1. Cardinality(Openers(b)) <= mboxs[b].user_cnt
    BY DEF MailboxInv, Counted
  <2>2. IsFiniteSet(Openers(b))
    BY FS_Subset, BoxAssumption DEF Openers
  <2>3. Cardinality(Openers(b)) \in Int /\ mboxs[b].user_cnt \in Int
    BY <2>2, FS_CardinalityType, BoxTyped DEF MailboxInv, MboxType
  <2>4. mboxs[b].user_cnt >= Cardinality(Openers(b))
    BY <2>1, <2>3
  <2> QED
    BY <2>4 DEF Openers
<1> QED
  BY <1>1, MailboxInvariant, PTL

\* The mailboxes implement streams of bytes: every open, close, send and receive is
\* a step of ByteStreams, and waiting, waking up and dying are none.
THEOREM MailboxRefinement == Spec => StreamsSpec
<1>1. Init => Streams!Init
  BY DEF Init, Streams!Init, Unused
<1>2. MailboxInv /\ [Next]_vars => [Streams!Next]_(Streams!vars)
  BY NextMailbox DEF StreamStep
<1> QED
  BY <1>1, <1>2, MailboxInvariant, PTL DEF Spec, StreamsSpec, Streams!Spec
-----------------------------------------------------------------------------
(***************************************************************************)
(* The barriers.                                                           *)
(***************************************************************************)

\* The tasks in the queue are those that are blocked, and a task that is still inside of
\* barrier_wait has arrived once more than it has left.  This holds in a race as well.
QueueInv ==
  /\ BarrierTypeOK
  /\ IsInjective(block_queue)
  /\ \A t \in Task : t \in Range(block_queue) <=> pc[t] = "blocked"
  /\ \A t \in Task : /\ passed[t] <= arrived[t]
                     /\ pc[t] \in {"blocked", "ready"} => passed[t] < arrived[t]
                     /\ pc[t] \in {"start", "set", "init"} => arrived[t] = 0

\* Without a race, r rounds are complete: everybody has arrived r times, and those that
\* have arrived once more wait, or were killed while they waited.  now counts them, the
\* dead included.  Nobody has left more than r times.
AtBarrier(r) == {t \in Task : arrived[t] = r + 1}
Round(r) ==
  /\ goal = 0 => \A t \in Task : arrived[t] = 0
  /\ now = Cardinality(AtBarrier(r))
  /\ \A t \in Task : /\ arrived[t] \in {r, r + 1} /\ passed[t] <= r
                     /\ arrived[t] = r + 1 => pc[t] \in {"blocked", "dead"}
                     /\ pc[t] = "blocked" => arrived[t] = r + 1

BarrierInv == QueueInv /\ (~raced => \E r \in 0..MaxRound : Round(r))

LEMMA InitBarrier == BarrierInit => BarrierInv
<1> SUFFICES ASSUME BarrierInit
             PROVE  BarrierInv
  OBVIOUS
<1>1. QueueInv
  <2>1. /\ block_queue \in Seq(Task) /\ IsInjective(block_queue)
        /\ Range(block_queue) = {}
    BY DEF BarrierInit, IsInjective, Range
  <2>2. 0 \in 0..NumTask /\ 0 \in 0..MaxRound /\ 0 \in 0..MaxKilled
    BY BarrierAssumption
  <2>3. BarrierTypeOK
    BY <2>1, <2>2 DEF BarrierInit, BarrierTypeOK
  <2> QED
    BY <2>1, <2>3 DEF BarrierInit, QueueInv
<1>2. Round(0)
  <2>1. AtBarrier(0) = {}
    BY DEF BarrierInit, AtBarrier
  <2>2. Cardinality(AtBarrier(0)) = 0
    BY <2>1, FS_EmptySet
  <2> QED
    BY <2>2 DEF BarrierInit, Round
<1> QED
  BY <1>1, <1>2, BarrierAssumption DEF BarrierInv

\* A step of a task outside of the barrier.
LEMMA OutsideStep ==
  ASSUME BarrierInv, NEW t \in Task, TestInit(t) \/ SetInit(t) \/ Return(t)
  PROVE  BarrierInv'
<1> USE DEF BarrierInv, QueueInv, BarrierTypeOK
<1>1. /\ UNCHANGED <<goal, now, block_queue, arrived, killed, raced>>
      /\ pc[t] \in {"start", "set", "ready"} /\ is_init' \in BOOLEAN
      /\ \E s \in {"set", "init", "wait"} : pc' = [pc EXCEPT ![t] = s]
      /\ pc[t] # "ready" => passed' = passed /\ arrived[t] = 0
      /\ pc[t] = "ready" => passed' = [passed EXCEPT ![t] = @ + 1] /\ pc'[t] = "wait"
  BY DEF TestInit, SetInit, Return
<1>2. pc' \in [Task -> {"start", "set", "init", "wait", "blocked", "ready", "dead"}]
      /\ pc'[t] \in {"set", "init", "wait"} /\ \A u \in Task \ {t} : pc'[u] = pc[u]
  BY <1>1
<1>3. passed' \in [Task -> 0..MaxRound] /\ (\A u \in Task \ {t} : passed'[u] = passed[u])
      /\ passed'[t] = IF pc[t] = "ready" THEN passed[t] + 1 ELSE passed[t]
  <2>1. CASE pc[t] = "ready"
    <3>1. passed[t] + 1 \in 0..MaxRound
      BY <2>1, BarrierAssumption
    <3> QED
      BY <1>1, <2>1, <3>1
  <2>2. CASE pc[t] # "ready"
    BY <1>1, <2>2
  <2> QED
    BY <2>1, <2>2
<1>4. QueueInv'
  BY <1>1, <1>2, <1>3
<1>5. ASSUME ~raced', NEW r \in 0..MaxRound, Round(r)
      PROVE  Round(r)'
  <2>1. AtBarrier(r)' = AtBarrier(r)
    BY <1>1 DEF AtBarrier
  <2> QED
    BY <1>1, <1>2, <1>3, <1>5, <2>1 DEF Round
<1> QED
  BY <1>1, <1>4, <1>5

\* do_barrier_init of a barrier that nobody has used.
LEMMA InitStep ==
  ASSUME BarrierInv, NEW t \in Task, do_barrier_init(t)
  PROVE  BarrierInv'
<1> USE DEF BarrierInv, QueueInv, BarrierTypeOK
<1>1. QueueInv'
  BY BarrierAssumption DEF do_barrier_init
<1>2. ASSUME ~raced'
      PROVE  \E r \in 0..MaxRound : Round(r)'
  <2>0. ~raced /\ \A u \in Task : ~(arrived[u] > 0)
    BY <1>2, Zenon DEF do_barrier_init
  <2>1. ~raced /\ \A u \in Task : arrived[u] = 0
    BY <2>0, BarrierAssumption
  <2>2. PICK r \in 0..MaxRound : Round(r)
    BY <2>1
  <2>3. r = 0
    BY <2>1, <2>2 DEF Round
  <2>4. AtBarrier(r)' = {}
    BY <2>1, <2>3 DEF AtBarrier, do_barrier_init
  <2>5. now' = Cardinality(AtBarrier(r)')
    BY <2>4, FS_EmptySet DEF do_barrier_init
  <2>6. Round(r)'
    BY <2>1, <2>2, <2>5 DEF Round, do_barrier_init
  <2> QED
    BY <2>6
<1> QED
  BY <1>1, <1>2

LEMMA KillTaskStep ==
  ASSUME BarrierInv, NEW t \in Task, KillTask(t)
  PROVE  BarrierInv'
<1> USE DEF BarrierInv, QueueInv, BarrierTypeOK
<1>1. /\ block_queue' \in Seq(Task) /\ IsInjective(block_queue')
      /\ Range(block_queue') = Range(block_queue) \ {t}
  <2>1. Range(block_queue) \subseteq Task
    BY DEF Range
  <2>2. PICK A : A = Task \ {t}
    OBVIOUS
  <2>3. /\ Keep(block_queue, A) \in Seq(Task) /\ IsInjective(Keep(block_queue, A))
        /\ Range(Keep(block_queue, A)) = Range(block_queue) \cap A
    BY KeepProperties
  <2> QED
    BY <2>1, <2>2, <2>3 DEF KillTask
<1>0. /\ killed < MaxKilled /\ killed' = killed + 1 /\ pc' = [pc EXCEPT ![t] = "dead"]
      /\ UNCHANGED <<goal, now, is_init, arrived, passed, raced>>
  BY DEF KillTask
<1>2. QueueInv'
  <2>1. /\ pc' \in [Task -> {"start", "set", "init", "wait", "blocked", "ready", "dead"}]
        /\ pc'[t] = "dead" /\ \A u \in Task \ {t} : pc'[u] = pc[u]
    BY <1>0
  <2>2. killed' \in 0..MaxKilled
    BY <1>0, BarrierAssumption
  <2>3. BarrierTypeOK'
    BY <1>0, <1>1, <2>1, <2>2
  <2>4. \A u \in Task : u \in Range(block_queue') <=> pc'[u] = "blocked"
    BY <1>1, <2>1
  <2>5. \A u \in Task :
          /\ passed'[u] <= arrived'[u]
          /\ pc'[u] \in {"blocked", "ready"} => passed'[u] < arrived'[u]
          /\ pc'[u] \in {"start", "set", "init"} => arrived'[u] = 0
    BY <1>0, <2>1
  <2> QED
    BY <1>1, <2>3, <2>4, <2>5
<1>3. ASSUME NEW r \in 0..MaxRound, Round(r)
      PROVE  Round(r)'
  <2>1. AtBarrier(r)' = AtBarrier(r)
    BY DEF AtBarrier, KillTask
  <2> QED
    BY <1>3, <2>1 DEF Round, KillTask
<1> QED
  BY <1>2, <1>3 DEF KillTask

LEMMA WaitStep ==
  ASSUME BarrierInv, NEW t \in Task, do_barrier_wait(t)
  PROVE  BarrierInv'
<1> USE DEF BarrierInv, QueueInv, BarrierTypeOK
<1>0. /\ pc[t] = "wait" /\ arrived[t] < MaxRound
      /\ arrived' = [arrived EXCEPT ![t] = @ + 1]
      /\ raced' = (raced \/ goal = 0)
      /\ UNCHANGED <<goal, is_init, killed>>
  BY DEF do_barrier_wait
<1>1. /\ arrived' \in [Task -> 0..MaxRound] /\ arrived'[t] = arrived[t] + 1
      /\ \A u \in Task \ {t} : arrived'[u] = arrived[u]
  BY <1>0, BarrierAssumption
<1>2. ASSUME ~raced', NEW r \in 0..MaxRound, Round(r)
      PROVE  /\ arrived[t] = r /\ goal = NumTask /\ t \notin AtBarrier(r)
             /\ AtBarrier(r)' = AtBarrier(r) \cup {t}
             /\ IsFiniteSet(AtBarrier(r)')
             /\ Cardinality(AtBarrier(r)') = now + 1
  <2>1. arrived[t] = r /\ goal = NumTask
    BY <1>0, <1>2 DEF Round
  <2>2. AtBarrier(r)' = AtBarrier(r) \cup {t} /\ t \notin AtBarrier(r)
    BY <1>1, <2>1 DEF AtBarrier
  <2>3. IsFiniteSet(AtBarrier(r))
    BY FS_Subset, BarrierAssumption DEF AtBarrier
  <2>4. now = Cardinality(AtBarrier(r))
    BY <1>2 DEF Round
  <2>5. PICK W : W = AtBarrier(r)
    OBVIOUS
  <2>6. IsFiniteSet(W \cup {t}) /\ Cardinality(W \cup {t}) = Cardinality(W) + 1
    BY <2>2, <2>3, <2>5, FS_AddElement
  <2> QED
    BY <2>1, <2>2, <2>4, <2>5, <2>6
<1>3. CASE now + 1 < goal
  <2>1. /\ now' = now + 1 /\ block_queue' = Append(block_queue, t)
        /\ pc' = [pc EXCEPT ![t] = "blocked"] /\ passed' = passed
    BY <1>3 DEF do_barrier_wait
  <2>2. /\ block_queue' \in Seq(Task) /\ IsInjective(block_queue')
        /\ Range(block_queue') = Range(block_queue) \cup {t}
    BY <1>0, <2>1, AppendQueue
  <2>3. QueueInv'
    <3>1. BarrierTypeOK'
      BY <1>0, <1>1, <1>3, <2>1, <2>2, BarrierAssumption
    <3> QED
      BY <1>0, <1>1, <2>1, <2>2, <3>1
  <2>4. ASSUME ~raced', NEW r \in 0..MaxRound, Round(r)
        PROVE  Round(r)'
    BY <1>0, <1>1, <1>2, <2>1, <2>4, BarrierAssumption DEF Round
  <2> QED
    BY <1>0, <2>3, <2>4
<1>4. CASE ~(now + 1 < goal)
  <2>1. /\ now' = 0 /\ block_queue' = <<>>
        /\ pc' = [u \in Task |-> IF u \in Range(block_queue) THEN "ready" ELSE pc[u]]
        /\ passed' = [passed EXCEPT ![t] = @ + 1]
    BY <1>4 DEF do_barrier_wait
  <2>2. /\ block_queue' \in Seq(Task) /\ IsInjective(block_queue') /\ Range(block_queue') = {}
    BY <2>1 DEF IsInjective, Range
  <2>3. /\ passed' \in [Task -> 0..MaxRound] /\ passed'[t] = passed[t] + 1
        /\ \A u \in Task \ {t} : passed'[u] = passed[u]
    BY <1>0, <2>1, BarrierAssumption
  <2>4. \A u \in Task : pc'[u] = IF pc[u] = "blocked" THEN "ready" ELSE pc[u]
    BY <2>1
  <2>5. pc' \in [Task -> {"start", "set", "init", "wait", "blocked", "ready", "dead"}]
    BY <2>1
  <2>6. QueueInv'
    <3>1. BarrierTypeOK'
      BY <1>0, <1>1, <2>1, <2>2, <2>3, <2>5, BarrierAssumption
    <3>2. \A u \in Task : u \in Range(block_queue') <=> pc'[u] = "blocked"
      BY <2>2, <2>4
    <3>3. \A u \in Task :
            /\ passed'[u] <= arrived'[u]
            /\ pc'[u] \in {"blocked", "ready"} => passed'[u] < arrived'[u]
            /\ pc'[u] \in {"start", "set", "init"} => arrived'[u] = 0
      BY <1>0, <1>1, <2>3, <2>4
    <3> QED
      BY <2>2, <3>1, <3>2, <3>3
  <2>7. ASSUME ~raced', NEW r \in 0..MaxRound, Round(r)
        PROVE  r + 1 \in 0..MaxRound /\ Round(r + 1)'
    <3>1. /\ arrived[t] = r /\ goal = NumTask /\ IsFiniteSet(AtBarrier(r)')
          /\ Cardinality(AtBarrier(r)') = now + 1
      BY <1>2, <2>7
    <3>2. AtBarrier(r)' = Task
      <4>1. AtBarrier(r)' \in SUBSET Task
        BY DEF AtBarrier
      <4>2. Cardinality(AtBarrier(r)') <= NumTask /\ now + 1 >= NumTask
        BY <1>4, <3>1, <4>1, FS_Subset, BarrierAssumption
      <4>3. Cardinality(AtBarrier(r)') = Cardinality(Task)
        BY <3>1, <4>2, BarrierAssumption
      <4> QED
        BY <4>1, <4>3, FS_Subset, BarrierAssumption
    <3>3. \A u \in Task : arrived'[u] = r + 1
      BY <3>2 DEF AtBarrier
    <3>4. AtBarrier(r + 1)' = {}
      BY <3>3 DEF AtBarrier
    <3>5. now' = Cardinality(AtBarrier(r + 1)')
      BY <2>1, <3>4, FS_EmptySet
    <3>6. ASSUME NEW u \in Task
          PROVE  passed'[u] <= r + 1
      <4>1. passed[u] <= r /\ passed[u] \in 0..MaxRound /\ r \in Int
        BY <2>7 DEF Round
      <4>2. passed'[u] = passed[u] + 1 \/ passed'[u] = passed[u]
        BY <2>3
      <4> QED
        BY <4>1, <4>2
    <3>7. r + 1 \in 0..MaxRound
      BY <1>0, <3>1, BarrierAssumption
    <3>8. \A u \in Task : pc'[u] # "blocked"
      BY <2>4
    <3>9. goal' # 0
      BY <1>0, <3>1, BarrierAssumption
    <3> QED
      BY <3>3, <3>5, <3>6, <3>7, <3>8, <3>9 DEF Round
  <2> QED
    BY <1>0, <2>6, <2>7
<1> QED
  BY <1>3, <1>4

LEMMA NextBarrier == BarrierInv /\ [BarrierNext]_barrierVars => BarrierInv'
<1> SUFFICES ASSUME BarrierInv, [BarrierNext]_barrierVars
             PROVE  BarrierInv'
  OBVIOUS
<1>1. CASE UNCHANGED barrierVars
  BY <1>1 DEF barrierVars, BarrierInv, QueueInv, BarrierTypeOK, Round, AtBarrier
<1> QED
  BY <1>1, OutsideStep, InitStep, WaitStep, KillTaskStep DEF BarrierNext, Step

\* Nobody leaves the barrier for the r-th time before everybody has arrived r times,
\* whoever is killed, unless do_barrier_init ran after the first arrival or an arrival
\* came before it.
THEOREM BarrierNoEarlyPass == BarrierSpec => []NoEarlyPass
<1>1. BarrierInv => NoEarlyPass
  <2> SUFFICES ASSUME BarrierInv
               PROVE  NoEarlyPass
    OBVIOUS
  <2>1. BarrierTypeOK
    BY DEF BarrierInv, QueueInv
  <2>2. ASSUME ~raced, NEW t \in Task, NEW u \in Task
        PROVE  passed[t] <= arrived[u]
    BY <2>1, <2>2 DEF BarrierInv, Round, BarrierTypeOK
  <2> QED
    BY <2>1, <2>2 DEF NoEarlyPass
<1> QED
  BY <1>1, InitBarrier, NextBarrier, PTL DEF BarrierSpec
-----------------------------------------------------------------------------

Memories == [head : [Queue -> Ptr], tail : [Queue -> Ptr],
             next : [Item -> Ptr], prev : [Item -> Ptr]]

\* The ends of q and the links of its members, in memory m, are those of sequence s.
Links(m, q, s) ==
  /\ m.head[q] = IF Len(s) = 0 THEN NULL ELSE s[1]
  /\ m.tail[q] = IF Len(s) = 0 THEN NULL ELSE s[Len(s)]
  /\ \A i \in 1..Len(s) : /\ m.next[s[i]] = IF i = Len(s) THEN NULL ELSE s[i + 1]
                          /\ m.prev[s[i]] = IF i = 1 THEN NULL ELSE s[i - 1]

Lists(l) ==
  /\ l \in [Queue -> Seq(Item)]
  /\ \A q \in Queue : IsInjective(l[q])
  /\ \A q, r \in Queue : q # r => Range(l[q]) \cap Range(l[r]) = {}

Represents(m, l) == m \in Memories /\ Lists(l) /\ \A q \in Queue : Links(m, q, l[q])

LEMMA SeqFacts ==
  ASSUME NEW s \in Seq(Item)
  PROVE  /\ Len(s) \in Nat /\ DOMAIN s = 1..Len(s)
         /\ \A i \in 1..Len(s) : s[i] \in Item /\ s[i] \in Range(s) /\ s[i] # NULL
         /\ IsInjective(s) => \A i, j \in 1..Len(s) : s[i] = s[j] => i = j
<1>1. Len(s) \in Nat /\ DOMAIN s = 1..Len(s)
  BY LenProperties
<1>2. \A i \in 1..Len(s) : s[i] \in Item
  BY <1>1, ElementOfSeq
<1> QED
  BY <1>1, <1>2, NullAssumption DEF Range, IsInjective

\* A queue whose ends and members' links stay is not affected.
LEMMA LinksKept ==
  ASSUME NEW m, NEW u, NEW q, NEW s, Links(m, q, s),
         u.head[q] = m.head[q], u.tail[q] = m.tail[q],
         \A i \in 1..Len(s) : u.next[s[i]] = m.next[s[i]] /\ u.prev[s[i]] = m.prev[s[i]]
  PROVE  Links(u, q, s)
  BY DEF Links

\* Two sets of lists that differ in queue q only.
LEMMA ListsChanged ==
  ASSUME NEW l, Lists(l), NEW q \in Queue, NEW t \in Seq(Item), IsInjective(t),
         \A r \in Queue : r # q => Range(t) \cap Range(l[r]) = {}
  PROVE  Lists([l EXCEPT ![q] = t])
<1> DEFINE k == [l EXCEPT ![q] = t]
<1>1. k \in [Queue -> Seq(Item)] /\ k[q] = t /\ \A r \in Queue : r # q => k[r] = l[r]
  BY DEF Lists
<1> HIDE DEF k
<1>2. ASSUME NEW r \in Queue
      PROVE  IsInjective(k[r])
  BY <1>1 DEF Lists
<1>3. ASSUME NEW r \in Queue, NEW p \in Queue, r # p
      PROVE  Range(k[r]) \cap Range(k[p]) = {}
  <2>1. CASE r # q /\ p # q
    BY <1>1, <1>3, <2>1 DEF Lists
  <2>2. CASE r = q
    BY <1>1, <1>3, <2>2
  <2>3. CASE p = q
    BY <1>1, <1>3, <2>3
  <2> QED
    BY <2>1, <2>2, <2>3
<1>4. Lists(k)
  BY <1>1, <1>2, <1>3 DEF Lists
<1> QED
  BY <1>4 DEF k

LEMMA PushRepresents ==
  ASSUME NEW m, NEW l, Represents(m, l), NEW q \in Queue, NEW x \in Item,
         \A r \in Queue : x \notin Range(l[r])
  PROVE  Represents(queue_push(m, q, x), [l EXCEPT ![q] = Append(l[q], x)])
<1> DEFINE s == l[q]
           n == Len(s)
           t == Append(s, x)
           u == queue_push(m, q, x)
           k == [l EXCEPT ![q] = t]
<1>0. /\ m \in Memories /\ l \in [Queue -> Seq(Item)] /\ s \in Seq(Item) /\ IsInjective(s)
      /\ Links(m, q, s) /\ x \notin Range(s)
  BY DEF Represents, Lists
<1>1. /\ n \in Nat /\ (\A i \in 1..n : s[i] \in Item /\ s[i] \in Range(s) /\ s[i] # NULL)
      /\ \A i, j \in 1..n : s[i] = s[j] => i = j
  BY <1>0, SeqFacts
<1>2. /\ t \in Seq(Item) /\ Len(t) = n + 1 /\ (\A i \in 1..n : t[i] = s[i])
      /\ t[n + 1] = x
  BY <1>0, AppendProperties
<1>3. IsInjective(t) /\ Range(t) = Range(s) \cup {x}
  BY <1>0, AppendQueue
<1>4. Lists(k)
  <2>1. \A r \in Queue : r # q => Range(t) \cap Range(l[r]) = {}
    BY <1>3 DEF Represents, Lists
  <2> QED
    BY <1>2, <1>3, <2>1, ListsChanged DEF Represents
<1>5. m.head[q] = NULL <=> n = 0
  BY <1>0, <1>1 DEF Links
<1>6. n # 0 => m.tail[q] = s[n]
  BY <1>0 DEF Links
<1>7. u \in Memories
  <2>1. CASE n = 0
    BY <1>0, <1>5, <2>1 DEF queue_push, Memories, Ptr
  <2>2. CASE n # 0
    BY <1>0, <1>5, <2>2 DEF queue_push, Memories, Ptr
  <2> QED
    BY <2>1, <2>2
<1> HIDE DEF s, n, t
<1>8. Links(u, q, t)
  <2>1. CASE n = 0
    <3>1. /\ u.head[q] = x /\ u.tail[q] = x /\ u.next[x] = NULL /\ u.prev[x] = NULL
      BY <1>0, <1>5, <2>1 DEF queue_push, Memories
    <3> QED
      BY <1>2, <2>1, <3>1 DEF Links
  <2>2. CASE n # 0
    <3>0. n \in 1..n /\ x # s[n] /\ s[n] \in Item
      BY <1>0, <1>1, <2>2
    <3>1. /\ u.head[q] = m.head[q] /\ u.tail[q] = x
          /\ u.next[x] = NULL /\ u.prev[x] = s[n] /\ u.next[s[n]] = x
          /\ \A y \in Item : y # x /\ y # s[n] => u.next[y] = m.next[y]
          /\ \A y \in Item : y # x => u.prev[y] = m.prev[y]
      BY <1>0, <1>5, <1>6, <2>2, <3>0 DEF queue_push, Memories
    <3>2. u.head[q] = t[1] /\ u.tail[q] = t[n + 1]
      BY <1>0, <1>1, <1>2, <2>2, <3>1 DEF Links, n
    <3>3. ASSUME NEW i \in 1..(n + 1)
          PROVE  /\ u.next[t[i]] = IF i = n + 1 THEN NULL ELSE t[i + 1]
                 /\ u.prev[t[i]] = IF i = 1 THEN NULL ELSE t[i - 1]
      <4>1. CASE i = n + 1
        BY <1>1, <1>2, <2>2, <3>0, <3>1, <4>1
      <4>2. CASE i # n + 1
        <5>1. i \in 1..n /\ t[i] = s[i] /\ s[i] \in Item /\ s[i] # x
          BY <1>0, <1>1, <1>2, <4>2
        <5>2. /\ m.next[s[i]] = IF i = n THEN NULL ELSE s[i + 1]
              /\ m.prev[s[i]] = IF i = 1 THEN NULL ELSE s[i - 1]
          BY <1>0, <5>1 DEF Links, n
        <5>3. i # n => s[i] # s[n] /\ i + 1 \in 1..n
          BY <1>1, <3>0, <5>1
        <5>4. i # 1 => i - 1 \in 1..n
          BY <1>1, <5>1
        <5> QED
          BY <1>2, <3>1, <5>1, <5>2, <5>3, <5>4
      <4> QED
        BY <4>1, <4>2
    <3> QED
      BY <1>1, <1>2, <3>2, <3>3 DEF Links
  <2> QED
    BY <2>1, <2>2
<1>9. ASSUME NEW r \in Queue, r # q
      PROVE  Links(u, r, l[r])
  <2>0. Links(m, r, l[r]) /\ l[r] \in Seq(Item) /\ Range(l[r]) \cap Range(s) = {}
    BY <1>9 DEF Represents, Lists, s
  <2>1. \A i \in 1..Len(l[r]) : l[r][i] \in Item /\ l[r][i] \in Range(l[r])
    BY <2>0, SeqFacts
  <2>2. \A y \in Range(l[r]) : y # x /\ (n # 0 => y # s[n])
    BY <1>1, <2>0
  <2>3. /\ u.head[r] = m.head[r] /\ u.tail[r] = m.tail[r]
        /\ \A y \in Item : y # x /\ (n # 0 => y # s[n])
                           => u.next[y] = m.next[y] /\ u.prev[y] = m.prev[y]
    <3>1. CASE n = 0
      BY <1>0, <1>5, <1>9, <3>1 DEF queue_push, Memories
    <3>2. CASE n # 0
      BY <1>0, <1>5, <1>6, <1>9, <3>2 DEF queue_push, Memories
    <3> QED
      BY <3>1, <3>2
  <2> QED
    BY <2>0, <2>1, <2>2, <2>3, LinksKept
<1>10. Represents(u, k)
  <2>1. \A r \in Queue : k[r] = IF r = q THEN t ELSE l[r]
    BY <1>0
  <2> QED
    BY <1>4, <1>7, <1>8, <1>9, <2>1 DEF Represents
<1> QED
  BY <1>10 DEF s, t

\* What queue_remove returns.
LEMMA LinkOfMember ==
  ASSUME NEW m, NEW q, NEW s \in Seq(Item), IsInjective(s), Links(m, q, s), NEW x \in Range(s)
  PROVE  m.next[x] = IF Pos(s, x) = Len(s) THEN NULL ELSE s[Pos(s, x) + 1]
<1>1. Pos(s, x) \in 1..Len(s) /\ s[Pos(s, x)] = x
  BY WithoutProperties
<1> QED
  BY <1>1 DEF Links

LEMMA RemoveRepresents ==
  ASSUME NEW m, NEW l, Represents(m, l), NEW q \in Queue, NEW x \in Range(l[q])
  PROVE  Represents(queue_remove(m, q, x), [l EXCEPT ![q] = Without(l[q], x)])
<1> DEFINE s == l[q]
           n == Len(s)
           h == Pos(s, x)
           t == Without(s, x)
           u == queue_remove(m, q, x)
           k == [l EXCEPT ![q] = t]
<1>0. /\ m \in Memories /\ l \in [Queue -> Seq(Item)] /\ s \in Seq(Item) /\ IsInjective(s)
      /\ Links(m, q, s) /\ x \in Range(s)
  BY DEF Represents, Lists
<1>1. /\ n \in Nat /\ (\A i \in 1..n : s[i] \in Item /\ s[i] \in Range(s) /\ s[i] # NULL)
      /\ \A i, j \in 1..n : s[i] = s[j] => i = j
  BY <1>0, SeqFacts
<1>2. /\ h \in 1..n /\ s[h] = x
      /\ t \in Seq(Item) /\ Len(t) = n - 1 /\ Range(t) = Range(s) \ {x} /\ IsInjective(t)
  BY <1>0, WithoutProperties
<1>3. \A j \in 1..(n - 1) : t[j] = IF j < h THEN s[j] ELSE s[j + 1]
  BY DEF Without
<1>4. Lists(k)
  <2>1. \A r \in Queue : r # q => Range(t) \cap Range(l[r]) = {}
    BY <1>2 DEF Represents, Lists
  <2> QED
    BY <1>2, <2>1, ListsChanged DEF Represents
<1> HIDE DEF s, n, t, h
<1>5. /\ x \in Item /\ x # NULL
      /\ x = m.head[q] <=> h = 1
      /\ x = m.tail[q] <=> h = n
      /\ m.next[x] = IF h = n THEN NULL ELSE s[h + 1]
      /\ m.prev[x] = IF h = 1 THEN NULL ELSE s[h - 1]
  <2>1. m.head[q] = s[1] /\ m.tail[q] = s[n]
    BY <1>0, <1>1, <1>2 DEF Links, n
  <2>2. 1 \in 1..n /\ n \in 1..n
    BY <1>1, <1>2
  <2> QED
    BY <1>0, <1>1, <1>2, <2>1, <2>2 DEF Links, n
<1>6. /\ h # n => h + 1 \in 1..n /\ s[h + 1] \in Item /\ s[h + 1] # x
      /\ h # 1 => h - 1 \in 1..n /\ s[h - 1] \in Item /\ s[h - 1] # x
      /\ h # 1 /\ h # n => s[h - 1] # s[h + 1]
  BY <1>1, <1>2
\* What the routine does, by the place of x.
<1>7. /\ u.head = IF h = 1 THEN [m.head EXCEPT ![q] = IF h = n THEN NULL ELSE s[h + 1]]
                  ELSE m.head
      /\ u.tail = IF h = n THEN [m.tail EXCEPT ![q] = IF h = 1 THEN NULL ELSE s[h - 1]]
                  ELSE m.tail
      /\ u.next = IF h = 1 THEN [m.next EXCEPT ![x] = NULL]
                  ELSE [m.next EXCEPT ![s[h - 1]] = IF h = n THEN NULL ELSE s[h + 1],
                                      ![x] = NULL]
      /\ u.prev = IF h = n THEN [m.prev EXCEPT ![x] = NULL]
                  ELSE [m.prev EXCEPT ![s[h + 1]] = IF h = 1 THEN NULL ELSE s[h - 1],
                                      ![x] = NULL]
      /\ u = [head |-> u.head, tail |-> u.tail, next |-> u.next, prev |-> u.prev]
  <2>1. CASE h = 1 /\ h = n
    BY <1>5, <2>1 DEF queue_remove
  <2>2. CASE h = 1 /\ h # n
    BY <1>5, <2>2 DEF queue_remove
  <2>3. CASE h # 1 /\ h = n
    BY <1>5, <2>3 DEF queue_remove
  <2>4. CASE h # 1 /\ h # n
    BY <1>5, <2>4 DEF queue_remove
  <2> QED
    BY <2>1, <2>2, <2>3, <2>4
<1> HIDE DEF u
<1>8. /\ u.head \in [Queue -> Ptr] /\ u.tail \in [Queue -> Ptr]
      /\ u.next \in [Item -> Ptr] /\ u.prev \in [Item -> Ptr]
  <2>0. /\ m.head \in [Queue -> Ptr] /\ m.tail \in [Queue -> Ptr]
        /\ m.next \in [Item -> Ptr] /\ m.prev \in [Item -> Ptr]
    BY <1>0 DEF Memories
  <2>1. CASE h = 1
    BY <1>5, <1>6, <1>7, <2>0, <2>1 DEF Ptr
  <2>2. CASE h # 1
    BY <1>5, <1>6, <1>7, <2>0, <2>2 DEF Ptr
  <2> QED
    BY <2>1, <2>2
<1>9. u \in Memories
  BY <1>7, <1>8 DEF Memories
<1>10. /\ u.head[q] = IF h = 1 THEN (IF h = n THEN NULL ELSE s[h + 1]) ELSE m.head[q]
       /\ u.tail[q] = IF h = n THEN (IF h = 1 THEN NULL ELSE s[h - 1]) ELSE m.tail[q]
       /\ \A r \in Queue : r # q => u.head[r] = m.head[r] /\ u.tail[r] = m.tail[r]
       /\ \A y \in Item : y # x /\ (h # 1 => y # s[h - 1]) => u.next[y] = m.next[y]
       /\ \A y \in Item : y # x /\ (h # n => y # s[h + 1]) => u.prev[y] = m.prev[y]
       /\ h # 1 => u.next[s[h - 1]] = IF h = n THEN NULL ELSE s[h + 1]
       /\ h # n => u.prev[s[h + 1]] = IF h = 1 THEN NULL ELSE s[h - 1]
  <2>0. /\ m.head \in [Queue -> Ptr] /\ m.tail \in [Queue -> Ptr]
        /\ m.next \in [Item -> Ptr] /\ m.prev \in [Item -> Ptr]
    BY <1>0 DEF Memories
  <2>1. /\ u.head[q] = IF h = 1 THEN (IF h = n THEN NULL ELSE s[h + 1]) ELSE m.head[q]
        /\ u.tail[q] = IF h = n THEN (IF h = 1 THEN NULL ELSE s[h - 1]) ELSE m.tail[q]
        /\ \A r \in Queue : r # q => u.head[r] = m.head[r] /\ u.tail[r] = m.tail[r]
    BY <1>7, <2>0
  <2>2. /\ \A y \in Item : y # x /\ (h # 1 => y # s[h - 1]) => u.next[y] = m.next[y]
        /\ h # 1 => u.next[s[h - 1]] = IF h = n THEN NULL ELSE s[h + 1]
    BY <1>6, <1>7, <2>0
  <2>3. /\ \A y \in Item : y # x /\ (h # n => y # s[h + 1]) => u.prev[y] = m.prev[y]
        /\ h # n => u.prev[s[h + 1]] = IF h = 1 THEN NULL ELSE s[h - 1]
    BY <1>6, <1>7, <2>0
  <2> QED
    BY <2>1, <2>2, <2>3
<1>11. Links(u, q, t)
  <2>1. u.head[q] = IF n - 1 = 0 THEN NULL ELSE t[1]
    <3>1. m.head[q] = s[1]
      BY <1>0, <1>1, <1>2 DEF Links, n
    <3> QED
      BY <1>1, <1>2, <1>3, <1>10, <3>1
  <2>2. u.tail[q] = IF n - 1 = 0 THEN NULL ELSE t[n - 1]
    <3>1. m.tail[q] = s[n]
      BY <1>0, <1>1, <1>2 DEF Links, n
    <3> QED
      BY <1>1, <1>2, <1>3, <1>10, <3>1
  <2>3. ASSUME NEW j \in 1..(n - 1)
        PROVE  u.next[t[j]] = IF j = n - 1 THEN NULL ELSE t[j + 1]
    <3>1. CASE j < h
      <4>1. j \in 1..n /\ t[j] = s[j] /\ s[j] \in Item /\ s[j] # x
        BY <1>1, <1>2, <1>3, <3>1
      <4>2. m.next[s[j]] = IF j = n THEN NULL ELSE s[j + 1]
        BY <1>0, <4>1 DEF Links, n
      <4>3. CASE j = h - 1
        <5>1. h # 1 /\ (h = n <=> j = n - 1) /\ (h # n => t[j + 1] = s[h + 1])
          BY <1>1, <1>2, <1>3, <4>3
        <5> QED
          BY <1>10, <4>1, <4>3, <5>1
      <4>4. CASE j # h - 1
        <5>0. j + 1 < h /\ j # n - 1 /\ j # n /\ j + 1 \in 1..(n - 1)
          BY <1>1, <1>2, <3>1, <4>4
        <5>1. j + 1 < h /\ j # n - 1 /\ j # n /\ t[j + 1] = s[j + 1]
          BY <1>3, <5>0
        <5>2. h # 1 => s[j] # s[h - 1]
          BY <1>1, <1>6, <4>1, <4>4
        <5> QED
          BY <1>10, <4>1, <4>2, <5>1, <5>2
      <4> QED
        BY <4>3, <4>4
    <3>2. CASE ~(j < h)
      <4>1. j + 1 \in 1..n /\ t[j] = s[j + 1] /\ s[j + 1] \in Item /\ s[j + 1] # x
        BY <1>1, <1>2, <1>3, <3>2
      <4>2. m.next[s[j + 1]] = IF j + 1 = n THEN NULL ELSE s[(j + 1) + 1]
        BY <1>0, <4>1 DEF Links, n
      <4>3. h # 1 => s[j + 1] # s[h - 1]
        BY <1>1, <1>2, <1>6, <3>2, <4>1
      <4>4. j # n - 1 => t[j + 1] = s[(j + 1) + 1]
        <5>1. j # n - 1 => j + 1 \in 1..(n - 1) /\ ~(j + 1 < h)
          BY <1>1, <1>2, <3>2
        <5> QED
          BY <1>3, <5>1
      <4>5. j + 1 = n <=> j = n - 1
        BY <1>1
      <4> QED
        BY <1>10, <4>1, <4>2, <4>3, <4>4, <4>5
    <3> QED
      BY <3>1, <3>2
  <2>4. ASSUME NEW j \in 1..(n - 1)
        PROVE  u.prev[t[j]] = IF j = 1 THEN NULL ELSE t[j - 1]
    <3>1. CASE j < h
      <4>1. j \in 1..n /\ t[j] = s[j] /\ s[j] \in Item /\ s[j] # x
        BY <1>1, <1>2, <1>3, <3>1
      <4>2. m.prev[s[j]] = IF j = 1 THEN NULL ELSE s[j - 1]
        BY <1>0, <4>1 DEF Links, n
      <4>3. h # n => s[j] # s[h + 1]
        BY <1>1, <1>2, <1>6, <3>1, <4>1
      <4>4. j # 1 => t[j - 1] = s[j - 1]
        BY <1>1, <1>2, <1>3, <3>1
      <4> QED
        BY <1>10, <4>1, <4>2, <4>3, <4>4
    <3>2. CASE j = h
      <4>0. h # n /\ ~(j < h) /\ (j # 1 => j - 1 \in 1..(n - 1) /\ j - 1 < h)
        BY <1>1, <1>2, <3>2
      <4>1. h # n /\ t[j] = s[h + 1] /\ (j # 1 => t[j - 1] = s[h - 1])
        BY <1>3, <3>2, <4>0
      <4> QED
        BY <1>10, <3>2, <4>1
    <3>3. CASE j > h
      <4>1. j + 1 \in 1..n /\ t[j] = s[j + 1] /\ s[j + 1] \in Item /\ s[j + 1] # x /\ j # 1
        BY <1>1, <1>2, <1>3, <3>3
      <4>2. m.prev[s[j + 1]] = s[j]
        <5>1. j + 1 # 1 /\ (j + 1) - 1 = j
          OBVIOUS
        <5> QED
          BY <1>0, <4>1, <5>1 DEF Links, n
      <4>3. h # n => s[j + 1] # s[h + 1]
        <5>1. h # n => j + 1 # h + 1 /\ h + 1 \in 1..n
          BY <1>1, <1>2, <3>3
        <5> QED
          BY <1>1, <4>1, <5>1
      <4>4. t[j - 1] = s[j]
        BY <1>1, <1>2, <1>3, <3>3
      <4> QED
        BY <1>10, <4>1, <4>2, <4>3, <4>4
    <3> QED
      BY <1>1, <1>2, <3>1, <3>2, <3>3
  <2> QED
    BY <1>2, <2>1, <2>2, <2>3, <2>4 DEF Links
<1>12. ASSUME NEW r \in Queue, r # q
       PROVE  Links(u, r, l[r])
  <2>0. Links(m, r, l[r]) /\ l[r] \in Seq(Item) /\ Range(l[r]) \cap Range(s) = {}
    BY <1>12 DEF Represents, Lists, s
  <2>1. \A i \in 1..Len(l[r]) : l[r][i] \in Item /\ l[r][i] \in Range(l[r])
    BY <2>0, SeqFacts
  <2>2. \A y \in Range(l[r]) : y # x /\ (h # 1 => y # s[h - 1]) /\ (h # n => y # s[h + 1])
    BY <1>0, <1>1, <1>6, <2>0
  <2> QED
    BY <1>10, <1>12, <2>0, <2>1, <2>2, LinksKept
<1>13. Represents(u, k)
  <2>1. \A r \in Queue : k[r] = IF r = q THEN t ELSE l[r]
    BY <1>0
  <2> QED
    BY <1>4, <1>9, <1>11, <1>12, <2>1 DEF Represents
<1> QED
  BY <1>13 DEF s, t, u

\* queue_dequeue does to the first member what queue_remove does to any.
LEMMA DequeueRepresents ==
  ASSUME NEW m, NEW l, Represents(m, l), NEW q \in Queue, l[q] # <<>>
  PROVE  /\ Represents(queue_dequeue(m, q), [l EXCEPT ![q] = Tail(l[q])])
         /\ m.head[q] = Head(l[q])
<1> DEFINE s == l[q]
           x == m.head[q]
<1>0. /\ m \in Memories /\ s \in Seq(Item) /\ IsInjective(s) /\ Links(m, q, s)
  BY DEF Represents, Lists
<1>1. /\ Len(s) \in Nat /\ Len(s) # 0
      /\ (\A i \in 1..Len(s) : s[i] \in Item /\ s[i] \in Range(s) /\ s[i] # NULL)
      /\ \A i, j \in 1..Len(s) : s[i] = s[j] => i = j
  BY <1>0, SeqFacts, EmptySeq
<1>2. /\ Head(s) = s[1] /\ Tail(s) \in Seq(Item) /\ Len(Tail(s)) = Len(s) - 1
      /\ \A i \in 1..(Len(s) - 1) : Tail(s)[i] = s[i + 1]
  BY <1>0, HeadTailProperties
<1>3. x = s[1] /\ x \in Range(s) /\ x \in Item
  BY <1>0, <1>1 DEF Links
<1> HIDE DEF s, x
<1>4. Pos(s, x) \in 1..Len(s) /\ s[Pos(s, x)] = x
  BY <1>0, <1>3, WithoutProperties
<1>5. Pos(s, x) = 1
  BY <1>1, <1>3, <1>4
<1>6. Tail(s) = Without(s, x)
  <2>1. Tail(s) = [i \in 1..(Len(s) - 1) |-> s[i + 1]]
    <3>1. Tail(s) \in [1..(Len(s) - 1) -> Item]
      BY <1>2, LenProperties
    <3> QED
      BY <1>2, <3>1
  <2>2. Without(s, x) = [i \in 1..(Len(s) - 1) |-> s[i + 1]]
    BY <1>5 DEF Without
  <2> QED
    BY <2>1, <2>2
<1>7. queue_dequeue(m, q) = queue_remove(m, q, x)
  <2>1. m.next[x] = NULL <=> x = m.tail[q]
    <3>0. 1 \in 1..Len(s) /\ Len(s) \in 1..Len(s) /\ (1 # Len(s) => 1 + 1 \in 1..Len(s))
      <4>1. PICK n \in Nat : n = Len(s) /\ n # 0
        BY <1>1
      <4>2. 1 \in 1..n /\ n \in 1..n /\ (1 # n => 1 + 1 \in 1..n)
        BY <4>1
      <4> QED
        BY <4>1, <4>2
    <3>1. m.tail[q] = s[Len(s)]
      BY <1>0, <1>1, <3>0 DEF Links
    <3>2. m.next[s[1]] = IF 1 = Len(s) THEN NULL ELSE s[1 + 1]
      BY <1>0, <3>0 DEF Links
    <3> QED
      BY <1>1, <1>3, <3>0, <3>1, <3>2
  <2>2. CASE x = m.tail[q]
    BY <2>1, <2>2 DEF queue_dequeue, queue_remove, x
  <2>3. CASE x # m.tail[q]
    BY <2>1, <2>3 DEF queue_dequeue, queue_remove, x
  <2> QED
    BY <2>2, <2>3
<1>8. Represents(queue_remove(m, q, x), [l EXCEPT ![q] = Without(s, x)])
  BY <1>3, RemoveRepresents DEF s
<1> QED
  BY <1>2, <1>3, <1>6, <1>7, <1>8 DEF s, x
-----------------------------------------------------------------------------
(***************************************************************************)
(* The walk.  After k - 1 items the queue consists of those it has passed  *)
(* and left, and of those it has not reached.                              *)
(***************************************************************************)
Passed(w, k) == SubSeq(w.from, 1, k - 1)
Ahead(w, k)  == SubSeq(w.from, k, Len(w.from))

WalkAt(l, w, k) ==
  /\ w.q # w.r
  /\ w.item = IF k > Len(w.from) THEN NULL ELSE w.from[k]
  /\ l[w.q] = Keep(Passed(w, k), Item \ w.A) \o Ahead(w, k)
  /\ l[w.r] = w.to \o Keep(Passed(w, k), w.A)

Walks(l, w) == \E k \in 1..(Len(w.from) + 1) : WalkAt(l, w, k)

PcbInv == Representation /\ (scan # NoScan => Walks(list, scan))

\* Representation in terms of the memory.
LEMMA RepresentationMemory ==
  Representation <=> /\ Represents(Memory, list)
                     /\ ret \in Ptr \cup BOOLEAN /\ scan \in ScanState \cup {NoScan}
<1>1. Memory \in Memories <=> /\ head \in [Queue -> Ptr] /\ tail \in [Queue -> Ptr]
                              /\ next \in [Item -> Ptr] /\ prev \in [Item -> Ptr]
  BY DEF Memory, Memories
<1>2. ASSUME NEW q \in Queue
      PROVE  Linked(q) <=> Links(Memory, q, list[q])
  BY DEF Linked, Links, Memory
<1> QED
  BY <1>1, <1>2 DEF Representation, Represents, Lists, PcbTypeOK, Disjoint

\* The walk passes one item: the parts of from before and after, and what is kept.
OneMore(s, k, B) ==
  LET K  == Keep(SubSeq(s, 1, k - 1), B)
      R  == SubSeq(s, k, Len(s))
      K2 == Keep(SubSeq(s, 1, (k + 1) - 1), B)
      R2 == SubSeq(s, k + 1, Len(s))
  IN  /\ K \in Seq(Item) /\ R \in Seq(Item) /\ R2 \in Seq(Item)
      /\ s[k] \in Item /\ R = <<s[k]>> \o R2
      /\ K2 = IF s[k] \in B THEN Append(K, s[k]) ELSE K
      /\ Append(K, s[k]) \o R2 = K \o R
      /\ Len(R2) = Len(s) - k
      /\ k # Len(s) => R2[1] = s[k + 1]

LEMMA OneItem ==
  ASSUME NEW s \in Seq(Item), NEW k \in 1..Len(s), NEW B
  PROVE  OneMore(s, k, B)
<1> DEFINE P  == SubSeq(s, 1, k - 1)
           K  == Keep(P, B)
           R  == SubSeq(s, k, Len(s))
           R2 == SubSeq(s, k + 1, Len(s))
<1>0. Len(s) \in Nat /\ k \in Int /\ k - 1 \in Int /\ k + 1 \in Int /\ Len(s) \in Int
  BY LenProperties
<1>1. s[k] \in Item /\ \A i \in 1..Len(s) : s[i] \in Item
  BY ElementOfSeq
<1>2. P \in Seq(Item)
  BY <1>0, <1>1, SubSeqProperties
<1>3. R \in Seq(Item)
  BY <1>0, <1>1, SubSeqProperties
<1>4. R2 \in Seq(Item) /\ Len(R2) = Len(s) - k /\ (k # Len(s) => R2[1] = s[k + 1])
  <2>1. /\ R2 \in Seq(Item)
        /\ Len(R2) = IF k + 1 <= Len(s) THEN Len(s) - (k + 1) + 1 ELSE 0
        /\ \A i \in 1..(Len(s) - (k + 1) + 1) : R2[i] = s[(k + 1) + i - 1]
    BY <1>0, <1>1, SubSeqProperties
  <2>2. k # Len(s) => 1 \in 1..(Len(s) - (k + 1) + 1) /\ (k + 1) + 1 - 1 = k + 1
    BY <1>0
  <2>3. (IF k + 1 <= Len(s) THEN Len(s) - (k + 1) + 1 ELSE 0) = Len(s) - k
    BY <1>0
  <2> QED
    BY <2>1, <2>2, <2>3
<1>5. SubSeq(s, 1, k) = P \o <<s[k]>>
  BY <1>0, SubSeqRecursiveSecond
<1>6. SubSeq(s, 1, k) = Append(P, s[k])
  BY <1>1, <1>2, <1>5, AppendIsConcat
<1>7. (k + 1) - 1 = k
  BY <1>0
<1>8. R = <<s[k]>> \o R2
  BY <1>0, SubSeqRecursiveFirst
<1>9. K \in Seq(Item)
  BY <1>2, KeepProperties
<1> HIDE DEF P, R, R2
<1>10. Keep(SubSeq(s, 1, (k + 1) - 1), B) = IF s[k] \in B THEN Append(K, s[k]) ELSE K
  <2>1. Keep(Append(P, s[k]), B) = IF s[k] \in B THEN Append(Keep(P, B), s[k]) ELSE Keep(P, B)
    BY <1>1, <1>2, KeepAppend
  <2> QED
    BY <1>6, <1>7, <2>1
<1> HIDE DEF K
<1>11. Append(K, s[k]) \o R2 = K \o R
  <2>1. <<s[k]>> \in Seq(Item)
    BY <1>1
  <2>2. Append(K, s[k]) = K \o <<s[k]>>
    BY <1>1, <1>9, AppendIsConcat
  <2>3. (K \o <<s[k]>>) \o R2 = K \o (<<s[k]>> \o R2)
    BY <1>4, <1>9, <2>1, ConcatAssociative
  <2> QED
    BY <1>8, <2>2, <2>3
<1> QED
  BY <1>1, <1>3, <1>4, <1>8, <1>9, <1>10, <1>11 DEF OneMore, P, K, R, R2

\* The item in hand stands behind K, and what follows it in the queue is R.
LEMMA ItemInHand ==
  ASSUME NEW K \in Seq(Item), NEW R \in Seq(Item), NEW x \in Item,
         IsInjective(K \o (<<x>> \o R))
  PROVE  LET t == K \o (<<x>> \o R)
         IN  /\ t \in Seq(Item) /\ x \in Range(t)
             /\ Pos(t, x) = Len(K) + 1
             /\ Without(t, x) = K \o R
             /\ Len(t) = Len(K) + 1 + Len(R)
             /\ R # <<>> => t[Len(K) + 2] = R[1]
<1> DEFINE y == <<x>> \o R
           t == K \o y
           n == Len(K)
           m == Len(R)
<1>0. n \in Nat /\ m \in Nat
  BY LenProperties
<1>1. <<x>> \in Seq(Item) /\ Len(<<x>>) = 1 /\ <<x>>[1] = x
  OBVIOUS
<1>2. y \in Seq(Item) /\ Len(y) = 1 + m /\ y[1] = x /\ \A i \in 2..(m + 1) : y[i] = R[i - 1]
  <2>1. /\ y \in Seq(Item) /\ Len(y) = 1 + m
        /\ \A i \in 1..(1 + m) : y[i] = IF i <= 1 THEN <<x>>[i] ELSE R[i - 1]
    BY <1>1, ConcatProperties
  <2> QED
    BY <1>0, <1>1, <2>1
<1> HIDE DEF y
<1>3. /\ t \in Seq(Item) /\ Len(t) = n + (1 + m)
      /\ \A i \in 1..(n + (1 + m)) : t[i] = IF i <= n THEN K[i] ELSE y[i - n]
  <2>1. /\ K \o y \in Seq(Item) /\ Len(K \o y) = Len(K) + Len(y)
        /\ \A i \in 1..(Len(K) + Len(y)) : (K \o y)[i] = IF i <= Len(K) THEN K[i] ELSE y[i - Len(K)]
    BY <1>2, ConcatProperties
  <2> QED
    BY <1>2, <2>1
<1> HIDE DEF t, n, m
<1>4. t[n + 1] = x /\ n + 1 \in 1..Len(t)
  <2>1. n + 1 \in 1..(n + (1 + m)) /\ ~(n + 1 <= n) /\ (n + 1) - n = 1
    BY <1>0
  <2> QED
    BY <1>2, <1>3, <2>1
<1>5. IsInjective(t)
  BY DEF t, y
<1>6. x \in Range(t)
  BY <1>3, <1>4, LenProperties DEF Range
<1>7. /\ Pos(t, x) \in 1..Len(t) /\ t[Pos(t, x)] = x
      /\ Without(t, x) \in Seq(Item) /\ Len(Without(t, x)) = Len(t) - 1
  BY <1>3, <1>5, <1>6, WithoutProperties
<1>8. Pos(t, x) = n + 1
  BY <1>3, <1>4, <1>5, <1>7, SeqFacts
<1>9. /\ K \o R \in Seq(Item) /\ Len(K \o R) = n + m
      /\ \A i \in 1..(n + m) : (K \o R)[i] = IF i <= n THEN K[i] ELSE R[i - n]
  BY ConcatProperties DEF n, m
<1>10. ASSUME NEW i \in 1..(n + m)
       PROVE  Without(t, x)[i] = (K \o R)[i]
  <2>1. Without(t, x)[i] = IF i < n + 1 THEN t[i] ELSE t[i + 1]
    <3>1. i \in 1..(Len(t) - 1)
      BY <1>0, <1>3
    <3> QED
      BY <1>8, <3>1 DEF Without
  <2>2. CASE i <= n
    <3>1. i < n + 1 /\ i \in 1..(n + (1 + m))
      BY <1>0, <2>2
    <3> QED
      BY <1>3, <1>9, <2>1, <2>2, <3>1
  <2>3. CASE ~(i <= n)
    <3>1. /\ ~(i < n + 1) /\ i + 1 \in 1..(n + (1 + m)) /\ ~(i + 1 <= n)
          /\ (i + 1) - n \in 2..(m + 1) /\ ((i + 1) - n) - 1 = i - n
      BY <1>0, <2>3
    <3> QED
      BY <1>2, <1>3, <1>9, <2>1, <2>3, <3>1
  <2> QED
    BY <2>2, <2>3
<1>11. Without(t, x) = K \o R
  <2>1. Len(Without(t, x)) = n + m
    BY <1>0, <1>3, <1>7
  <2> QED
    BY <1>7, <1>9, <1>10, <2>1, SeqEqual
<1>12. R # <<>> => t[n + 2] = R[1]
  <2>1. R # <<>> => m \in Nat \ {0}
    BY EmptySeq DEF m
  <2>2. m # 0 => /\ n + 2 \in 1..(n + (1 + m)) /\ ~(n + 2 <= n) /\ (n + 2) - n = 2
                 /\ 2 \in 2..(m + 1)
    BY <1>0
  <2> QED
    BY <1>2, <1>3, <2>1, <2>2
<1>13. Len(t) = n + 1 + m
  BY <1>0, <1>3
<1> QED
  BY <1>3, <1>6, <1>8, <1>11, <1>12, <1>13 DEF t, y, n, m

\* The link of the item in hand leads to the next item of the walk.
Advances(m, l, w, k) ==
  LET x == w.item
  IN  /\ k \in 1..Len(w.from) /\ k + 1 \in 1..(Len(w.from) + 1)
      /\ x = w.from[k] /\ x \in Item /\ x \in Range(l[w.q])
      /\ m.next[x] = IF k + 1 > Len(w.from) THEN NULL ELSE w.from[k + 1]
      /\ Without(l[w.q], x) = Keep(Passed(w, k), Item \ w.A) \o Ahead(w, k + 1)

LEMMA NextItem ==
  ASSUME NEW m, NEW l, Represents(m, l), NEW w \in ScanState,
         NEW k \in 1..(Len(w.from) + 1), WalkAt(l, w, k), w.item # NULL
  PROVE  Advances(m, l, w, k)
<1> DEFINE s  == w.from
           x  == w.item
           K  == Keep(Passed(w, k), Item \ w.A)
           R  == Ahead(w, k)
           R2 == Ahead(w, k + 1)
           t  == l[w.q]
<1>0. /\ w.q \in Queue /\ s \in Seq(Item) /\ Len(s) \in Nat
      /\ l \in [Queue -> Seq(Item)] /\ t \in Seq(Item) /\ IsInjective(t)
  BY LenProperties DEF ScanState, Represents, Lists
<1>1. k \in 1..Len(s) /\ k + 1 \in 1..(Len(s) + 1) /\ x = s[k]
  BY <1>0 DEF WalkAt
<1>2. /\ K \in Seq(Item) /\ R \in Seq(Item) /\ R2 \in Seq(Item)
      /\ x \in Item /\ R = <<x>> \o R2
      /\ Len(R2) = Len(s) - k /\ (k # Len(s) => R2[1] = s[k + 1])
  <2>1. OneMore(s, k, Item \ w.A)
    BY <1>0, <1>1, OneItem
  <2> QED
    BY <1>1, <2>1 DEF OneMore, Passed, Ahead
<1>3. t = K \o R
  BY DEF WalkAt
<1> HIDE DEF s, x, K, R, R2, t
<1>4. t = K \o (<<x>> \o R2)
  BY <1>2, <1>3
<1>5. /\ x \in Range(t) /\ Pos(t, x) = Len(K) + 1 /\ Without(t, x) = K \o R2
      /\ Len(t) = Len(K) + 1 + Len(R2)
      /\ R2 # <<>> => t[Len(K) + 2] = R2[1]
  BY <1>0, <1>2, <1>4, ItemInHand
<1>6. m.next[x] = IF Pos(t, x) = Len(t) THEN NULL ELSE t[Pos(t, x) + 1]
  <2>1. Links(m, w.q, t)
    BY <1>0 DEF Represents, t
  <2> QED
    BY <1>0, <1>5, <2>1, LinkOfMember
<1>7. m.next[x] = IF k + 1 > Len(s) THEN NULL ELSE s[k + 1]
  <2>1. PICK n \in Nat : n = Len(K)
    BY <1>2, LenProperties
  <2>2. CASE k = Len(s)
    <3>1. Len(R2) = 0
      BY <1>0, <1>2, <2>2
    <3>2. Pos(t, x) = Len(t)
      BY <1>5, <2>1, <3>1
    <3>3. k + 1 > Len(s)
      BY <1>0, <2>2
    <3> QED
      BY <1>6, <3>2, <3>3
  <2>3. CASE k # Len(s)
    <3>1. /\ ~(k + 1 > Len(s)) /\ Len(R2) # 0
          /\ Pos(t, x) # Len(t) /\ Pos(t, x) + 1 = Len(K) + 2
      <4>1. PICK j \in Nat : j = Len(s)
        BY <1>0
      <4>2. ~(k + 1 > j) /\ j - k # 0 /\ j - k \in Nat
        BY <1>1, <2>3, <4>1
      <4>3. n + 1 # n + 1 + (j - k) /\ (n + 1) + 1 = n + 2
        BY <1>1, <4>1, <4>2
      <4> QED
        BY <1>2, <1>5, <2>1, <4>1, <4>2, <4>3
    <3>2. R2 # <<>>
      BY <3>1, EmptySeq
    <3> QED
      BY <1>2, <1>5, <1>6, <2>3, <3>1, <3>2
  <2> QED
    BY <2>2, <2>3
<1> QED
  BY <1>1, <1>2, <1>5, <1>7 DEF Advances, s, x, K, R2, t

\* The memory after a routine.
LEMMA Stored ==
  ASSUME NEW m \in Memories, Store(m)
  PROVE  Memory' = m
  BY DEF Store, Memory, Memories

LEMMA ScanOn ==
  ASSUME scan \in ScanState \cup {NoScan}
  PROVE  /\ scan.on <=> scan # NoScan
         /\ scan # NoScan <=> scan \in ScanState
<1>1. NoScan.on = FALSE
  BY DEF NoScan
<1>2. ASSUME NEW w \in ScanState
      PROVE  w.on = TRUE
  BY DEF ScanState
<1>3. CASE scan \in ScanState
  BY <1>1, <1>2, <1>3
<1>4. CASE scan = NoScan
  BY <1>1, <1>2, <1>4
<1> QED
  BY <1>3, <1>4

LEMMA KeepEmpty == ASSUME NEW B PROVE Keep(<<>>, B) = <<>>
<1>1. <<>> \in Seq({})
  BY EmptySeq
<1>2. Keep(<<>>, B) \in Seq({})
  BY <1>1, KeepProperties
<1>3. Len(Keep(<<>>, B)) \notin Nat \ {0}
  <2> SUFFICES ASSUME Len(Keep(<<>>, B)) \in Nat \ {0}
               PROVE  FALSE
    OBVIOUS
  <2>1. 1 \in 1..Len(Keep(<<>>, B))
    OBVIOUS
  <2>2. Keep(<<>>, B)[1] \in {}
    BY <1>2, <2>1, ElementOfSeq
  <2> QED
    BY <2>2
<1> QED
  BY <1>2, <1>3, EmptySeq
-----------------------------------------------------------------------------
(***************************************************************************)
(* The steps.  Each keeps PcbInv and is a step of the abstract queues.     *)
(***************************************************************************)
LEMMA RepresentationAfter ==
  (Represents(Memory, list) /\ ret \in Ptr \cup BOOLEAN
     /\ scan \in ScanState \cup {NoScan} => Representation)'
  BY RepresentationMemory, PTL

\* Module FifoQueues has the same operators on sequences.
LEMMA FifoOperators ==
  ASSUME NEW s, NEW x
  PROVE  /\ Fifo!Range(s) = Range(s)
         /\ Fifo!Pos(s, x) = Pos(s, x)
         /\ Fifo!Without(s, x) = Without(s, x)
  BY DEF Fifo!Range, Range, Fifo!Pos, Pos, Fifo!Without, Without

\* What a routine called outside of a walk has to do.
LEMMA RoutineStep ==
  ASSUME scan = NoScan, UNCHANGED scan,
         NEW m \in Memories, Store(m), Represents(m, list'), ret' \in Ptr \cup BOOLEAN
  PROVE  PcbInv'
<1>1. Memory' = m
  BY Stored
<1>2. Represents(Memory', list')
  BY <1>1
<1>3. scan' = NoScan
  OBVIOUS
<1> QED
  BY <1>2, <1>3, RepresentationAfter DEF PcbInv

LEMMA IsEmptyStep ==
  ASSUME PcbInv, NEW q \in Queue, IsEmpty(q)
  PROVE  PcbInv' /\ Fifo!IsEmpty(q)
<1>1. Represents(Memory, list)
  BY RepresentationMemory DEF PcbInv
<1>2. Memory' = Memory /\ list' = list /\ scan' = NoScan
  BY DEF IsEmpty, links, Memory
<1>3. Represents(Memory', list')
  BY <1>1, <1>2
<1>4. head[q] = NULL <=> list[q] = <<>>
  <2>1. Memory.head[q] = IF Len(list[q]) = 0 THEN NULL ELSE list[q][1]
    BY <1>1 DEF Represents, Links
  <2>2. list[q] \in Seq(Item)
    BY <1>1 DEF Represents, Lists
  <2>3. Len(list[q]) = 0 <=> list[q] = <<>>
    BY <2>2, EmptySeq
  <2>4. Len(list[q]) # 0 => list[q][1] # NULL
    BY <2>2, SeqFacts
  <2> QED
    BY <2>1, <2>3, <2>4 DEF Memory
<1>5. ret' = (head[q] = NULL)
  BY DEF IsEmpty, queue_is_empty, Memory
<1>6. ret' = (list[q] = <<>>)
  BY <1>4, <1>5
<1>7. ret' \in Ptr \cup BOOLEAN /\ scan' \in ScanState \cup {NoScan}
  BY <1>2, <1>5
<1> QED
  BY <1>2, <1>3, <1>6, <1>7, RepresentationAfter DEF PcbInv, Fifo!IsEmpty

LEMMA PushStep ==
  ASSUME PcbInv, NEW q \in Queue, NEW x \in Item, Push(q, x)
  PROVE  PcbInv' /\ Fifo!Push(q, x)
<1> DEFINE m == queue_push(Memory, q, x)
<1>1. Represents(Memory, list)
  BY RepresentationMemory DEF PcbInv
<1>2. Represents(m, [list EXCEPT ![q] = Append(list[q], x)])
  BY <1>1, PushRepresents DEF Push, Unqueued
<1>3. Represents(m, list') /\ m \in Memories
  BY <1>2 DEF Push, Represents
<1>4. Store(m) /\ scan = NoScan /\ UNCHANGED scan /\ ret' \in Ptr \cup BOOLEAN
  BY DEF Push, Ptr
<1> HIDE DEF m
<1>5. PcbInv'
  BY <1>3, <1>4, RoutineStep
<1> QED
  BY <1>5, FifoOperators DEF Push, Unqueued, Fifo!Push, Fifo!Free

LEMMA DequeueStep ==
  ASSUME PcbInv, NEW q \in Queue, Dequeue(q)
  PROVE  PcbInv' /\ Fifo!Dequeue(q)
<1> DEFINE m == queue_dequeue(Memory, q)
<1>1. Represents(Memory, list)
  BY RepresentationMemory DEF PcbInv
<1>2. Represents(m, [list EXCEPT ![q] = Tail(list[q])]) /\ Memory.head[q] = Head(list[q])
  BY <1>1, DequeueRepresents DEF Dequeue
<1>3. Represents(m, list') /\ m \in Memories
  BY <1>2 DEF Dequeue, Represents
<1>4. ret' = Memory.head[q]
  BY DEF Dequeue, Memory
<1>5. ret' \in Ptr \cup BOOLEAN
  BY <1>1, <1>4 DEF Represents, Memories
<1>6. Store(m) /\ scan = NoScan /\ UNCHANGED scan
  BY DEF Dequeue
<1> HIDE DEF m
<1>7. PcbInv'
  BY <1>3, <1>5, <1>6, RoutineStep
<1> QED
  BY <1>2, <1>4, <1>7 DEF Dequeue, Fifo!Dequeue

LEMMA RemoveStep ==
  ASSUME PcbInv, NEW q \in Queue, NEW x \in Item, Remove(q, x)
  PROVE  PcbInv' /\ Fifo!Remove(q, x)
<1> DEFINE m == queue_remove(Memory, q, x)
<1>1. Represents(Memory, list)
  BY RepresentationMemory DEF PcbInv
<1>2. x \in Range(list[q])
  BY DEF Remove
<1>3. Represents(m, [list EXCEPT ![q] = Without(list[q], x)])
  BY <1>1, <1>2, RemoveRepresents
<1>4. Represents(m, list') /\ m \in Memories
  BY <1>3 DEF Remove, Represents
<1>5. ret' = Memory.next[x]
  BY DEF Remove, Memory
<1>6. ret' \in Ptr \cup BOOLEAN
  BY <1>1, <1>5 DEF Represents, Memories
<1>7. Store(m) /\ scan = NoScan /\ UNCHANGED scan
  BY DEF Remove
<1> HIDE DEF m
<1>8. PcbInv'
  BY <1>4, <1>6, <1>7, RoutineStep
<1>9. ret' = Fifo!Successor(list[q], x)
  <2>1. list[q] \in Seq(Item) /\ IsInjective(list[q]) /\ Links(Memory, q, list[q])
    BY <1>1 DEF Represents, Lists
  <2> QED
    BY <1>2, <1>5, <2>1, LinkOfMember, FifoOperators DEF Fifo!Successor
<1> QED
  BY <1>8, <1>9, FifoOperators DEF Remove, Fifo!Remove

\* A walk begins with all of the queue ahead.
LEMMA ScanBeginStep ==
  ASSUME PcbInv, NEW q \in Queue, NEW r \in Queue, NEW A \in SUBSET Item, ScanBegin(q, r, A)
  PROVE  PcbInv' /\ UNCHANGED <<list, ret>>
<1> DEFINE w == [on |-> TRUE, q |-> q, r |-> r, A |-> A, item |-> Memory.head[q],
                 from |-> list[q], to |-> list[r]]
           s == list[q]
<1>1. /\ Represents(Memory, list) /\ ret \in Ptr \cup BOOLEAN
      /\ s \in Seq(Item) /\ list[r] \in Seq(Item) /\ Links(Memory, q, s)
  BY RepresentationMemory DEF PcbInv, Represents, Lists
<1>2. Memory' = Memory /\ list' = list /\ ret' = ret /\ scan' = w
  BY DEF ScanBegin, links, Memory
<1>3. Len(s) \in Nat /\ Len(s) # 0 /\ Memory.head[q] = s[1] /\ Memory.head[q] \in Ptr
  <2>1. Memory.head[q] # NULL
    BY DEF ScanBegin, queue_is_empty
  <2> QED
    BY <1>1, <2>1, LenProperties DEF Links, Represents, Memories
<1>4. w \in ScanState
  BY <1>1, <1>3 DEF ScanState
<1>5. WalkAt(list, w, 1)
  <2>1. Passed(w, 1) = <<>>
    BY SubSeqEmpty DEF Passed
  <2>2. Ahead(w, 1) = s
    BY <1>1, SubSeqFull DEF Ahead
  <2>3. Keep(<<>>, Item \ A) = <<>> /\ Keep(<<>>, A) = <<>>
    BY KeepEmpty
  <2>4. <<>> \o s = s /\ list[r] \o <<>> = list[r]
    BY <1>1, ConcatEmptySeq
  <2>5. ~(1 > Len(s)) /\ q # r
    BY <1>3 DEF ScanBegin
  <2> QED
    BY <1>3, <2>1, <2>2, <2>3, <2>4, <2>5 DEF WalkAt
<1>6. Walks(list, w)
  <2>1. 1 \in 1..(Len(w.from) + 1)
    BY <1>3
  <2> QED
    BY <1>5, <2>1 DEF Walks
<1> HIDE DEF w
<1>7. Represents(Memory', list') /\ ret' \in Ptr \cup BOOLEAN /\ Walks(list', scan')
  BY <1>1, <1>2, <1>6
<1> QED
  BY <1>2, <1>4, <1>7, RepresentationAfter DEF PcbInv

\* The walk moves the item in hand: its place in q closes, and it comes last in r.
LEMMA ScanMoveStep ==
  ASSUME PcbInv, ScanMove
  PROVE  PcbInv' /\ Fifo!Move(scan.q, scan.r, scan.item)
<1>1. /\ Represents(Memory, list) /\ ret \in Ptr \cup BOOLEAN
      /\ scan \in ScanState \cup {NoScan}
  BY RepresentationMemory DEF PcbInv
<1>2. scan \in ScanState /\ scan # NoScan /\ Walks(list, scan)
  BY <1>1, ScanOn DEF ScanMove, PcbInv
<1>a. PICK w \in ScanState : w = scan
  BY <1>2
<1>b. PICK k \in 1..(Len(w.from) + 1) : WalkAt(list, w, k)
  BY <1>2, <1>a DEF Walks
<1>3. w \in ScanState /\ w = scan /\ WalkAt(list, w, k)
  BY <1>a, <1>b
<1> DEFINE x  == w.item
           q  == w.q
           r  == w.r
           m1 == queue_remove(Memory, q, x)
           m2 == queue_push(m1, r, x)
           l1 == [list EXCEPT ![q] = Without(list[q], x)]
           l2 == [l1 EXCEPT ![r] = Append(l1[r], x)]
           u  == [w EXCEPT !.item = next[x]]
<1>4. /\ w.A \in SUBSET Item /\ q \in Queue /\ r \in Queue /\ q # r
      /\ w.from \in Seq(Item) /\ w.to \in Seq(Item)
      /\ x \in w.A /\ x \in Item /\ x # NULL
  BY <1>3, NullAssumption DEF ScanState, WalkAt, ScanMove
<1>5. /\ k \in 1..Len(w.from) /\ k + 1 \in 1..(Len(w.from) + 1)
      /\ x = w.from[k] /\ x \in Range(list[q])
      /\ Memory.next[x] = IF k + 1 > Len(w.from) THEN NULL ELSE w.from[k + 1]
      /\ Without(list[q], x) = Keep(Passed(w, k), Item \ w.A) \o Ahead(w, k + 1)
  <2>1. Advances(Memory, list, w, k)
    BY <1>1, <1>3, <1>4, NextItem
  <2> QED
    BY <2>1 DEF Advances
<1>6. list \in [Queue -> Seq(Item)] /\ Memory.next = next
  BY <1>1 DEF Represents, Lists, Memory
<1>7. /\ Store(m2) /\ ret' = next[x] /\ scan' = u
      /\ list' = [list EXCEPT ![q] = Without(@, x), ![r] = Append(@, x)]
  BY <1>3 DEF ScanMove
<1>8. Represents(m1, l1)
  BY <1>1, <1>4, <1>5, RemoveRepresents
<1>9. \A p \in Queue : x \notin Range(l1[p])
  <2>1. ASSUME NEW p \in Queue
        PROVE  x \notin Range(l1[p])
    <3>1. CASE p = q
      <4>1. l1[p] = Without(list[q], x)
        BY <1>4, <1>6, <3>1
      <4>2. list[q] \in Seq(Item) /\ IsInjective(list[q])
        BY <1>1, <1>4 DEF Represents, Lists
      <4>3. Range(Without(list[q], x)) = Range(list[q]) \ {x}
        <5>1. PICK s \in Seq(Item) : s = list[q]
          BY <4>2
        <5> HIDE DEF x, q
        <5>2. Range(Without(s, x)) = Range(s) \ {x}
          BY <1>5, <4>2, <5>1, WithoutProperties
        <5> QED
          BY <5>1, <5>2
      <4> QED
        BY <4>1, <4>3
    <3>2. CASE p # q
      <4>1. l1[p] = list[p]
        BY <1>4, <1>6, <3>2
      <4>2. Range(list[p]) \cap Range(list[q]) = {}
        BY <1>1, <1>4, <3>2 DEF Represents, Lists
      <4> QED
        BY <1>5, <4>1, <4>2
    <3> QED
      BY <3>1, <3>2
  <2> QED
    BY <2>1
<1> HIDE DEF m1, l1
<1>10. Represents(m2, l2)
  BY <1>4, <1>8, <1>9, PushRepresents
<1>11. list' = l2
  BY <1>4, <1>6, <1>7 DEF l1
<1>12. Represents(Memory', list')
  <2>1. m2 \in Memories
    BY <1>10 DEF Represents
  <2> HIDE DEF m2, l2
  <2>2. Memory' = m2
    BY <1>7, <2>1, Stored
  <2> QED
    BY <1>10, <1>11, <2>2
<1>13. next[x] \in Ptr
  BY <1>1, <1>4, <1>6 DEF Represents, Memories
<1>14. u \in ScanState
  BY <1>3, <1>13 DEF ScanState
<1>15. /\ u.q = q /\ u.r = r /\ u.A = w.A /\ u.from = w.from /\ u.to = w.to
       /\ u.item = next[x]
  BY DEF ScanState
<1>16. list'[q] = Without(list[q], x) /\ list'[r] = Append(list[r], x)
  BY <1>4, <1>6, <1>7
<1> HIDE DEF u
<1>17. WalkAt(list', u, k + 1)
  <2> DEFINE KA == Keep(Passed(w, k), w.A)
  <2>1. Passed(u, k + 1) = Passed(w, k + 1) /\ Ahead(u, k + 1) = Ahead(w, k + 1)
    BY <1>15 DEF Passed, Ahead
  <2>a. OneMore(w.from, k, Item \ w.A) /\ OneMore(w.from, k, w.A)
    BY <1>4, <1>5, OneItem
  <2>2. Keep(Passed(w, k + 1), Item \ w.A) = Keep(Passed(w, k), Item \ w.A)
    BY <1>4, <1>5, <2>a DEF OneMore, Passed
  <2>3. KA \in Seq(Item) /\ Keep(Passed(w, k + 1), w.A) = Append(KA, x)
    BY <1>4, <1>5, <2>a DEF OneMore, Passed
  <2>4. list[r] = w.to \o KA
    BY <1>3 DEF WalkAt
  <2> HIDE DEF KA
  <2>5. Append(w.to \o KA, x) = w.to \o Append(KA, x)
    <3>1. w.to \o KA \in Seq(Item)
      BY <1>4, <2>3, ConcatProperties
    <3>2. <<x>> \in Seq(Item)
      BY <1>4
    <3>3. Append(w.to \o KA, x) = (w.to \o KA) \o <<x>> /\ Append(KA, x) = KA \o <<x>>
      BY <1>4, <2>3, <3>1, AppendIsConcat
    <3>4. (w.to \o KA) \o <<x>> = w.to \o (KA \o <<x>>)
      <4>1. PICK y \in Seq(Item) : y = <<x>>
        BY <3>2
      <4>2. PICK z \in Seq(Item) : z = w.to
        BY <1>4
      <4>3. (z \o KA) \o y = z \o (KA \o y)
        BY <2>3, ConcatAssociative
      <4> QED
        BY <4>1, <4>2, <4>3
    <3> QED
      BY <3>3, <3>4
  <2>6. list'[r] = w.to \o Keep(Passed(w, k + 1), w.A)
    BY <1>16, <2>3, <2>4, <2>5
  <2>7. list'[q] = Keep(Passed(w, k + 1), Item \ w.A) \o Ahead(w, k + 1)
    BY <1>5, <1>16, <2>2
  <2>8. next[x] = IF k + 1 > Len(w.from) THEN NULL ELSE w.from[k + 1]
    BY <1>5, <1>6
  <2> QED
    BY <1>4, <1>15, <2>1, <2>6, <2>7, <2>8 DEF WalkAt
<1>18. Walks(list', u)
  BY <1>5, <1>15, <1>17 DEF Walks
<1>19. PcbInv'
  <2>1. ret' \in Ptr \cup BOOLEAN /\ scan' \in ScanState \cup {NoScan} /\ Walks(list', scan')
    BY <1>7, <1>13, <1>14, <1>18
  <2> QED
    BY <1>12, <2>1, RepresentationAfter DEF PcbInv
<1>20. next[x] = Fifo!Successor(list[q], x)
  <2>1. list[q] \in Seq(Item) /\ IsInjective(list[q]) /\ Links(Memory, q, list[q])
    BY <1>1, <1>4 DEF Represents, Lists
  <2> QED
    <3>1. PICK s \in Seq(Item) : s = list[q]
      BY <2>1
    <3>2. Memory.next[x] = IF Pos(s, x) = Len(s) THEN NULL ELSE s[Pos(s, x) + 1]
      <4> HIDE DEF x, q
      <4> QED
        BY <1>5, <2>1, <3>1, LinkOfMember
    <3>3. Fifo!Pos(s, x) = Pos(s, x)
      BY FifoOperators
    <3> QED
      BY <1>6, <3>1, <3>2, <3>3 DEF Fifo!Successor
<1>21. Fifo!Move(q, r, x)
  BY <1>4, <1>5, <1>7, <1>20, FifoOperators DEF Fifo!Move
<1> QED
  BY <1>3, <1>19, <1>21

\* The walk leaves the item in hand where it is.
LEMMA ScanSkipStep ==
  ASSUME PcbInv, ScanSkip
  PROVE  PcbInv' /\ UNCHANGED <<list, ret>>
<1>1. /\ Represents(Memory, list) /\ ret \in Ptr \cup BOOLEAN
      /\ scan \in ScanState \cup {NoScan}
  BY RepresentationMemory DEF PcbInv
<1>2. scan \in ScanState /\ scan # NoScan /\ Walks(list, scan)
  BY <1>1, ScanOn DEF ScanSkip, PcbInv
<1>a. PICK w \in ScanState : w = scan
  BY <1>2
<1>b. PICK k \in 1..(Len(w.from) + 1) : WalkAt(list, w, k)
  BY <1>2, <1>a DEF Walks
<1>3. w \in ScanState /\ w = scan /\ WalkAt(list, w, k)
  BY <1>a, <1>b
<1> DEFINE x  == w.item
           u  == [w EXCEPT !.item = next[x]]
<1>4. /\ w.A \in SUBSET Item /\ w.q \in Queue /\ w.r \in Queue /\ w.q # w.r
      /\ w.from \in Seq(Item)
      /\ x \in Item \ w.A /\ x \in Item /\ x # NULL
  BY <1>3, NullAssumption DEF ScanState, WalkAt, ScanSkip
<1>5. /\ k \in 1..Len(w.from) /\ k + 1 \in 1..(Len(w.from) + 1) /\ x = w.from[k]
      /\ Memory.next[x] = IF k + 1 > Len(w.from) THEN NULL ELSE w.from[k + 1]
  <2>1. Advances(Memory, list, w, k)
    BY <1>1, <1>3, <1>4, NextItem
  <2> QED
    BY <2>1 DEF Advances
<1>6. Memory.next = next /\ Memory' = Memory /\ list' = list /\ ret' = ret /\ scan' = u
  BY <1>3 DEF ScanSkip, Memory, links
<1>7. next[x] \in Ptr
  BY <1>1, <1>4, <1>6 DEF Represents, Memories
<1>8. u \in ScanState
  BY <1>3, <1>7 DEF ScanState
<1>9. /\ u.q = w.q /\ u.r = w.r /\ u.A = w.A /\ u.from = w.from /\ u.to = w.to
      /\ u.item = next[x]
  BY DEF ScanState
<1> HIDE DEF u
<1>10. WalkAt(list, u, k + 1)
  <2> DEFINE K == Keep(Passed(w, k), Item \ w.A)
  <2>1. Passed(u, k + 1) = Passed(w, k + 1) /\ Ahead(u, k + 1) = Ahead(w, k + 1)
    BY <1>9 DEF Passed, Ahead
  <2>2. /\ Keep(Passed(w, k + 1), Item \ w.A) = Append(K, x)
        /\ Append(K, x) \o Ahead(w, k + 1) = K \o Ahead(w, k)
    <3>1. OneMore(w.from, k, Item \ w.A)
      BY <1>4, <1>5, OneItem
    <3> QED
      BY <1>4, <1>5, <3>1 DEF OneMore, Passed, Ahead
  <2>3. Keep(Passed(w, k + 1), w.A) = Keep(Passed(w, k), w.A)
    <3>1. OneMore(w.from, k, w.A)
      BY <1>4, <1>5, OneItem
    <3> QED
      BY <1>4, <1>5, <3>1 DEF OneMore, Passed
  <2>4. list[w.q] = K \o Ahead(w, k) /\ list[w.r] = w.to \o Keep(Passed(w, k), w.A)
    BY <1>3 DEF WalkAt
  <2> QED
    BY <1>4, <1>5, <1>6, <1>9, <2>1, <2>2, <2>3, <2>4 DEF WalkAt
<1>11. Walks(list', scan')
  BY <1>5, <1>6, <1>9, <1>10 DEF Walks
<1>12. Represents(Memory', list') /\ ret' \in Ptr \cup BOOLEAN
       /\ scan' \in ScanState \cup {NoScan}
  BY <1>1, <1>6, <1>8
<1> QED
  BY <1>6, <1>11, <1>12, RepresentationAfter DEF PcbInv

LEMMA ScanEndStep ==
  ASSUME PcbInv, ScanEnd
  PROVE  PcbInv' /\ UNCHANGED <<list, ret>>
<1>1. Represents(Memory, list) /\ ret \in Ptr \cup BOOLEAN
  BY RepresentationMemory DEF PcbInv
<1>2. Memory' = Memory /\ list' = list /\ ret' = ret /\ scan' = NoScan
  BY DEF ScanEnd, Memory, links
<1>3. Represents(Memory', list') /\ ret' \in Ptr \cup BOOLEAN
  BY <1>1, <1>2
<1> QED
  BY <1>2, <1>3, RepresentationAfter DEF PcbInv

LEMMA StutterStep ==
  ASSUME PcbInv, UNCHANGED pcbVars
  PROVE  PcbInv' /\ UNCHANGED <<list, ret>>
<1>1. UNCHANGED <<head, tail, next, prev, list, ret, scan>>
  BY DEF pcbVars, links
<1> QED
  BY <1>1 DEF PcbInv, Representation, PcbTypeOK, Disjoint, Linked

LEMMA NextPcbInv ==
  ASSUME PcbInv, [PcbNext]_pcbVars
  PROVE  PcbInv' /\ [Fifo!Next]_<<list, ret>>
<1>1. ASSUME NEW q \in Queue, IsEmpty(q)
      PROVE  PcbInv' /\ [Fifo!Next]_<<list, ret>>
  BY <1>1, IsEmptyStep DEF Fifo!Next
<1>2. ASSUME NEW q \in Queue, Dequeue(q)
      PROVE  PcbInv' /\ [Fifo!Next]_<<list, ret>>
  BY <1>2, DequeueStep DEF Fifo!Next
<1>3. ASSUME NEW q \in Queue, NEW x \in Item, Push(q, x)
      PROVE  PcbInv' /\ [Fifo!Next]_<<list, ret>>
  BY <1>3, PushStep DEF Fifo!Next
<1>4. ASSUME NEW q \in Queue, NEW x \in Item, Remove(q, x)
      PROVE  PcbInv' /\ [Fifo!Next]_<<list, ret>>
  BY <1>4, RemoveStep DEF Fifo!Next
<1>5. ASSUME NEW q \in Queue, NEW r \in Queue, NEW A \in SUBSET Item, ScanBegin(q, r, A)
      PROVE  PcbInv' /\ [Fifo!Next]_<<list, ret>>
  BY <1>5, ScanBeginStep
<1>6. CASE ScanMove
  <2>1. PcbInv' /\ Fifo!Move(scan.q, scan.r, scan.item)
    BY <1>6, ScanMoveStep
  <2>2. scan \in ScanState
    <3>1. scan \in ScanState \cup {NoScan}
      BY DEF PcbInv, Representation, PcbTypeOK
    <3> QED
      BY <1>6, <3>1, ScanOn DEF ScanMove
  <2>3. scan.q \in Queue /\ scan.r \in Queue /\ scan.item \in Item
    BY <1>6, <2>2 DEF ScanState, ScanMove
  <2> QED
    BY <2>1, <2>3 DEF Fifo!Next
<1>7. CASE ScanSkip \/ ScanEnd
  BY <1>7, ScanSkipStep, ScanEndStep
<1>8. CASE UNCHANGED pcbVars
  BY <1>8, StutterStep
<1> QED
  BY <1>1, <1>2, <1>3, <1>4, <1>5, <1>6, <1>7, <1>8 DEF PcbNext

LEMMA InitPcbInv == PcbInit => PcbInv /\ Fifo!Init
<1> SUFFICES ASSUME PcbInit
             PROVE  PcbInv /\ Fifo!Init
  OBVIOUS
<1>1. /\ <<>> \in Seq(Item) /\ Len(<<>>) = 0
  BY EmptySeq
<1>2. DOMAIN <<>> = {}
  OBVIOUS
<1>3. Range(<<>>) = {} /\ IsInjective(<<>>)
  BY <1>2 DEF Range, IsInjective
<1>4. PcbTypeOK
  BY <1>1 DEF PcbInit, PcbTypeOK, Ptr
<1>5. Disjoint
  BY <1>3 DEF PcbInit, Disjoint
<1>6. \A q \in Queue : Linked(q)
  BY <1>1 DEF PcbInit, Linked
<1> QED
  BY <1>4, <1>5, <1>6 DEF PcbInit, PcbInv, Representation, Fifo!Init

\* The pointers of queue.c always represent the queues: head and tail, next and prev fit
\* the contents, and no pcb is in two places.
THEOREM QueueRepresentation == PcbSpec => []Representation
<1>1. PcbInv => Representation
  BY DEF PcbInv
<1> QED
  BY <1>1, InitPcbInv, NextPcbInv, PTL DEF PcbSpec

\* A walk over a queue, as in check_sleeping and free_proc, moves exactly the members
\* selected, in their order, although it changes the queue it walks over.
THEOREM QueueScan == PcbSpec => []ScanMovesSelected
<1>1. PcbInv => ScanMovesSelected
  <2> SUFFICES ASSUME PcbInv, scan.on, scan.item = NULL
               PROVE  /\ list[scan.q] = Keep(scan.from, Item \ scan.A)
                      /\ list[scan.r] = scan.to \o Keep(scan.from, scan.A)
    BY DEF ScanMovesSelected
  <2>1. scan \in ScanState /\ Walks(list, scan)
    <3>1. scan \in ScanState \cup {NoScan}
      BY DEF PcbInv, Representation, PcbTypeOK
    <3> QED
      BY <3>1, ScanOn DEF PcbInv
  <2>2. PICK k \in 1..(Len(scan.from) + 1) : WalkAt(list, scan, k)
    BY <2>1 DEF Walks
  <2>3. scan.from \in Seq(Item) /\ Len(scan.from) \in Nat
    BY <2>1, LenProperties DEF ScanState
  <2>4. k = Len(scan.from) + 1
    <3>1. k \in 1..Len(scan.from) => scan.from[k] # NULL
      BY <2>3, SeqFacts
    <3> QED
      BY <2>2, <2>3, <3>1 DEF WalkAt
  <2>5. Passed(scan, k) = scan.from
    <3>1. k - 1 = Len(scan.from)
      BY <2>3, <2>4
    <3> QED
      BY <2>3, <3>1, SubSeqFull DEF Passed
  <2>6. Ahead(scan, k) = <<>>
    <3>1. k \in Int /\ Len(scan.from) \in Int /\ Len(scan.from) < k
      BY <2>3, <2>4
    <3> QED
      BY <3>1, SubSeqEmpty DEF Ahead
  <2>7. Keep(scan.from, Item \ scan.A) \in Seq(Item)
    BY <2>3, KeepProperties
  <2>8. Keep(scan.from, Item \ scan.A) \o <<>> = Keep(scan.from, Item \ scan.A)
    BY <2>7, ConcatEmptySeq
  <2> QED
    BY <2>2, <2>5, <2>6, <2>8 DEF WalkAt
<1> QED
  BY <1>1, InitPcbInv, NextPcbInv, PTL DEF PcbSpec

\* The linked lists implement first-in first-out queues, with what their routines return.
THEOREM QueueRefinement == PcbSpec => FifoSpec
  BY InitPcbInv, NextPcbInv, PTL DEF PcbSpec, FifoSpec, Fifo!Spec
=============================================================================
