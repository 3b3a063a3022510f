------------------------------ MODULE PcbQueue ------------------------------
(***************************************************************************)
(* The doubly linked lists of kernel/sched/queue.c.  A queue is a pair of  *)
(* pointers head and tail; the links next and prev are fields of the pcbs  *)
(* themselves, so one pcb can be in only one queue at a time.  The clients *)
(* are those of the kernel: they push a pcb that is in no queue, remove a  *)
(* pcb that is in the queue, and dequeue from a queue that is not empty    *)
(* (module Sched shows that the kernel keeps to this).  Two of them,       *)
(* check_sleeping and free_proc, walk a queue while moving members of it   *)
(* to another one; the walk is modelled item by item.                      *)
(*                                                                         *)
(* list is an auxiliary variable: the contents each queue ought to have.   *)
(***************************************************************************)
EXTENDS QueueOps

CONSTANTS Item,    \* the pcbs
          Queue,   \* the queues
          NULL     \* the null pointer

ASSUME NullAssumption == NULL \notin Item

VARIABLES head, tail,   \* queue_t, for every queue
          next, prev,   \* the links in every pcb
          list,         \* auxiliary: the contents of every queue
          ret,          \* what the last call returned
          scan          \* the walk in progress, or NoScan

links == <<head, tail, next, prev>>
pcbVars  == <<links, list, ret, scan>>

Ptr    == Item \cup {NULL}
NoScan == [on |-> FALSE]

Memory == [head |-> head, tail |-> tail, next |-> next, prev |-> prev]

PcbInit ==
  /\ head = [q \in Queue |-> NULL] /\ tail = [q \in Queue |-> NULL]
  /\ next = [x \in Item |-> NULL] /\ prev = [x \in Item |-> NULL]
  /\ list = [q \in Queue |-> <<>>]
  /\ ret = NULL
  /\ scan = NoScan
-----------------------------------------------------------------------------
(***************************************************************************)
(* The routines, as functions of the memory m.                             *)
(***************************************************************************)
\* A definition named X_fault is not part of the model: it is X with a plausible
\* programming error, kept to show that a property detects it.
queue_is_empty_fault(m, q) == m.head[q] = m.tail[q]
queue_is_empty(m, q) == m.head[q] = NULL

queue_push(m, q, x) ==
  IF m.head[q] = NULL
  THEN [head |-> [m.head EXCEPT ![q] = x],
        tail |-> [m.tail EXCEPT ![q] = x],
        next |-> [m.next EXCEPT ![x] = NULL],
        prev |-> [m.prev EXCEPT ![x] = NULL]]
  ELSE [head |-> m.head,
        tail |-> [m.tail EXCEPT ![q] = x],
        next |-> [m.next EXCEPT ![m.tail[q]] = x, ![x] = NULL],
        prev |-> [m.prev EXCEPT ![x] = m.tail[q]]]

queue_dequeue(m, q) ==
  LET temp == m.head[q]
  IN  IF m.next[temp] = NULL
      THEN [head |-> [m.head EXCEPT ![q] = NULL],
            tail |-> [m.tail EXCEPT ![q] = NULL],
            next |-> [m.next EXCEPT ![temp] = NULL],
            prev |-> [m.prev EXCEPT ![temp] = NULL]]
      ELSE [head |-> [m.head EXCEPT ![q] = m.next[temp]],
            tail |-> m.tail,
            next |-> [m.next EXCEPT ![temp] = NULL],
            prev |-> [m.prev EXCEPT ![m.next[temp]] = NULL, ![temp] = NULL]]

\* The successor's prev still points at x.
queue_remove_fault(m, q, x) ==
  LET first == x = m.head[q]
      last  == x = m.tail[q]
  IN  [head |-> IF first THEN [m.head EXCEPT ![q] = m.next[x]] ELSE m.head,
       tail |-> IF last THEN [m.tail EXCEPT ![q] = m.prev[x]] ELSE m.tail,
       next |-> IF first THEN [m.next EXCEPT ![x] = NULL]
                ELSE [m.next EXCEPT ![m.prev[x]] = m.next[x], ![x] = NULL],
       prev |-> [m.prev EXCEPT ![x] = NULL]]

queue_remove(m, q, x) ==
  LET first == x = m.head[q]
      last  == x = m.tail[q]
  IN  [head |-> IF first /\ last THEN [m.head EXCEPT ![q] = NULL]
                ELSE IF first THEN [m.head EXCEPT ![q] = m.next[x]]
                ELSE m.head,
       tail |-> IF first /\ last THEN [m.tail EXCEPT ![q] = NULL]
                ELSE IF ~first /\ last THEN [m.tail EXCEPT ![q] = m.prev[x]]
                ELSE m.tail,
       next |-> IF first THEN [m.next EXCEPT ![x] = NULL]
                ELSE IF last THEN [m.next EXCEPT ![m.prev[x]] = NULL, ![x] = NULL]
                ELSE [m.next EXCEPT ![m.prev[x]] = m.next[x], ![x] = NULL],
       prev |-> IF last THEN [m.prev EXCEPT ![x] = NULL]
                ELSE IF first THEN [m.prev EXCEPT ![m.next[x]] = NULL, ![x] = NULL]
                ELSE [m.prev EXCEPT ![m.next[x]] = m.prev[x], ![x] = NULL]]

Store(m) == head' = m.head /\ tail' = m.tail /\ next' = m.next /\ prev' = m.prev
-----------------------------------------------------------------------------
Unqueued(x) == \A q \in Queue : x \notin Range(list[q])

IsEmpty(q) ==
  /\ scan = NoScan
  /\ ret' = queue_is_empty(Memory, q)
  /\ UNCHANGED <<links, list, scan>>

Push(q, x) ==
  /\ scan = NoScan
  /\ Unqueued(x)
  /\ Store(queue_push(Memory, q, x))
  /\ list' = [list EXCEPT ![q] = Append(@, x)]
  /\ ret' = NULL
  /\ UNCHANGED scan

Dequeue(q) ==
  /\ scan = NoScan
  /\ list[q] # <<>>
  /\ Store(queue_dequeue(Memory, q))
  /\ list' = [list EXCEPT ![q] = Tail(@)]
  /\ ret' = head[q]
  /\ UNCHANGED scan

Remove(q, x) ==
  /\ scan = NoScan
  /\ x \in Range(list[q])
  /\ Store(queue_remove(Memory, q, x))
  /\ list' = [list EXCEPT ![q] = Without(@, x)]
  /\ ret' = next[x]
  /\ UNCHANGED scan

(***************************************************************************)
(* The walk of check_sleeping and of the last part of free_proc over q:    *)
(* the members in A move to r.  from and to remember the contents of q and *)
(* r when it began.                                                        *)
(***************************************************************************)
ScanBegin(q, r, A) ==
  /\ scan = NoScan
  /\ q # r
  /\ ~queue_is_empty(Memory, q)
  /\ scan' = [on |-> TRUE, q |-> q, r |-> r, A |-> A, item |-> head[q],
              from |-> list[q], to |-> list[r]]
  /\ UNCHANGED <<links, list, ret>>

\* The walk reads the link of the item after pushing it.
ScanMove_fault ==
  /\ scan.on
  /\ scan.item \in scan.A
  /\ LET x == scan.item
     IN  /\ Store(queue_push(queue_remove(Memory, scan.q, x), scan.r, x))
         /\ list' = [list EXCEPT ![scan.q] = Without(@, x), ![scan.r] = Append(@, x)]
         /\ ret' = next[x]
         /\ scan' = [scan EXCEPT !.item = next'[x]]

\* queue_remove of the item in hand, then queue_push; the walk goes on with the
\* item queue_remove returned.
ScanMove ==
  /\ scan.on
  /\ scan.item \in scan.A
  /\ LET x == scan.item
     IN  /\ Store(queue_push(queue_remove(Memory, scan.q, x), scan.r, x))
         /\ list' = [list EXCEPT ![scan.q] = Without(@, x), ![scan.r] = Append(@, x)]
         /\ ret' = next[x]
         /\ scan' = [scan EXCEPT !.item = next[x]]

ScanSkip ==
  /\ scan.on
  /\ scan.item \in Item \ scan.A
  /\ scan' = [scan EXCEPT !.item = next[scan.item]]
  /\ UNCHANGED <<links, list, ret>>

ScanEnd ==
  /\ scan.on
  /\ scan.item = NULL
  /\ scan' = NoScan
  /\ UNCHANGED <<links, list, ret>>

PcbNext ==
  \/ \E q \in Queue :
       \/ IsEmpty(q)
       \/ Dequeue(q)
       \/ \E x \in Item : Push(q, x) \/ Remove(q, x)
       \/ \E r \in Queue, A \in SUBSET Item : ScanBegin(q, r, A)
  \/ ScanMove \/ ScanSkip \/ ScanEnd

PcbSpec == PcbInit /\ [][PcbNext]_pcbVars
-----------------------------------------------------------------------------
ScanState ==
  [on : {TRUE}, q : Queue, r : Queue, A : SUBSET Item, item : Ptr,
   from : Seq(Item), to : Seq(Item)]

PcbTypeOK ==
  /\ head \in [Queue -> Ptr] /\ tail \in [Queue -> Ptr]
  /\ next \in [Item -> Ptr] /\ prev \in [Item -> Ptr]
  /\ list \in [Queue -> Seq(Item)]
  /\ ret \in Ptr \cup BOOLEAN
  /\ scan \in ScanState \cup {NoScan}

\* The pointers represent the lists: head and tail point at the ends, next and
\* prev at the neighbours, and no pcb occurs twice.  Every routine of queue.c
\* must restore this for the queue it works on and for all the others.
Linked(q) ==
  LET s == list[q]
      n == Len(list[q])
  IN  /\ head[q] = IF n = 0 THEN NULL ELSE s[1]
      /\ tail[q] = IF n = 0 THEN NULL ELSE s[n]
      /\ \A i \in 1..n : /\ next[s[i]] = IF i = n THEN NULL ELSE s[i + 1]
                         /\ prev[s[i]] = IF i = 1 THEN NULL ELSE s[i - 1]

Disjoint ==
  /\ \A q \in Queue : IsInjective(list[q])
  /\ \A q, r \in Queue : q # r => Range(list[q]) \cap Range(list[r]) = {}

Representation == PcbTypeOK /\ Disjoint /\ \A q \in Queue : Linked(q)

\* When the walk reaches the end of the queue it has moved exactly the selected
\* members, in their order, behind those that were in r, and the others are
\* left in their order: no member is skipped because the list changed under it.
ScanMovesSelected ==
  scan.on /\ scan.item = NULL =>
    /\ list[scan.q] = Keep(scan.from, Item \ scan.A)
    /\ list[scan.r] = scan.to \o Keep(scan.from, scan.A)

\* The pointer structure implements the abstract queues, return values included.
Fifo == INSTANCE FifoQueues
FifoSpec == Fifo!Spec
=============================================================================
