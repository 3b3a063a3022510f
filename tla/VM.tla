--------------------------------- MODULE VM ---------------------------------
(***************************************************************************)
(* Virtual memory: the page allocators and page tables of mm/memory.c, the *)
(* TLB refill handler of entry.S, and what do_spawn, free_proc and         *)
(* do_scheduler do to the address space of a process.                      *)
(*                                                                         *)
(* Frames are numbered in the order in which next_page_addr reaches them.  *)
(* A virtual page pair (the unit of the TLB) is <<d, k>>: its offset in    *)
(* the page directory and its number in the page table.  A page table      *)
(* entry is the frame it maps, or Invalid.  Handlers run in the kernel,    *)
(* which is not preempted.                                                 *)
(*                                                                         *)
(* The TLB is the part of it that tlbwr replaces: the wired entries are    *)
(* never written.  No entry is ever flushed.                               *)
(*                                                                         *)
(* A definition named X_fault is not part of the model: it is X with a     *)
(* plausible programming error, kept to show that a property detects it.   *)
(***************************************************************************)
EXTENDS QueueOps

CONSTANTS MaxPid,      \* bound: processes started
          MaxLive,     \* NUM_MAX_TASK
          AsidMod,     \* the number of address space identifiers, 256
          NumDir,      \* entries of a page directory
          NumPair,     \* page pairs of a page table
          TlbSize,     \* entries tlbwr chooses from
          MaxFree      \* MAX_FREE_PAGE

Pid   == 1..MaxPid
Dir   == 0..(NumDir - 1)
Pair  == 0..(NumPair - 1)
Pages == 2 * NumPair                     \* entries of a page table
Entry == 0..(Pages - 1)
Vpn2  == Dir \X Pair
Index == 0..(TlbSize - 1)

Pgd   == 1..MaxPid                       \* frames of page directories
Pt    == 0..(MaxPid * NumDir)            \* frames of page tables
User  == 1..(MaxPid * NumDir * Pages)    \* frames of user pages

Invalid   == 0                           \* a page table entry without its V bit
NoProc    == 0                           \* the boot process, or nobody
NoEntry   == [vpn2 |-> <<>>, asid |-> 0, lo |-> <<Invalid, Invalid>>]
EmptyPt   == 0                           \* global_empty_pt

(***************************************************************************)
(* Pids are never reused, and the kernel warns that it breaks when too     *)
(* many processes have run (alloc_pid).  Up to AsidMod processes the       *)
(* identifiers in the TLB are as unique as the pids.                       *)
(***************************************************************************)
ASSUME VMAssumption ==
  /\ MaxPid \in Nat /\ MaxLive \in Nat /\ AsidMod \in Nat \ {0}
  /\ NumDir \in Nat \ {0} /\ NumPair \in Nat \ {0} /\ TlbSize \in Nat \ {0}
  /\ MaxFree \in Nat
  /\ MaxPid < AsidMod

VARIABLES
  page_ctrl,    \* page_ctrl_pgd, page_ctrl_pt, page_ctrl_user
  pgd,          \* the page directories in memory
  pt,           \* the page tables in memory
  page_table,   \* page_table of each process that is alive, else NoPgd
  next_pid,     \* next_pid
  current,      \* current_pid, with current_pgd its page_table
  asid,         \* the ASID field of CP0_ENTRYHI
  tlb           \* the TLB

vars == <<page_ctrl, pgd, pt, page_table, next_pid, current, asid, tlb>>

NoPgd == 0
Alive == {p \in Pid : page_table[p] # NoPgd}
-----------------------------------------------------------------------------
(***************************************************************************)
(* The page allocators.                                                    *)
(***************************************************************************)
page_ctrl_init(start) == [next |-> start, free |-> <<>>]

\* The page that alloc_page returns, and what it leaves of the allocator.
page_addr(c) == IF c.free # <<>> THEN c.free[Len(c.free)] ELSE c.next

alloc_page(c) == IF c.free # <<>> THEN [c EXCEPT !.free = SubSeq(@, 1, Len(@) - 1)]
                                  ELSE [c EXCEPT !.next = @ + 1]

\* free_page of the pages in s, in order: once the list is full the rest is lost.
free_pages(c, s) ==
  [c EXCEPT !.free = LET n == Len(@) + Len(s)
                     IN  SubSeq(@ \o s, 1, IF n <= MaxFree THEN n ELSE MaxFree)]

\* init_page_table takes page table 0 for global_empty_pt.
Init ==
  /\ page_ctrl = [pgd  |-> page_ctrl_init(1),
                  pt   |-> alloc_page(page_ctrl_init(0)),
                  user |-> page_ctrl_init(1)]
  /\ pgd = [f \in Pgd |-> [d \in Dir |-> EmptyPt]]
  /\ pt = [f \in Pt |-> [e \in Entry |-> Invalid]]
  /\ page_table = [p \in Pid |-> NoPgd]
  /\ next_pid = 1
  /\ current = NoProc
  /\ asid = 0
  /\ tlb = [i \in Index |-> NoEntry]
-----------------------------------------------------------------------------
(***************************************************************************)
(* Page tables.                                                            *)
(***************************************************************************)
\* The page table of directory entry d of process p, and its entry e.
PtOf(p, d)     == pgd[page_table[p]][d]
Pte(p, d, e)   == pt[PtOf(p, d)][e]
Lo(p, v)       == <<Pte(p, v[1], 2 * v[2]), Pte(p, v[1], 2 * v[2] + 1)>>

\* What a handler does to the page table of v: a table is allocated and cleared when
\* the directory has none, and do_page_fault gives both pages of the pair a frame
\* that do not have one yet.
NewTable(v) == PtOf(current, v[1]) = EmptyPt
TableOf(v)  == IF NewTable(v) THEN page_addr(page_ctrl.pt) ELSE PtOf(current, v[1])
OldLo(v)    == IF NewTable(v) THEN <<Invalid, Invalid>> ELSE Lo(current, v)

do_page_fault(c, f) == IF f = Invalid THEN page_addr(c) ELSE f
AfterFault(c, f)    == IF f = Invalid THEN alloc_page(c) ELSE c

NewLo(v) == LET c == page_ctrl.user
            IN  <<do_page_fault(c, OldLo(v)[1]),
                  do_page_fault(AfterFault(c, OldLo(v)[1]), OldLo(v)[2])>>

MapPair(v) ==
  /\ page_ctrl' = [page_ctrl EXCEPT
                     !.pt   = IF NewTable(v) THEN alloc_page(@) ELSE @,
                     !.user = AfterFault(AfterFault(@, OldLo(v)[1]), OldLo(v)[2])]
  /\ pgd' = [pgd EXCEPT ![page_table[current]][v[1]] = TableOf(v)]
  /\ pt' = [pt EXCEPT ![TableOf(v)] =
              [e \in Entry |-> CASE e = 2 * v[2]     -> NewLo(v)[1]
                                 [] e = 2 * v[2] + 1 -> NewLo(v)[2]
                                 [] OTHER -> IF NewTable(v) THEN Invalid ELSE @[e]]]
-----------------------------------------------------------------------------
(***************************************************************************)
(* The TLB.                                                                *)
(***************************************************************************)
Matches(i, v, a) == tlb[i].vpn2 = v /\ tlb[i].asid = a
Hit(v)           == {i \in Index : Matches(i, v, asid)}

TlbEntry(v, lo) == [vpn2 |-> v, asid |-> asid, lo |-> lo]

\* tlbwr at any index.
tlbwr(e) == \E i \in Index : tlb' = [tlb EXCEPT ![i] = e]

\* The entry is written without looking for the pair first.
WriteTlb_fault(v, lo) == tlbwr(TlbEntry(v, lo))

\* tlbp, then tlbwi where the pair was found, or tlbwr.
WriteTlb(v, lo) ==
  IF Hit(v) = {} THEN tlbwr(TlbEntry(v, lo))
                 ELSE \E i \in Hit(v) : tlb' = [tlb EXCEPT ![i] = TlbEntry(v, lo)]
-----------------------------------------------------------------------------
(***************************************************************************)
(* The actions.                                                            *)
(***************************************************************************)
\* The running process touches a page of v and the TLB has no entry: the refill
\* handler copies the two page table entries, whatever they are.
TLBexception_handler(v) ==
  /\ current # NoProc
  /\ Hit(v) = {}
  /\ tlbwr(TlbEntry(v, Lo(current, v)))
  /\ UNCHANGED <<page_ctrl, pgd, pt, page_table, next_pid, current, asid>>

\* It touches page h of a pair whose entry is invalid.
TLB_Invalid_handler(v, h) ==
  /\ current # NoProc
  /\ \E i \in Hit(v) : tlb[i].lo[h] = Invalid
  /\ MapPair(v)
  /\ WriteTlb(v, NewLo(v))
  /\ UNCHANGED <<page_table, next_pid, current, asid>>

\* start_up maps the arguments of a process that has not used its memory yet.
do_TLB_Refill(v) ==
  /\ current # NoProc
  /\ \A d \in Dir : PtOf(current, d) = EmptyPt
  /\ MapPair(v)
  /\ WriteTlb(v, NewLo(v))
  /\ UNCHANGED <<page_table, next_pid, current, asid>>

\* The directory is not cleared: it may still name the tables of a dead process.
do_spawn_fault ==
  /\ Cardinality(Alive) < MaxLive
  /\ next_pid \in Pid
  /\ next_pid' = next_pid + 1
  /\ page_table' = [page_table EXCEPT ![next_pid] = page_addr(page_ctrl.pgd)]
  /\ page_ctrl' = [page_ctrl EXCEPT !.pgd = alloc_page(@)]
  /\ UNCHANGED <<pgd, pt, current, asid, tlb>>

\* do_spawn, by anybody: a pid, a page directory, and init_pgd.
do_spawn ==
  /\ Cardinality(Alive) < MaxLive
  /\ next_pid \in Pid
  /\ next_pid' = next_pid + 1
  /\ LET f == page_addr(page_ctrl.pgd)
     IN  /\ page_table' = [page_table EXCEPT ![next_pid] = f]
         /\ pgd' = [pgd EXCEPT ![f] = [d \in Dir |-> EmptyPt]]
  /\ page_ctrl' = [page_ctrl EXCEPT !.pgd = alloc_page(@)]
  /\ UNCHANGED <<pt, current, asid, tlb>>

\* CP0_ENTRYHI keeps the identifier of the last process.
do_scheduler_fault(p) ==
  /\ p \in Alive
  /\ current' = p
  /\ UNCHANGED <<page_ctrl, pgd, pt, page_table, next_pid, asid, tlb>>

\* do_scheduler switches to p.
do_scheduler(p) ==
  /\ p \in Alive
  /\ current' = p
  /\ asid' = p % AsidMod
  /\ UNCHANGED <<page_ctrl, pgd, pt, page_table, next_pid, tlb>>

\* The user pages and the page tables of p, in the order of the loops in free_proc;
\* the fault misses the last page.
UserPages_fault(p) == Keep([n \in 1..(NumDir * Pages - 1) |->
                              Pte(p, (n - 1) \div Pages, (n - 1) % Pages)], User)

UserPages(p) == Keep([n \in 1..(NumDir * Pages) |->
                        Pte(p, (n - 1) \div Pages, (n - 1) % Pages)], User)
Tables(p)    == Keep([n \in 1..NumDir |-> PtOf(p, n - 1)], Pt \ {EmptyPt})

\* free_proc of a process that exits or is killed.  One that exits does not run
\* again: the kernel goes on to do_scheduler.
free_proc(p) ==
  /\ p \in Alive
  /\ page_ctrl' = [pgd  |-> free_pages(page_ctrl.pgd, <<page_table[p]>>),
                   pt   |-> free_pages(page_ctrl.pt, Tables(p)),
                   user |-> free_pages(page_ctrl.user, UserPages(p))]
  /\ page_table' = [page_table EXCEPT ![p] = NoPgd]
  /\ current' = IF current = p THEN NoProc ELSE current
  /\ UNCHANGED <<pgd, pt, next_pid, asid, tlb>>

Next == \/ \E v \in Vpn2 : \/ TLBexception_handler(v)
                           \/ \E h \in 1..2 : TLB_Invalid_handler(v, h)
                           \/ do_TLB_Refill(v)
        \/ do_spawn
        \/ \E p \in Pid : do_scheduler(p) \/ free_proc(p)

Spec == Init /\ [][Next]_vars
-----------------------------------------------------------------------------
Ctrl(S) == [next : Nat, free : Seq(S)]

TypeOK ==
  /\ page_ctrl \in [pgd : Ctrl(Pgd), pt : Ctrl(Pt), user : Ctrl(User)]
  /\ pgd \in [Pgd -> [Dir -> Pt]]
  /\ pt \in [Pt -> [Entry -> User \cup {Invalid}]]
  /\ page_table \in [Pid -> Pgd \cup {NoPgd}]
  /\ next_pid \in 1..(MaxPid + 1)
  /\ current \in Alive \cup {NoProc}
  /\ asid \in 0..(AsidMod - 1)
  /\ tlb \in [Index -> [vpn2 : Vpn2, asid : 0..(AsidMod - 1),
                        lo : (User \cup {Invalid}) \X (User \cup {Invalid})]
                       \cup {NoEntry}]

\* A free list holds no page twice, and only pages that have been allocated.
FreeListOK(c) == /\ \A i, j \in DOMAIN c.free : c.free[i] = c.free[j] => i = j
                 /\ \A i \in DOMAIN c.free : c.free[i] < c.next

FreeIn(c) == {c.free[i] : i \in DOMAIN c.free}

\* No page directory belongs to two processes or to a process and the free list.
DirectoriesExclusive ==
  /\ FreeListOK(page_ctrl.pgd)
  /\ \A p, q \in Alive : page_table[p] = page_table[q] => p = q
  /\ \A p \in Alive : /\ page_table[p] \notin FreeIn(page_ctrl.pgd)
                      /\ page_table[p] < page_ctrl.pgd.next

\* No page table is used by two directory entries, except the empty one, which stays
\* empty.
TablesExclusive ==
  /\ \A e \in Entry : pt[EmptyPt][e] = Invalid
  /\ FreeListOK(page_ctrl.pt)
  /\ EmptyPt \notin FreeIn(page_ctrl.pt)
  /\ \A p, q \in Alive, d, e \in Dir :
       PtOf(p, d) = PtOf(q, e) /\ PtOf(p, d) # EmptyPt => p = q /\ d = e
  /\ \A p \in Alive, d \in Dir : /\ PtOf(p, d) \notin FreeIn(page_ctrl.pt)
                                 /\ PtOf(p, d) < page_ctrl.pt.next

\* No user frame is mapped twice or both mapped and free.
FramesExclusive ==
  /\ FreeListOK(page_ctrl.user)
  /\ \A p, q \in Alive, d, e \in Dir, i, j \in Entry :
       Pte(p, d, i) = Pte(q, e, j) /\ Pte(p, d, i) # Invalid => p = q /\ d = e /\ i = j
  /\ \A p \in Alive, d \in Dir, i \in Entry : /\ Pte(p, d, i) \notin FreeIn(page_ctrl.user)
                                              /\ Pte(p, d, i) < page_ctrl.user.next

\* Processes, however often they come and go, never share or reuse memory that is
\* still in use: neither a page directory, nor a page table, nor a user page; and the
\* state is well typed.
MemoryExclusive == TypeOK /\ DirectoriesExclusive /\ TablesExclusive /\ FramesExclusive

\* The running process translates every address as its own page table does, although
\* no entry is flushed when a process is switched out or dies: it never reaches memory
\* of another process, or memory it has given back.
TlbCoherent ==
  current # NoProc =>
    \A i \in Index, h \in 1..2 :
      tlb[i] # NoEntry /\ tlb[i].asid = asid /\ tlb[i].lo[h] # Invalid
        => tlb[i].lo[h] = Lo(current, tlb[i].vpn2)[h]

\* No two entries match the same address, which the processor must not see.
TlbUnique == \A i, j \in Index :
               tlb[i] # NoEntry /\ Matches(j, tlb[i].vpn2, tlb[i].asid) => i = j

\* A page that is neither in use nor free is lost.  free_page drops the pages that do
\* not fit in the free list, and nothing else loses one.
LostUser == {f \in User : /\ f < page_ctrl.user.next
                          /\ f \notin FreeIn(page_ctrl.user)
                          /\ \A p \in Alive, d \in Dir, e \in Entry : Pte(p, d, e) # f}
LostOnlyWhenFull ==
  [][LostUser' \subseteq LostUser \/ Len(page_ctrl.user.free') = MaxFree]_vars
=============================================================================
