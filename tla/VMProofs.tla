------------------------------ MODULE VMProofs ------------------------------
(***************************************************************************)
(* Processes never share memory, and the TLB never lets one reach memory   *)
(* that is not its own, for any number of processes, any size of the page  *)
(* tables, of the free lists and of the TLB (module VM).                   *)
(*                                                                         *)
(* The three allocators are used in the same way: slots (processes,        *)
(* directory entries, page table entries) hold at most one page each, 0 is *)
(* no page.  Owned says what this means for one allocator; it is proved    *)
(* once that allocating a page for a slot and freeing the pages of some    *)
(* slots keep it, and used three times.                                    *)
(***************************************************************************)
EXTENDS VM, QueueOpsProofs

(***************************************************************************)
(* Allocator c hands out pages to the slots X.  Slot x holds page m[x], or *)
(* none if m[x] = 0.  A page is held by one slot only, and not also free.  *)
(* The slots in gone belong to dead processes: they held a page once, and  *)
(* never will again.  As a slot gets a page only once, the pages that were *)
(* ever allocated, all below c.next, are at most as many as the slots that *)
(* hold or have held one: allocation stays within the frames of the model. *)
(***************************************************************************)
Used(X, m, gone) == {x \in X : m[x] # 0} \cup gone

Owned(c, X, m, gone) ==
  /\ c \in Ctrl(1..Cardinality(X))
  /\ FreeListOK(c)
  /\ m \in [X -> 0..Cardinality(X)]
  /\ \A x, y \in X : m[x] = m[y] /\ m[x] # 0 => x = y
  /\ \A x \in X : m[x] \notin FreeIn(c) /\ m[x] < c.next
  /\ gone \subseteq X /\ \A x \in gone : m[x] = 0
  /\ 1 <= c.next /\ c.next <= 1 + Cardinality(Used(X, m, gone))

LEMMA SeqElements ==
  ASSUME NEW T, NEW s \in Seq(T)
  PROVE  \A i \in DOMAIN s : s[i] \in T
  OBVIOUS

LEMMA SeqSubset ==
  ASSUME NEW T, NEW U, T \subseteq U, NEW s \in Seq(T)
  PROVE  s \in Seq(U)
<1>1. Len(s) \in Nat /\ s \in [1..Len(s) -> U]
  BY LenProperties
<1> QED
  BY <1>1, SeqDef

\* The last element of a sequence taken off.
LEMMA PopProperties ==
  ASSUME NEW T, NEW s \in Seq(T), s # <<>>
  PROVE  /\ Len(s) \in Nat \ {0} /\ DOMAIN s = 1..Len(s) /\ s[Len(s)] \in T
         /\ LET t == SubSeq(s, 1, Len(s) - 1)
            IN  /\ t \in Seq(T) /\ DOMAIN t = 1..(Len(s) - 1)
                /\ \A i \in 1..(Len(s) - 1) : t[i] = s[i]
  OBVIOUS

\* alloc_page takes a page that is free or was never used.
LEMMA AllocProperties ==
  ASSUME NEW S \in SUBSET Int, NEW c \in Ctrl(S), FreeListOK(c)
  PROVE  LET f == page_addr(c)
             w == alloc_page(c)
         IN  /\ FreeListOK(w)
             /\ f \notin FreeIn(w) /\ f < w.next
             /\ \/ f \in FreeIn(c) /\ f \in S /\ w \in Ctrl(S) /\ w.next = c.next
                   /\ FreeIn(c) = FreeIn(w) \cup {f}
                \/ f = c.next /\ w = [next |-> c.next + 1, free |-> c.free] /\ FreeIn(c) = {}
<1> DEFINE f == page_addr(c)
           w == alloc_page(c)
<1>0. c.next \in Nat /\ c.free \in Seq(S) /\ c = [next |-> c.next, free |-> c.free]
  BY DEF Ctrl
<1>1. CASE c.free # <<>>
  <2> DEFINE n == Len(c.free)
             t == SubSeq(c.free, 1, n - 1)
  <2>1. f = c.free[n] /\ w = [next |-> c.next, free |-> t]
    BY <1>0, <1>1 DEF page_addr, alloc_page
  <2>2. /\ n \in Nat \ {0} /\ DOMAIN c.free = 1..n /\ c.free[n] \in S
        /\ t \in Seq(S) /\ DOMAIN t = 1..(n - 1) /\ \A i \in 1..(n - 1) : t[i] = c.free[i]
    BY <1>0, <1>1, PopProperties
  <2> HIDE DEF n, t, f, w
  <2>3. w \in Ctrl(S) /\ w.next = c.next /\ w.free = t
    BY <1>0, <2>1, <2>2 DEF Ctrl
  <2>4. FreeListOK(w)
    <3>1. /\ \A i, j \in 1..n : c.free[i] = c.free[j] => i = j
          /\ \A i \in 1..n : c.free[i] < c.next
      BY <2>2 DEF FreeListOK
    <3> QED
      BY <2>2, <2>3, <3>1 DEF FreeListOK
  <2>5. f \in FreeIn(c) /\ f \in S /\ f < w.next /\ f \notin FreeIn(w)
    <3>1. f = c.free[n] /\ n \in DOMAIN c.free /\ n \notin 1..(n - 1)
      BY <2>1, <2>2
    <3>2. f \in FreeIn(c) /\ f \in S /\ f < w.next
      BY <2>2, <2>3, <3>1 DEF FreeIn, FreeListOK
    <3>3. \A i \in 1..(n - 1) : t[i] # f
      BY <2>2, <3>1 DEF FreeListOK
    <3> QED
      BY <2>2, <2>3, <3>2, <3>3 DEF FreeIn
  <2>6. FreeIn(c) = FreeIn(w) \cup {f}
    <3>1. 1..n = 1..(n - 1) \cup {n}
      BY <2>2
    <3> QED
      BY <2>1, <2>2, <2>3, <3>1 DEF FreeIn
  <2> QED
    BY <2>3, <2>4, <2>5, <2>6 DEF f, w
<1>2. CASE c.free = <<>>
  <2>1. f = c.next /\ w = [next |-> c.next + 1, free |-> c.free]
    BY <1>0, <1>2 DEF page_addr, alloc_page
  <2>2. FreeIn(c) = {} /\ FreeIn(w) = {} /\ FreeListOK(w) /\ w.next = c.next + 1
    BY <1>2, <2>1 DEF FreeIn, FreeListOK
  <2> QED
    BY <1>0, <2>1, <2>2
<1> QED
  BY <1>1, <1>2

\* A slot that never held a page gets one: no other slot has it, and it is one of the
\* frames.
LEMMA OwnAlloc ==
  ASSUME NEW X, IsFiniteSet(X), NEW c, NEW m, NEW gone, Owned(c, X, m, gone),
         NEW x \in X, m[x] = 0, x \notin gone
  PROVE  /\ page_addr(c) \in 1..Cardinality(X)
         /\ \A y \in X : m[y] # page_addr(c)
         /\ Owned(alloc_page(c), X, [m EXCEPT ![x] = page_addr(c)], gone)
<1> DEFINE f == page_addr(c)
           w == alloc_page(c)
           n == Cardinality(X)
           U == Used(X, m, gone)
           m1 == [m EXCEPT ![x] = f]
<1>1. n \in Nat
  BY FS_CardinalityType
<1>2. c \in Ctrl(1..n) /\ FreeListOK(c) /\ c.next \in Nat /\ c.free \in Seq(1..n)
  BY DEF Owned, Ctrl
<1>3. /\ FreeListOK(w) /\ f \notin FreeIn(w) /\ f < w.next
      /\ \/ f \in FreeIn(c) /\ f \in 1..n /\ w \in Ctrl(1..n) /\ w.next = c.next
            /\ FreeIn(c) = FreeIn(w) \cup {f}
         \/ f = c.next /\ w = [next |-> c.next + 1, free |-> c.free] /\ FreeIn(c) = {}
  <2>1. 1..n \in SUBSET Int
    OBVIOUS
  <2> QED
    BY <1>2, <2>1, AllocProperties
<1>4. IsFiniteSet(U) /\ Cardinality(U) < n /\ Cardinality(U) \in Nat
  <2>1. U \in SUBSET X /\ x \notin U
    BY DEF Owned, Used
  <2> QED
    BY <2>1, FS_Subset, FS_CardinalityType
<1>5. f \in 1..n
  <2>1. c.next <= 1 + Cardinality(U) /\ 1 <= c.next
    BY DEF Owned
  <2> HIDE DEF f, n, U, w
  <2> QED
    BY <1>1, <1>2, <1>3, <1>4, <2>1
<1>6. \A y \in X : m[y] # f
  <2>1. \A y \in X : m[y] \notin FreeIn(c) /\ m[y] < c.next /\ m[y] \in Int
    BY <1>1 DEF Owned
  <2> HIDE DEF f, w
  <2> QED
    BY <1>2, <1>3, <2>1
<1>7. Used(X, m1, gone) = U \cup {x} /\ Cardinality(U \cup {x}) = Cardinality(U) + 1
  <2>1. f # 0 /\ DOMAIN m = X
    BY <1>5 DEF Owned
  <2>2. x \notin U
    BY DEF Used
  <2> HIDE DEF f
  <2>3. Used(X, m1, gone) = U \cup {x}
    BY <2>1 DEF Used
  <2> QED
    BY <1>4, <2>2, <2>3, FS_AddElement
<1>8. w \in Ctrl(1..n) /\ FreeIn(w) \subseteq FreeIn(c) /\ w.next \in {c.next, c.next + 1}
  <2> HIDE DEF f, w, n
  <2> QED
    <3>1. CASE w \in Ctrl(1..n) /\ w.next = c.next /\ FreeIn(c) = FreeIn(w) \cup {f}
      BY <3>1
    <3>2. CASE w = [next |-> c.next + 1, free |-> c.free]
      <4>1. w.free = c.free /\ w.next = c.next + 1
        BY <3>2
      <4> QED
        BY <1>2, <3>2, <4>1 DEF Ctrl, FreeIn
    <3> QED
      BY <1>3, <3>1, <3>2
<1> HIDE DEF f, w, n, U
<1>9. m \in [X -> 0..n] /\ m1 \in [X -> 0..n] /\ m1[x] = f /\ \A y \in X \ {x} : m1[y] = m[y]
  BY <1>1, <1>5 DEF Owned, n
<1> HIDE DEF m1
<1>10. \A y, z \in X : m1[y] = m1[z] /\ m1[y] # 0 => y = z
  BY <1>6, <1>9 DEF Owned
<1>11. \A y \in X : m1[y] \notin FreeIn(w) /\ m1[y] < w.next
  <2>1. \A y \in X \ {x} : m1[y] \notin FreeIn(c) /\ m1[y] < c.next /\ m1[y] \in Int
    BY <1>1, <1>9 DEF Owned
  <2> QED
    BY <1>1, <1>2, <1>3, <1>8, <1>9, <2>1
<1>12. gone \subseteq X /\ \A y \in gone : m1[y] = 0
  BY <1>9 DEF Owned
<1>13. 1 <= w.next /\ w.next <= 1 + Cardinality(Used(X, m1, gone))
  BY <1>2, <1>4, <1>7, <1>8 DEF Owned, U
<1>14. Owned(w, X, m1, gone)
  BY <1>3, <1>8, <1>9, <1>10, <1>11, <1>12, <1>13 DEF Owned, n
<1> QED
  BY <1>5, <1>6, <1>14 DEF f, w, m1, n

\* do_page_fault leaves a slot alone that has a page, and gives it one otherwise.
LEMMA OwnFault ==
  ASSUME NEW X, IsFiniteSet(X), NEW c, NEW m, NEW gone, Owned(c, X, m, gone),
         NEW x \in X, x \notin gone
  PROVE  LET f == do_page_fault(c, m[x])
             w == AfterFault(c, m[x])
         IN  /\ f \in 1..Cardinality(X)
             /\ m[x] # 0 => f = m[x]
             /\ Owned(w, X, [m EXCEPT ![x] = f], gone)
             /\ \A g \in FreeIn(c) : g \in FreeIn(w) \/ g = f
             /\ \A g \in Int : g < w.next => g < c.next \/ g = f
<1>0. /\ m \in [X -> 0..Cardinality(X)] /\ Cardinality(X) \in Nat /\ FreeListOK(c)
      /\ c \in Ctrl(1..Cardinality(X)) /\ c.next \in Int
  BY FS_CardinalityType DEF Owned, Ctrl
<1>1. CASE m[x] = 0
  <2>1. do_page_fault(c, m[x]) = page_addr(c) /\ AfterFault(c, m[x]) = alloc_page(c)
    BY <1>1 DEF do_page_fault, AfterFault, Invalid
  <2> DEFINE f == page_addr(c)
             w == alloc_page(c)
  <2>2. \/ w.next = c.next /\ FreeIn(c) = FreeIn(w) \cup {f}
        \/ f = c.next /\ w = [next |-> c.next + 1, free |-> c.free] /\ FreeIn(c) = {}
    BY <1>0, AllocProperties
  <2>3. /\ \A g \in FreeIn(c) : g \in FreeIn(w) \/ g = f
        /\ \A g \in Int : g < w.next => g < c.next \/ g = f
    <3> HIDE DEF f, w
    <3>1. CASE w.next = c.next /\ FreeIn(c) = FreeIn(w) \cup {f}
      BY <3>1
    <3>2. CASE f = c.next /\ w.next = c.next + 1 /\ FreeIn(c) = {}
      BY <1>0, <3>2
    <3> QED
      BY <2>2, <3>1, <3>2
  <2> QED
    BY <1>1, <2>1, <2>3, OwnAlloc
<1>2. CASE m[x] # 0
  <2>2. [m EXCEPT ![x] = m[x]] = m
    BY <1>0
  <2>3. do_page_fault(c, m[x]) = m[x] /\ AfterFault(c, m[x]) = c
    BY <1>2 DEF do_page_fault, AfterFault, Invalid
  <2>4. m[x] \in 1..Cardinality(X)
    BY <1>0, <1>2
  <2> QED
    BY <2>2, <2>3, <2>4
<1> QED
  BY <1>1, <1>2

\* free_page adds pages to the free list as long as there is room.
LEMMA FreeProperties ==
  ASSUME NEW S \in SUBSET Int, NEW c \in Ctrl(S), FreeListOK(c),
         NEW s \in Seq(S), IsInjective(s),
         \A f \in Range(s) : f \notin FreeIn(c) /\ f < c.next
  PROVE  LET w == free_pages(c, s)
         IN  /\ w \in Ctrl(S) /\ w.next = c.next /\ FreeListOK(w)
             /\ FreeIn(w) \subseteq FreeIn(c) \cup Range(s)
             /\ FreeIn(w) = FreeIn(c) \cup Range(s) \/ Len(w.free) = MaxFree
<1> DEFINE u == c.free \o s
           n == Len(c.free) + Len(s)
           k == IF n <= MaxFree THEN n ELSE MaxFree
           t == SubSeq(u, 1, k)
           w == free_pages(c, s)
<1>0. c.next \in Nat /\ c.free \in Seq(S) /\ c = [next |-> c.next, free |-> c.free]
  BY DEF Ctrl
<1>1. w = [next |-> c.next, free |-> t]
  <2>1. w = [c EXCEPT !.free = t]
    BY DEF free_pages
  <2> QED
    BY <1>0, <2>1
<1>2. FreeIn(c) = Range(c.free) /\ IsInjective(c.free)
  BY DEF FreeIn, Range, FreeListOK, IsInjective
<1>3. u \in Seq(S) /\ Range(u) = FreeIn(c) \cup Range(s) /\ IsInjective(u)
  BY <1>0, <1>2, ConcatQueue
<1>4. Len(u) = n /\ n \in Nat /\ DOMAIN u = 1..n
  BY <1>0
<1>5. k \in Nat /\ k <= n
  BY <1>4, VMAssumption
<1> HIDE DEF u, n, k, w
<1>6. t \in Seq(S) /\ Len(t) = k /\ DOMAIN t = 1..k /\ \A i \in 1..k : t[i] = u[i]
  BY <1>3, <1>4, <1>5
<1> HIDE DEF t
<1>7. w \in Ctrl(S) /\ w.next = c.next /\ w.free = t
  BY <1>0, <1>1, <1>6 DEF Ctrl
<1>8. \A i \in 1..n : u[i] \in FreeIn(c) \cup Range(s) /\ u[i] < c.next
  <2>1. \A i \in 1..n : u[i] \in FreeIn(c) \cup Range(s)
    BY <1>3, <1>4 DEF Range
  <2>2. \A f \in FreeIn(c) : f < c.next
    BY DEF FreeIn, FreeListOK
  <2> QED
    BY <2>1, <2>2
<1>9. FreeListOK(w)
  BY <1>3, <1>4, <1>5, <1>6, <1>7, <1>8 DEF FreeListOK, IsInjective
<1>10. FreeIn(w) \subseteq FreeIn(c) \cup Range(s)
  BY <1>5, <1>4, <1>6, <1>7, <1>8 DEF FreeIn
<1>11. FreeIn(w) = FreeIn(c) \cup Range(s) \/ Len(w.free) = MaxFree
  <2>1. CASE n <= MaxFree
    <3>1. k = n
      BY <2>1 DEF k
    <3>2. Range(u) \subseteq FreeIn(w)
      BY <1>4, <1>6, <1>7, <3>1 DEF FreeIn, Range
    <3> QED
      BY <1>3, <1>10, <3>2
  <2>2. CASE ~(n <= MaxFree)
    BY <1>6, <1>7, <2>2 DEF k
  <2> QED
    BY <2>1, <2>2
<1> QED
  BY <1>7, <1>9, <1>10, <1>11 DEF w

\* The slots in D lose their pages to the free list and are gone.
LEMMA OwnFree ==
  ASSUME NEW X, IsFiniteSet(X), NEW c, NEW m, NEW gone, Owned(c, X, m, gone),
         NEW D \in SUBSET X, NEW s \in Seq(1..Cardinality(X)), IsInjective(s),
         Range(s) = {m[x] : x \in D} \ {0}
  PROVE  Owned(free_pages(c, s), X, [x \in X |-> IF x \in D THEN 0 ELSE m[x]], gone \cup D)
<1> DEFINE w == free_pages(c, s)
           n == Cardinality(X)
           m1 == [x \in X |-> IF x \in D THEN 0 ELSE m[x]]
           U == Used(X, m, gone)
           U1 == Used(X, m1, gone \cup D)
<1>1. n \in Nat
  BY FS_CardinalityType
<1>2. c \in Ctrl(1..n) /\ FreeListOK(c) /\ c.next \in Nat /\ m \in [X -> 0..n]
  BY DEF Owned, Ctrl
<1>3. \A f \in Range(s) : f \notin FreeIn(c) /\ f < c.next
  BY DEF Owned
<1>4. /\ w \in Ctrl(1..n) /\ w.next = c.next /\ FreeListOK(w)
      /\ FreeIn(w) \subseteq FreeIn(c) \cup Range(s)
  <2>1. 1..n \in SUBSET Int
    OBVIOUS
  <2> QED
    BY <1>2, <1>3, <2>1, FreeProperties
<1> HIDE DEF w, n
<1>5. m1 \in [X -> 0..n] /\ \A x \in X : m1[x] = IF x \in D THEN 0 ELSE m[x]
  BY <1>1, <1>2
<1> HIDE DEF m1
<1>6. \A x, y \in X : m1[x] = m1[y] /\ m1[x] # 0 => x = y
  BY <1>5 DEF Owned
<1>7. \A x \in X : m1[x] \notin FreeIn(w) /\ m1[x] < w.next
  <2> SUFFICES ASSUME NEW x \in X PROVE m1[x] \notin FreeIn(w) /\ m1[x] < w.next
    OBVIOUS
  <2>1. CASE m1[x] = 0
    <3>1. 0 \notin FreeIn(w)
      <4>1. w.free \in Seq(1..n)
        BY <1>4 DEF Ctrl
      <4>2. \A i \in DOMAIN w.free : w.free[i] \in 1..n
        BY <4>1, SeqElements
      <4> QED
        BY <1>1, <4>2 DEF FreeIn
    <3>2. 0 < c.next
      BY <1>2 DEF Owned
    <3> QED
      BY <1>4, <2>1, <3>1, <3>2
  <2>2. CASE m1[x] # 0
    <3>1. m1[x] = m[x] /\ x \notin D
      BY <1>5, <2>2
    <3>2. m[x] \notin FreeIn(c) /\ m[x] < c.next
      BY DEF Owned
    <3>3. m[x] \notin Range(s)
      BY <2>2, <3>1 DEF Owned
    <3> QED
      BY <1>4, <3>1, <3>2, <3>3
  <2> QED
    BY <2>1, <2>2
<1>8. gone \cup D \subseteq X /\ \A x \in gone \cup D : m1[x] = 0
  BY <1>5 DEF Owned
<1>9. c.next <= 1 + Cardinality(U1)
  <2>1. U \subseteq U1 /\ U1 \subseteq X
    BY <1>5, <1>8 DEF Used
  <2>2. IsFiniteSet(U1) /\ Cardinality(U1) \in Nat
    BY <2>1, FS_Subset, FS_CardinalityType
  <2>3. Cardinality(U) \in Nat /\ Cardinality(U) <= Cardinality(U1)
    BY <2>1, <2>2, FS_Subset, FS_CardinalityType
  <2>4. c.next <= 1 + Cardinality(U)
    BY DEF Owned
  <2> HIDE DEF U, U1
  <2> QED
    BY <1>2, <2>2, <2>3, <2>4
<1> QED
  BY <1>4, <1>5, <1>6, <1>7, <1>8, <1>9 DEF Owned, w, n, m1
-----------------------------------------------------------------------------
(***************************************************************************)
(* The inductive invariant.                                                *)
(***************************************************************************)
Slot == Pid \X Dir          \* directory entries
Cell == Slot \X Entry       \* page table entries

\* Processes that are dead, and what belonged to them.
Gone      == {p \in Pid : p < next_pid /\ p \notin Alive}
GoneSlots == {x \in Slot : x[1] \in Gone}
GoneCells == {y \in Cell : y[1][1] \in Gone}

TableMap == [x \in Slot |-> IF x[1] \in Alive THEN PtOf(x[1], x[2]) ELSE EmptyPt]
FrameMap == [y \in Cell |-> IF y[1][1] \in Alive THEN Pte(y[1][1], y[1][2], y[2]) ELSE Invalid]

Typed ==
  /\ page_ctrl = [pgd |-> page_ctrl.pgd, pt |-> page_ctrl.pt, user |-> page_ctrl.user]
  /\ pgd \in [Pgd -> [Dir -> Pt]]
  /\ pt \in [Pt -> [Entry -> User \cup {Invalid}]]
  /\ page_table \in [Pid -> Pgd \cup {NoPgd}]
  /\ next_pid \in 1..(MaxPid + 1)
  /\ current \in Alive \cup {NoProc}
  /\ asid \in 0..(AsidMod - 1)

MemInv ==
  /\ Typed
  /\ \A e \in Entry : pt[EmptyPt][e] = Invalid
  /\ \A p \in Alive : p < next_pid
  /\ Owned(page_ctrl.pgd, Pid, page_table, Gone)
  /\ Owned(page_ctrl.pt, Slot, TableMap, GoneSlots)
  /\ Owned(page_ctrl.user, Cell, FrameMap, GoneCells)

\* Every entry of the TLB belongs to a process that was started; if that process is
\* alive, its valid halves are what its page table says.  TlbCoherent needs this for
\* every process, not only for the running one.
EntryOK(e) ==
  /\ e.asid \in Pid /\ e.asid < next_pid
  /\ e.asid \in Alive =>
       \A h \in 1..2 : e.lo[h] # Invalid => e.lo[h] = Lo(e.asid, e.vpn2)[h]

TlbInv ==
  /\ tlb \in [Index -> [vpn2 : Vpn2, asid : 0..(AsidMod - 1),
                        lo : (User \cup {Invalid}) \X (User \cup {Invalid})] \cup {NoEntry}]
  /\ current # NoProc => asid = current
  /\ \A i \in Index : tlb[i] # NoEntry => EntryOK(tlb[i])
  /\ TlbUnique

VMInv == MemInv /\ TlbInv

LEMMA Sizes ==
  /\ IsFiniteSet(Pid) /\ Cardinality(Pid) = MaxPid /\ Pgd = 1..MaxPid
  /\ IsFiniteSet(Slot) /\ Cardinality(Slot) = MaxPid * NumDir
  /\ Pt = 0..Cardinality(Slot) /\ Cardinality(Slot) \in Nat
  /\ IsFiniteSet(Cell) /\ User = 1..Cardinality(Cell) /\ Cardinality(Cell) \in Nat
  /\ Pages \in Nat \ {0}
<1>1. Pages \in Nat \ {0}
  BY VMAssumption DEF Pages
<1>2. IsFiniteSet(Pid) /\ Cardinality(Pid) = MaxPid
  BY VMAssumption, FS_Interval DEF Pid
<1>3. IsFiniteSet(Dir) /\ Cardinality(Dir) = NumDir
  <2>1. IsFiniteSet(Dir) /\ Cardinality(Dir) = IF 0 > NumDir - 1 THEN 0 ELSE (NumDir - 1) - 0 + 1
    BY VMAssumption, FS_Interval DEF Dir
  <2> QED
    BY <2>1, VMAssumption
<1>4. IsFiniteSet(Entry) /\ Cardinality(Entry) = Pages
  <2>1. IsFiniteSet(Entry) /\ Cardinality(Entry) = IF 0 > Pages - 1 THEN 0 ELSE (Pages - 1) - 0 + 1
    BY <1>1, FS_Interval DEF Entry
  <2> QED
    BY <1>1, <2>1
<1>5. IsFiniteSet(Slot) /\ Cardinality(Slot) = MaxPid * NumDir
  BY <1>2, <1>3, FS_Product DEF Slot
<1>6. IsFiniteSet(Cell) /\ Cardinality(Cell) = MaxPid * NumDir * Pages
  BY <1>4, <1>5, FS_Product DEF Cell
<1>7. Cardinality(Slot) \in Nat /\ Cardinality(Cell) \in Nat
  BY <1>5, <1>6, FS_CardinalityType
<1> QED
  BY <1>1, <1>2, <1>5, <1>6, <1>7 DEF Pgd, Pt, User

\* What the inductive invariant says in the terms of module VM.
LEMMA MemImplies == VMInv => MemoryExclusive
<1> SUFFICES ASSUME VMInv
             PROVE  MemoryExclusive
  OBVIOUS
<1> USE DEF VMInv, MemInv
<1>1. TypeOK
  <2>1. page_ctrl \in [pgd : Ctrl(Pgd), pt : Ctrl(Pt), user : Ctrl(User)]
    <3>1. page_ctrl.pgd \in Ctrl(Pgd) /\ page_ctrl.user \in Ctrl(User)
      BY Sizes DEF Owned
    <3>2. page_ctrl.pt \in Ctrl(1..Cardinality(Slot)) /\ 1..Cardinality(Slot) \subseteq Pt
      BY Sizes DEF Owned
    <3>3. page_ctrl.pt \in Ctrl(Pt)
      <4>1. page_ctrl.pt.free \in Seq(1..Cardinality(Slot))
        BY <3>2 DEF Ctrl
      <4>2. page_ctrl.pt.free \in Seq(Pt)
        BY <3>2, <4>1, SeqSubset
      <4> QED
        BY <3>2, <4>2 DEF Ctrl
    <3> QED
      BY <3>1, <3>3 DEF Typed
  <2> QED
    BY <2>1 DEF TypeOK, Typed, TlbInv
<1>2. DirectoriesExclusive
  <2>1. Alive \subseteq Pid /\ \A p \in Alive : page_table[p] # 0
    BY DEF Alive, NoPgd
  <2> QED
    BY <2>1 DEF DirectoriesExclusive, Owned
<1>3. \A p \in Alive, d \in Dir : <<p, d>> \in Slot /\ TableMap[<<p, d>>] = PtOf(p, d)
  BY DEF Alive, Slot, TableMap
<1>4. \A p \in Alive, d \in Dir, e \in Entry :
        <<<<p, d>>, e>> \in Cell /\ FrameMap[<<<<p, d>>, e>>] = Pte(p, d, e)
  BY <1>3 DEF Cell, FrameMap
<1>5. TablesExclusive
  <2>1. \A p, q \in Alive, d, e \in Dir :
          PtOf(p, d) = PtOf(q, e) /\ PtOf(p, d) # EmptyPt => p = q /\ d = e
    <3> SUFFICES ASSUME NEW p \in Alive, NEW q \in Alive, NEW d \in Dir, NEW e \in Dir,
                        PtOf(p, d) = PtOf(q, e), PtOf(p, d) # EmptyPt
                 PROVE  p = q /\ d = e
      OBVIOUS
    <3>1. <<p, d>> = <<q, e>>
      BY <1>3 DEF Owned, EmptyPt
    <3> QED
      BY <3>1
  <2>2. EmptyPt \notin FreeIn(page_ctrl.pt)
    <3>1. page_ctrl.pt.free \in Seq(1..Cardinality(Slot))
      BY DEF Owned, Ctrl
    <3>2. \A i \in DOMAIN page_ctrl.pt.free : page_ctrl.pt.free[i] \in 1..Cardinality(Slot)
      BY <3>1, SeqElements
    <3> QED
      BY <3>2, Sizes DEF FreeIn, EmptyPt
  <2>3. \A p \in Alive, d \in Dir : PtOf(p, d) \notin FreeIn(page_ctrl.pt)
                                     /\ PtOf(p, d) < page_ctrl.pt.next
    BY <1>3 DEF Owned
  <2> QED
    BY <2>1, <2>2, <2>3 DEF TablesExclusive, Owned
<1>6. FramesExclusive
  <2>1. ASSUME NEW p \in Alive, NEW q \in Alive, NEW d \in Dir, NEW e \in Dir,
               NEW i \in Entry, NEW j \in Entry,
               Pte(p, d, i) = Pte(q, e, j), Pte(p, d, i) # Invalid
        PROVE  p = q /\ d = e /\ i = j
    <3> DEFINE x == <<<<p, d>>, i>>
               y == <<<<q, e>>, j>>
    <3>0. x \in Cell /\ y \in Cell /\ FrameMap[x] = FrameMap[y] /\ FrameMap[x] # 0
      BY <1>4, <2>1 DEF Invalid
    <3>1. x = y
      <4> HIDE DEF x, y
      <4> QED
        BY <3>0 DEF Owned
    <3> QED
      BY <3>1
  <2>2. \A p \in Alive, d \in Dir, i \in Entry : Pte(p, d, i) \notin FreeIn(page_ctrl.user)
                                                  /\ Pte(p, d, i) < page_ctrl.user.next
    BY <1>4 DEF Owned
  <2> QED
    BY <2>1, <2>2 DEF FramesExclusive, Owned
<1> QED
  BY <1>1, <1>2, <1>5, <1>6 DEF MemoryExclusive

LEMMA TlbImplies == VMInv => TlbCoherent
<1> SUFFICES ASSUME VMInv, current # NoProc, NEW i \in Index, NEW h \in 1..2,
                    tlb[i] # NoEntry, tlb[i].asid = asid, tlb[i].lo[h] # Invalid
             PROVE  tlb[i].lo[h] = Lo(current, tlb[i].vpn2)[h]
  BY DEF TlbCoherent
<1>1. current \in Alive /\ asid = current
  BY DEF VMInv, MemInv, Typed, TlbInv
<1> QED
  BY <1>1 DEF VMInv, TlbInv, EntryOK
-----------------------------------------------------------------------------
LEMMA InitVM == Init => VMInv
<1> SUFFICES ASSUME Init
             PROVE  VMInv
  OBVIOUS
<1>1. Alive = {} /\ Gone = {} /\ GoneSlots = {} /\ GoneCells = {}
  BY VMAssumption DEF Init, Alive, Gone, GoneSlots, GoneCells, Pid
<1>2. /\ page_ctrl.pgd = [next |-> 1, free |-> <<>>]
      /\ page_ctrl.pt = [next |-> 1, free |-> <<>>]
      /\ page_ctrl.user = [next |-> 1, free |-> <<>>]
  BY DEF Init, page_ctrl_init, alloc_page
<1>3. Typed
  BY <1>2, Sizes, VMAssumption DEF Init, Typed, Invalid, EmptyPt, NoProc
<1>4. \A e \in Entry : pt[EmptyPt][e] = Invalid
  BY Sizes DEF Init, EmptyPt
<1>5. ASSUME NEW X, IsFiniteSet(X), NEW m, m = [x \in X |-> 0]
      PROVE  Owned([next |-> 1, free |-> <<>>], X, m, {})
  <2>1. Cardinality(X) \in Nat
    BY <1>5, FS_CardinalityType
  <2>2. Used(X, m, {}) = {}
    BY <1>5 DEF Used
  <2>3. Cardinality(Used(X, m, {})) = 0
    BY <2>2, FS_EmptySet
  <2> QED
    BY <1>5, <2>1, <2>3 DEF Owned, Ctrl, FreeListOK, FreeIn
<1>6. page_table = [p \in Pid |-> 0]
  BY DEF Init, NoPgd
<1>7. TableMap = [x \in Slot |-> 0] /\ FrameMap = [y \in Cell |-> 0]
  BY <1>1 DEF TableMap, FrameMap, EmptyPt, Invalid
<1>8. MemInv
  BY <1>1, <1>2, <1>3, <1>4, <1>5, <1>6, <1>7, Sizes DEF MemInv
<1>9. TlbInv
  BY DEF Init, TlbInv, TlbUnique
<1> QED
  BY <1>8, <1>9 DEF VMInv

\* The memory is not touched, and the processes stay what they are.
memory == <<page_ctrl, pgd, pt, page_table, next_pid>>

LEMMA MemFrame ==
  ASSUME MemInv, UNCHANGED memory, current' \in Alive \cup {NoProc}, asid' \in 0..(AsidMod - 1)
  PROVE  MemInv' /\ Alive' = Alive /\ \A p, v : Lo(p, v)' = Lo(p, v)
<1>1. /\ page_ctrl' = page_ctrl /\ pgd' = pgd /\ pt' = pt /\ page_table' = page_table
      /\ next_pid' = next_pid
  BY DEF memory
<1>2. Alive' = Alive
  BY <1>1 DEF Alive
<1>3. Gone' = Gone /\ GoneSlots' = GoneSlots /\ GoneCells' = GoneCells
  BY <1>1, <1>2 DEF Gone, GoneSlots, GoneCells
<1>4. TableMap' = TableMap /\ FrameMap' = FrameMap
  BY <1>1, <1>2 DEF TableMap, FrameMap, PtOf, Pte
<1>5. Typed'
  BY <1>1, <1>2 DEF MemInv, Typed
<1>6. MemInv'
  BY <1>1, <1>2, <1>3, <1>4, <1>5 DEF MemInv
<1>7. \A p, v : Lo(p, v)' = Lo(p, v)
  BY <1>1 DEF Lo, Pte, PtOf
<1> QED
  BY <1>2, <1>6, <1>7

LEMMA SchedulerVM ==
  ASSUME VMInv, NEW p \in Pid, do_scheduler(p)
  PROVE  VMInv'
<1>1. p \in Alive /\ current' = p /\ asid' = p % AsidMod /\ UNCHANGED memory /\ tlb' = tlb
  BY DEF do_scheduler, memory
<1>2. asid' = p /\ p \in 0..(AsidMod - 1)
  BY <1>1, VMAssumption DEF Pid
<1>3. MemInv' /\ Alive' = Alive /\ \A q, v : Lo(q, v)' = Lo(q, v)
  BY <1>1, <1>2, MemFrame DEF VMInv
<1>4. TlbInv'
  BY <1>1, <1>2, <1>3 DEF VMInv, TlbInv, EntryOK, TlbUnique, Matches, memory, Lo, Pte, PtOf
<1> QED
  BY <1>3, <1>4 DEF VMInv

\* An entry for pair v of the running process is written over another one or where the
\* pair was found.
LEMMA TlbWrite ==
  ASSUME TlbInv, current # NoProc, current \in Alive, NEW v \in Vpn2,
         NEW lo \in (User \cup {Invalid}) \X (User \cup {Invalid}),
         NEW n \in Index, tlb' = [tlb EXCEPT ![n] = TlbEntry(v, lo)],
         \A i \in Hit(v) : i = n,
         asid' = asid, current' = current, next_pid' = next_pid, Alive' = Alive,
         current < next_pid, current \in Pid, asid \in 0..(AsidMod - 1),
         \A h \in 1..2 : Lo(current, v)'[h] = lo[h],
         \A q \in Alive, u \in Vpn2, h \in 1..2 :
           Lo(q, u)[h] # Invalid => Lo(q, u)'[h] = Lo(q, u)[h]
  PROVE  TlbInv'
<1> DEFINE Entries == [vpn2 : Vpn2, asid : 0..(AsidMod - 1),
                       lo : (User \cup {Invalid}) \X (User \cup {Invalid})]
           e == TlbEntry(v, lo)
<1>1. e \in Entries /\ e.vpn2 = v /\ e.asid = asid /\ e.lo = lo /\ asid = current
  BY DEF TlbEntry, TlbInv
<1>3. e # NoEntry
  <2>1. e.asid # 0 /\ NoEntry.asid = 0
    BY <1>1 DEF Pid, NoEntry
  <2> QED
    BY <2>1
<1>4. tlb' \in [Index -> Entries \cup {NoEntry}]
  BY <1>1 DEF TlbInv
<1>5. tlb'[n] = e /\ \A i \in Index \ {n} : tlb'[i] = tlb[i]
  BY DEF TlbInv
<1> HIDE DEF e
<1>6. ASSUME NEW i \in Index, tlb'[i] # NoEntry
      PROVE  EntryOK(tlb[i])'
  <2>1. PICK x : x = tlb'[i]
    OBVIOUS
  <2>2. EntryOK(x)'
    <3>1. CASE i = n
      <4>1. x.asid = current /\ x.vpn2 = v /\ x.lo = lo
        BY <1>1, <1>5, <2>1, <3>1
      <4>2. PICK c : c = current
        OBVIOUS
      <4>3. \A h \in 1..2 : Lo(x.asid, x.vpn2)'[h] = lo[h]
        BY <4>1, <4>2 DEF Lo, Pte, PtOf
      <4> QED
        BY <4>1, <4>3 DEF EntryOK
    <3>2. CASE i # n
      <4>1. x = tlb[i] /\ x \in Entries /\ EntryOK(x)
        BY <1>5, <1>6, <2>1, <3>2 DEF TlbInv
      <4>2. x.vpn2 \in Vpn2
        BY <4>1
      <4> QED
        BY <4>1, <4>2 DEF EntryOK
    <3> QED
      BY <3>1, <3>2
  <2> QED
    BY <2>1, <2>2 DEF EntryOK, Lo, Pte, PtOf
<1>7. ASSUME NEW i \in Index, NEW j \in Index, tlb'[i] # NoEntry,
             tlb'[j].vpn2 = tlb'[i].vpn2, tlb'[j].asid = tlb'[i].asid
      PROVE  i = j
  <2>1. \A k \in Index : tlb[k].vpn2 = v /\ tlb[k].asid = asid => k = n
    BY DEF Hit, Matches
  <2>2. CASE i = n
    BY <1>1, <1>5, <1>7, <2>1, <2>2
  <2>3. CASE i # n /\ j = n
    BY <1>1, <1>5, <1>7, <2>1, <2>3
  <2>4. CASE i # n /\ j # n
    BY <1>5, <1>7, <2>4 DEF TlbInv, TlbUnique, Matches
  <2> QED
    BY <2>2, <2>3, <2>4
<1>8. TlbUnique'
  BY <1>7 DEF TlbUnique, Matches
<1> QED
  BY <1>1, <1>4, <1>6, <1>8 DEF TlbInv

\* The TLB is not touched, and what a process that lives on maps stays mapped.
LEMMA TlbFrame ==
  ASSUME TlbInv, tlb' = tlb, asid' = asid, current' \in {current, NoProc},
         next_pid \in Nat, next_pid' \in Nat, next_pid' >= next_pid, Pid \subseteq Nat,
         \A q \in Pid : q < next_pid /\ q \in Alive' =>
           q \in Alive /\ \A u \in Vpn2, h \in 1..2 : Lo(q, u)'[h] = Lo(q, u)[h]
  PROVE  TlbInv'
<1>1. ASSUME NEW i \in Index, tlb'[i] # NoEntry
      PROVE  EntryOK(tlb[i])'
  <2>1. PICK x : x = tlb[i]
    OBVIOUS
  <2>2. x.vpn2 \in Vpn2 /\ EntryOK(x)
    BY <1>1, <2>1 DEF TlbInv
  <2>3. x.asid \in Pid /\ x.asid < next_pid /\ x.asid < next_pid'
    <3>1. x.asid \in Pid /\ x.asid < next_pid
      BY <2>2 DEF EntryOK
    <3>2. x.asid \in Nat
      BY <3>1
    <3> QED
      BY <3>1, <3>2
  <2>4. ASSUME x.asid \in Alive', NEW h \in 1..2, x.lo[h] # Invalid
        PROVE  x.lo[h] = Lo(x.asid, x.vpn2)'[h]
    <3>1. x.asid \in Alive /\ Lo(x.asid, x.vpn2)'[h] = Lo(x.asid, x.vpn2)[h]
      BY <2>2, <2>3, <2>4
    <3> QED
      BY <2>2, <2>4, <3>1 DEF EntryOK
  <2>5. EntryOK(x)'
    BY <2>3, <2>4 DEF EntryOK
  <2> QED
    BY <2>1, <2>5 DEF EntryOK, Lo, Pte, PtOf
<1>2. TlbUnique'
  BY DEF TlbInv, TlbUnique, Matches
<1> QED
  BY <1>1, <1>2 DEF TlbInv

LEMMA RefillVM ==
  ASSUME VMInv, NEW v \in Vpn2, TLBexception_handler(v)
  PROVE  VMInv'
<1>1. /\ current # NoProc /\ current \in Alive /\ current \in Pid /\ current < next_pid
      /\ asid \in 0..(AsidMod - 1) /\ asid' = asid /\ current' = current
      /\ UNCHANGED memory /\ Hit(v) = {}
  BY DEF TLBexception_handler, VMInv, MemInv, Typed, Alive, memory
<1>2. MemInv' /\ Alive' = Alive /\ \A p, u : Lo(p, u)' = Lo(p, u)
  BY <1>1, MemFrame DEF VMInv
<1>3. PICK n \in Index : tlb' = [tlb EXCEPT ![n] = TlbEntry(v, Lo(current, v))]
  BY DEF TLBexception_handler, tlbwr
<1>4. Lo(current, v) \in (User \cup {Invalid}) \X (User \cup {Invalid})
  <2>1. page_table[current] \in Pgd /\ v[1] \in Dir /\ v[2] \in Pair
    BY <1>1 DEF VMInv, MemInv, Typed, Alive, Vpn2
  <2>2. PtOf(current, v[1]) \in Pt
    BY <2>1 DEF VMInv, MemInv, Typed, PtOf
  <2>3. 2 * v[2] \in Entry /\ 2 * v[2] + 1 \in Entry
    BY <2>1, VMAssumption DEF Pair, Entry, Pages
  <2>4. Pte(current, v[1], 2 * v[2]) \in User \cup {Invalid}
        /\ Pte(current, v[1], 2 * v[2] + 1) \in User \cup {Invalid}
    BY <2>2, <2>3 DEF VMInv, MemInv, Typed, Pte
  <2> QED
    BY <2>4 DEF Lo
<1>5. \A h \in 1..2 : Lo(current, v)'[h] = Lo(current, v)[h]
  BY <1>1 DEF Lo, Pte, PtOf, memory
<1>6. next_pid' = next_pid
  BY <1>1 DEF memory
<1>7. TlbInv'
  BY <1>1, <1>2, <1>3, <1>4, <1>5, <1>6, TlbWrite DEF VMInv
<1> QED
  BY <1>2, <1>7 DEF VMInv

LEMMA SpawnVM ==
  ASSUME VMInv, do_spawn
  PROVE  VMInv' /\ FrameMap' = FrameMap /\ page_ctrl'.user = page_ctrl.user
<1>n. PICK n : n = next_pid
  OBVIOUS
<1>f. PICK f : f = page_addr(page_ctrl.pgd)
  OBVIOUS
<1>0. MemInv /\ Typed /\ TlbInv
  BY DEF VMInv, MemInv
<1>1. /\ n \in Pid /\ n \in Nat /\ next_pid' = n + 1
      /\ page_table' = [page_table EXCEPT ![n] = f]
      /\ pgd' = [pgd EXCEPT ![f] = [d \in Dir |-> EmptyPt]]
      /\ page_ctrl' = [page_ctrl EXCEPT !.pgd = alloc_page(@)]
      /\ pt' = pt /\ current' = current /\ asid' = asid /\ tlb' = tlb
  BY <1>0, <1>n, <1>f DEF do_spawn, Typed
<1>2. n \notin Alive /\ page_table[n] = 0 /\ n \notin Gone
  BY <1>n, <1>1 DEF VMInv, MemInv, Alive, Gone, NoPgd
<1>3. /\ f \in 1..MaxPid /\ \A q \in Pid : page_table[q] # f
      /\ Owned(alloc_page(page_ctrl.pgd), Pid, page_table', Gone)
  <2>1. Owned(page_ctrl.pgd, Pid, page_table, Gone)
    BY DEF VMInv, MemInv
  <2> QED
    BY <1>f, <1>1, <1>2, <2>1, OwnAlloc, Sizes
<1>4. /\ page_ctrl'.pgd = alloc_page(page_ctrl.pgd) /\ page_ctrl'.pt = page_ctrl.pt
      /\ page_ctrl'.user = page_ctrl.user
      /\ page_ctrl' = [pgd |-> page_ctrl'.pgd, pt |-> page_ctrl'.pt, user |-> page_ctrl'.user]
  BY <1>0, <1>1 DEF Typed
<1>5. page_table' \in [Pid -> Pgd \cup {NoPgd}] /\ page_table'[n] = f
      /\ \A q \in Pid \ {n} : page_table'[q] = page_table[q]
  BY <1>0, <1>1, <1>3, Sizes DEF Typed
<1>6. Alive' = Alive \cup {n}
  BY <1>1, <1>3, <1>5 DEF Alive, NoPgd
<1>7. Gone' = Gone
  BY <1>n, <1>1, <1>2, <1>6 DEF Gone, Pid
<1>8. GoneSlots' = GoneSlots /\ GoneCells' = GoneCells
  BY <1>7 DEF GoneSlots, GoneCells
<1>9. /\ pgd' \in [Pgd -> [Dir -> Pt]] /\ pgd'[f] = [d \in Dir |-> EmptyPt]
      /\ \A g \in Pgd \ {f} : pgd'[g] = pgd[g]
  BY <1>0, <1>1, <1>3, Sizes DEF Typed, EmptyPt
<1>10. /\ \A q \in Alive, d \in Dir : PtOf(q, d)' = PtOf(q, d)
       /\ \A d \in Dir : PtOf(n, d)' = EmptyPt
  <2>1. ASSUME NEW q \in Alive, NEW d \in Dir
        PROVE  PtOf(q, d)' = PtOf(q, d)
    <3>1. q \in Pid /\ q # n /\ page_table[q] \in Pgd \ {f}
      BY <1>0, <1>2, <1>3 DEF Typed, Alive, NoPgd
    <3> QED
      BY <1>5, <1>9, <3>1 DEF PtOf
  <2>2. ASSUME NEW d \in Dir
        PROVE  pgd'[page_table'[n]][d] = EmptyPt
    BY <1>5, <1>9
  <2> QED
    BY <2>1, <2>2 DEF PtOf
<1>11. TableMap' = TableMap
  <2>1. ASSUME NEW x \in Slot
        PROVE  (IF x[1] \in Alive' THEN PtOf(x[1], x[2])' ELSE EmptyPt)
                 = IF x[1] \in Alive THEN PtOf(x[1], x[2]) ELSE EmptyPt
    <3>1. x[1] \in Pid /\ x[2] \in Dir
      BY DEF Slot
    <3> QED
      BY <1>2, <1>6, <1>10, <3>1
  <2> QED
    BY <2>1 DEF TableMap
<1>12. \A q \in Alive, d \in Dir, e \in Entry : Pte(q, d, e)' = Pte(q, d, e)
  BY <1>1, <1>10 DEF Pte
<1>13. \A d \in Dir, e \in Entry : Pte(n, d, e)' = Invalid
  BY <1>1, <1>10 DEF Pte, VMInv, MemInv
<1>14. FrameMap' = FrameMap
  <2>1. ASSUME NEW y \in Cell
        PROVE  (IF y[1][1] \in Alive' THEN Pte(y[1][1], y[1][2], y[2])' ELSE Invalid)
                 = IF y[1][1] \in Alive THEN Pte(y[1][1], y[1][2], y[2]) ELSE Invalid
    <3>1. y[1][1] \in Pid /\ y[1][2] \in Dir /\ y[2] \in Entry
      BY DEF Slot, Cell
    <3> QED
      BY <1>2, <1>6, <1>12, <1>13, <3>1
  <2> QED
    BY <2>1 DEF FrameMap
<1>15. Typed'
  <2>1. next_pid' \in 1..(MaxPid + 1)
    BY <1>1, VMAssumption DEF Pid
  <2>2. current' \in Alive' \cup {NoProc}
    BY <1>0, <1>1, <1>6 DEF Typed
  <2> QED
    BY <1>0, <1>1, <1>4, <1>5, <1>9, <2>1, <2>2 DEF Typed
<1>16. MemInv'
  <2>1. \A q \in Alive' : q < next_pid'
    BY <1>n, <1>1, <1>6 DEF VMInv, MemInv, Alive, Pid
  <2> QED
    BY <1>1, <1>3, <1>4, <1>7, <1>8, <1>11, <1>14, <1>15, <2>1 DEF VMInv, MemInv
<1>17. TlbInv'
  <2>1. \A q \in Pid : q < next_pid /\ q \in Alive' =>
          q \in Alive /\ \A u \in Vpn2, h \in 1..2 : Lo(q, u)'[h] = Lo(q, u)[h]
    <3> SUFFICES ASSUME NEW q \in Pid, q < next_pid, q \in Alive'
                 PROVE  q \in Alive /\ \A u \in Vpn2, h \in 1..2 : Lo(q, u)'[h] = Lo(q, u)[h]
      OBVIOUS
    <3>1. q \in Alive
      BY <1>n, <1>1, <1>6 DEF Pid
    <3>2. ASSUME NEW u \in Vpn2
          PROVE  Lo(q, u)' = Lo(q, u)
      <4>1. u[1] \in Dir /\ 2 * u[2] \in Entry /\ 2 * u[2] + 1 \in Entry
        BY VMAssumption DEF Vpn2, Pair, Entry, Pages
      <4> QED
        BY <1>12, <3>1, <4>1 DEF Lo
    <3> QED
      BY <3>1, <3>2
  <2> QED
    BY <1>0, <1>n, <1>1, <2>1, TlbFrame DEF Pid
<1> QED
  BY <1>4, <1>14, <1>16, <1>17 DEF VMInv

\* The tables and the user pages that free_proc walks through are those of p.
LEMMA PagesOf ==
  ASSUME MemInv, NEW p \in Alive
  PROVE  LET S == {x \in Slot : x[1] = p}
             C == {y \in Cell : y[1][1] = p}
         IN  /\ Tables(p) \in Seq(1..Cardinality(Slot)) /\ IsInjective(Tables(p))
             /\ Range(Tables(p)) = {TableMap[x] : x \in S} \ {0}
             /\ UserPages(p) \in Seq(1..Cardinality(Cell)) /\ IsInjective(UserPages(p))
             /\ Range(UserPages(p)) = {FrameMap[y] : y \in C} \ {0}
<1> DEFINE S == {x \in Slot : x[1] = p}
           C == {y \in Cell : y[1][1] = p}
           N == NumDir * Pages
           t == [n \in 1..NumDir |-> PtOf(p, n - 1)]
           d(n) == (n - 1) \div Pages
           e(n) == (n - 1) % Pages
           u == [n \in 1..N |-> Pte(p, d(n), e(n))]
<1>0. p \in Pid /\ page_table[p] \in Pgd
  BY DEF MemInv, Typed, Alive
<1>1. \A i \in Dir : /\ <<p, i>> \in S /\ TableMap[<<p, i>>] = PtOf(p, i)
                     /\ PtOf(p, i) \in Pt
  BY <1>0 DEF MemInv, Typed, Slot, TableMap, PtOf
<1>2. \A i \in Dir, j \in Entry : /\ <<<<p, i>>, j>> \in C
                                 /\ FrameMap[<<<<p, i>>, j>>] = Pte(p, i, j)
                                 /\ Pte(p, i, j) \in User \cup {Invalid}
  BY <1>1 DEF MemInv, Typed, Cell, FrameMap, Pte
<1>3. N \in Nat /\ Pages \in Nat \ {0} /\ NumDir \in Nat \ {0}
  BY Sizes, VMAssumption
<1>4. \A n \in 1..N : d(n) \in Dir /\ e(n) \in Entry
  <2>1. ASSUME NEW P \in Nat \ {0}, NEW D \in Nat, NEW k \in Nat, k < P * D
        PROVE  k \div P \in 0..(D - 1) /\ k % P \in 0..(P - 1)
    <3>1. k \div P < D /\ k \div P \in Nat
      BY <2>1
    <3>2. k % P \in 0..(P - 1)
      OBVIOUS
    <3> QED
      BY <3>1, <3>2
  <2> SUFFICES ASSUME NEW n \in 1..N
               PROVE  d(n) \in Dir /\ e(n) \in Entry
    OBVIOUS
  <2>2. n - 1 \in Nat /\ n - 1 < Pages * NumDir
    BY <1>3
  <2> QED
    BY <1>3, <2>1, <2>2 DEF Dir, Entry
<1>5. \A n, k \in 1..N : d(n) = d(k) /\ e(n) = e(k) => n = k
  <2>1. ASSUME NEW P \in Nat \ {0}, NEW a \in Nat, NEW b \in Nat,
               a \div P = b \div P, a % P = b % P
        PROVE  a = b
    BY <2>1
  <2> SUFFICES ASSUME NEW n \in 1..N, NEW k \in 1..N, d(n) = d(k), e(n) = e(k)
               PROVE  n = k
    OBVIOUS
  <2>2. n - 1 \in Nat /\ k - 1 \in Nat
    BY <1>3
  <2>3. n - 1 = k - 1
    BY <1>3, <2>1, <2>2
  <2> QED
    BY <1>3, <2>3
<1>6. \A i \in Dir, j \in Entry : \E n \in 1..N : d(n) = i /\ e(n) = j
  <2>1. ASSUME NEW P \in Nat \ {0}, NEW D \in Nat, NEW a \in 0..(D - 1), NEW b \in 0..(P - 1)
        PROVE  P * a + b \in 0..(D * P - 1) /\ (P * a + b) \div P = a /\ (P * a + b) % P = b
    OBVIOUS
  <2> SUFFICES ASSUME NEW i \in Dir, NEW j \in Entry
               PROVE  \E n \in 1..N : d(n) = i /\ e(n) = j
    OBVIOUS
  <2>2. PICK k : k = Pages * i + j
    OBVIOUS
  <2>3. k \in 0..(N - 1) /\ k \div Pages = i /\ k % Pages = j
    BY <1>3, <2>1, <2>2 DEF Dir, Entry
  <2>4. k + 1 \in 1..N /\ (k + 1) - 1 = k
    BY <1>3, <2>3
  <2> QED
    BY <2>3, <2>4
<1> HIDE DEF d, e, N
<1>7. u \in Seq(User \cup {Invalid}) /\ DOMAIN u = 1..N
  <2>1. \A n \in 1..N : Pte(p, d(n), e(n)) \in User \cup {Invalid}
    BY <1>2, <1>4
  <2>2. u \in [1..N -> User \cup {Invalid}]
    BY <2>1
  <2> HIDE DEF u
  <2> QED
    BY <1>3, <2>2, SeqDef DEF N
<1>8. t \in Seq(Pt) /\ DOMAIN t = 1..NumDir
  <2>1. \A n \in 1..NumDir : n - 1 \in Dir
    BY <1>3 DEF Dir
  <2>2. t \in [1..NumDir -> Pt]
    BY <1>1, <2>1
  <2> HIDE DEF t
  <2> QED
    BY <1>3, <2>2, SeqDef
<1>9. Tables(p) = Keep(t, Pt \ {EmptyPt}) /\ UserPages(p) = Keep(u, User)
  BY DEF Tables, UserPages, d, e, N
<1>10. \A n, k \in DOMAIN t : t[n] \in Pt \ {EmptyPt} /\ t[n] = t[k] => n = k
  <2> SUFFICES ASSUME NEW n \in 1..NumDir, NEW k \in 1..NumDir, t[n] # EmptyPt, t[n] = t[k]
               PROVE  n = k
    BY <1>8
  <2>1. n - 1 \in Dir /\ k - 1 \in Dir
    BY <1>3 DEF Dir
  <2>2. <<p, n - 1>> = <<p, k - 1>>
    BY <1>1, <2>1 DEF MemInv, Owned, EmptyPt
  <2> QED
    BY <1>3, <2>2
<1>11. \A n, k \in DOMAIN u : u[n] \in User /\ u[n] = u[k] => n = k
  <2> SUFFICES ASSUME NEW n \in 1..N, NEW k \in 1..N, u[n] \in User, u[n] = u[k]
               PROVE  n = k
    BY <1>7
  <2> DEFINE x == <<<<p, d(n)>>, e(n)>>
             y == <<<<p, d(k)>>, e(k)>>
  <2>1. x \in Cell /\ y \in Cell /\ FrameMap[x] = FrameMap[y] /\ FrameMap[x] # 0
    BY <1>2, <1>4, Sizes
  <2>2. x = y
    <3> HIDE DEF x, y
    <3> QED
      BY <2>1 DEF MemInv, Owned
  <2> QED
    BY <1>5, <2>2
<1>12. /\ Tables(p) \in Seq(Pt) /\ Range(Tables(p)) = Range(t) \cap (Pt \ {EmptyPt})
       /\ IsInjective(Tables(p))
  <2>1. PICK A : A = Pt \ {EmptyPt}
    OBVIOUS
  <2>2. \A n, k \in DOMAIN t : t[n] \in A /\ t[n] = t[k] => n = k
    BY <1>10, <2>1
  <2> HIDE DEF t
  <2>3. /\ Keep(t, A) \in Seq(Pt) /\ Range(Keep(t, A)) = Range(t) \cap A
        /\ IsInjective(Keep(t, A))
    BY <1>8, <2>2, KeepProperties
  <2> QED
    BY <1>9, <2>1, <2>3
<1>13. /\ UserPages(p) \in Seq(User \cup {Invalid}) /\ Range(UserPages(p)) = Range(u) \cap User
       /\ IsInjective(UserPages(p))
  <2> HIDE DEF u
  <2>1. PICK T : T = User \cup {Invalid}
    OBVIOUS
  <2>2. u \in Seq(T)
    BY <1>7, <2>1
  <2>3. /\ Keep(u, User) \in Seq(T) /\ Range(Keep(u, User)) = Range(u) \cap User
        /\ IsInjective(Keep(u, User))
    BY <1>11, <2>2, KeepProperties
  <2> QED
    BY <1>9, <2>1, <2>3
<1>14. Range(Tables(p)) = {TableMap[x] : x \in S} \ {0}
  <2>1. \A x \in S : x[2] \in Dir /\ x = <<p, x[2]>> /\ x[2] + 1 \in 1..NumDir
                    /\ (x[2] + 1) - 1 = x[2]
    BY <1>3 DEF Slot, Dir
  <2>2. \A n \in 1..NumDir : n - 1 \in Dir
    BY <1>3 DEF Dir
  <2>3. Range(t) \subseteq {TableMap[x] : x \in S} /\ Range(t) \subseteq Pt
    <3>1. ASSUME NEW n \in 1..NumDir
          PROVE  t[n] = TableMap[<<p, n - 1>>] /\ <<p, n - 1>> \in S /\ t[n] \in Pt
      BY <1>1, <2>2
    <3> HIDE DEF t, S
    <3> QED
      BY <1>8, <3>1 DEF Range
  <2>4. {TableMap[x] : x \in S} \subseteq Range(t)
    <3>1. ASSUME NEW x \in S
          PROVE  TableMap[x] = t[x[2] + 1] /\ x[2] + 1 \in DOMAIN t
      <4>1. x = <<p, x[2]>> /\ TableMap[<<p, x[2]>>] = PtOf(p, x[2])
        BY <1>1, <2>1
      <4>2. t[x[2] + 1] = PtOf(p, (x[2] + 1) - 1) /\ (x[2] + 1) - 1 = x[2]
        BY <2>1
      <4> QED
        BY <1>8, <2>1, <4>1, <4>2
    <3> HIDE DEF t, S
    <3> QED
      BY <3>1 DEF Range
  <2> QED
    BY <1>12, <2>3, <2>4 DEF EmptyPt
<1>15. Range(UserPages(p)) = {FrameMap[y] : y \in C} \ {0}
  <2>1. \A y \in C : y[1][2] \in Dir /\ y[2] \in Entry /\ y = <<<<p, y[1][2]>>, y[2]>>
    BY DEF Cell, Slot
  <2>2. Range(u) \subseteq {FrameMap[y] : y \in C} /\ Range(u) \subseteq User \cup {0}
    <3>1. ASSUME NEW n \in 1..N
          PROVE  u[n] = FrameMap[<<<<p, d(n)>>, e(n)>>] /\ <<<<p, d(n)>>, e(n)>> \in C
                 /\ u[n] \in User \cup {0}
      BY <1>2, <1>4 DEF Invalid
    <3> HIDE DEF u, C
    <3> QED
      BY <1>7, <3>1 DEF Range
  <2>3. {FrameMap[y] : y \in C} \subseteq Range(u)
    <3>1. ASSUME NEW y \in C
          PROVE  \E n \in DOMAIN u : FrameMap[y] = u[n]
      <4>1. PICK n \in 1..N : d(n) = y[1][2] /\ e(n) = y[2]
        BY <1>6, <2>1
      <4>2. u[n] = Pte(p, y[1][2], y[2])
        BY <4>1
      <4> QED
        BY <1>2, <1>7, <2>1, <4>2
    <3> HIDE DEF u, C
    <3> QED
      BY <3>1 DEF Range
  <2>4. 0 \notin User
    BY Sizes
  <2> QED
    BY <1>13, <2>2, <2>3, <2>4
<1>16. Tables(p) \in Seq(1..Cardinality(Slot)) /\ UserPages(p) \in Seq(1..Cardinality(Cell))
  <2>1. ASSUME NEW T, NEW Q \in SUBSET T, NEW s \in Seq(T), Range(s) \subseteq Q
        PROVE  s \in Seq(Q)
    <3>1. Len(s) \in Nat /\ s \in [1..Len(s) -> Q]
      BY <2>1, LenProperties DEF Range
    <3> QED
      BY <3>1, SeqDef
  <2>2. Pt \ {EmptyPt} \subseteq 1..Cardinality(Slot) /\ 1..Cardinality(Slot) \subseteq Pt
    BY Sizes DEF EmptyPt
  <2>3. Range(Tables(p)) \subseteq 1..Cardinality(Slot)
    BY <1>12, <2>2
  <2>4. User = 1..Cardinality(Cell)
    BY Sizes
  <2> QED
    BY <1>12, <1>13, <2>1, <2>2, <2>3, <2>4
<1> QED
  BY <1>12, <1>13, <1>14, <1>15, <1>16

LEMMA FreeProcVM ==
  ASSUME VMInv, NEW p \in Pid, free_proc(p)
  PROVE  /\ VMInv'
         /\ page_ctrl'.user.next = page_ctrl.user.next
         /\ \A y \in Cell : FrameMap[y] # 0 =>
              FrameMap'[y] = FrameMap[y] \/ FrameMap[y] \in Range(UserPages(p))
         /\ \/ FreeIn(page_ctrl'.user) = FreeIn(page_ctrl.user) \cup Range(UserPages(p))
            \/ Len(page_ctrl'.user.free) = MaxFree
<1> DEFINE S == {x \in Slot : x[1] = p}
           C == {y \in Cell : y[1][1] = p}
<1>0. MemInv /\ Typed /\ TlbInv
  BY DEF VMInv, MemInv
<1>1. /\ p \in Alive /\ page_table' = [page_table EXCEPT ![p] = NoPgd]
      /\ page_ctrl'.pgd = free_pages(page_ctrl.pgd, <<page_table[p]>>)
      /\ page_ctrl'.pt = free_pages(page_ctrl.pt, Tables(p))
      /\ page_ctrl'.user = free_pages(page_ctrl.user, UserPages(p))
      /\ page_ctrl' = [pgd |-> page_ctrl'.pgd, pt |-> page_ctrl'.pt, user |-> page_ctrl'.user]
      /\ current' = IF current = p THEN NoProc ELSE current
      /\ pgd' = pgd /\ pt' = pt /\ next_pid' = next_pid /\ asid' = asid /\ tlb' = tlb
  BY DEF free_proc
<1>2. /\ page_table' \in [Pid -> Pgd \cup {NoPgd}] /\ page_table'[p] = NoPgd
      /\ \A q \in Pid \ {p} : page_table'[q] = page_table[q]
  BY <1>0, <1>1 DEF Typed
<1>3. Alive' = Alive \ {p}
  BY <1>2 DEF Alive
<1>4. Gone' = Gone \cup {p}
  BY <1>0, <1>1, <1>3 DEF Gone, MemInv
<1>5. GoneSlots' = GoneSlots \cup S /\ GoneCells' = GoneCells \cup C
  BY <1>4 DEF GoneSlots, GoneCells
<1>6. \A q \in Alive', d \in Dir : PtOf(q, d)' = PtOf(q, d)
  BY <1>1, <1>2, <1>3 DEF PtOf, Alive
<1>7. \A q \in Alive', d \in Dir, e \in Entry : Pte(q, d, e)' = Pte(q, d, e)
  BY <1>1, <1>6 DEF Pte
<1>8. TableMap' = [x \in Slot |-> IF x \in S THEN 0 ELSE TableMap[x]]
  <2>1. ASSUME NEW x \in Slot
        PROVE  (IF x[1] \in Alive' THEN PtOf(x[1], x[2])' ELSE EmptyPt)
                 = IF x \in S THEN 0 ELSE TableMap[x]
    <3>1. x[1] \in Pid /\ x[2] \in Dir
      BY DEF Slot
    <3> QED
      BY <1>3, <1>6, <3>1 DEF TableMap, EmptyPt
  <2> QED
    BY <2>1 DEF TableMap
<1>9. FrameMap' = [y \in Cell |-> IF y \in C THEN 0 ELSE FrameMap[y]]
  <2>1. ASSUME NEW y \in Cell
        PROVE  (IF y[1][1] \in Alive' THEN Pte(y[1][1], y[1][2], y[2])' ELSE Invalid)
                 = IF y \in C THEN 0 ELSE FrameMap[y]
    <3>1. y[1][1] \in Pid /\ y[1][2] \in Dir /\ y[2] \in Entry
      BY DEF Slot, Cell
    <3> QED
      BY <1>3, <1>7, <3>1 DEF FrameMap, Invalid
  <2> QED
    BY <2>1 DEF FrameMap
<1>10. Owned(page_ctrl'.pgd, Pid, page_table', Gone')
  <2> DEFINE s == <<page_table[p]>>
  <2>1. page_table[p] \in 1..Cardinality(Pid) /\ page_table[p] # 0
    BY <1>0, <1>1, Sizes DEF Alive, NoPgd, Typed
  <2>2. s \in Seq(1..Cardinality(Pid)) /\ IsInjective(s) /\ Range(s) = {page_table[p]}
    BY <2>1 DEF IsInjective, Range
  <2>3. Range(s) = {page_table[x] : x \in {p}} \ {0}
    BY <2>1, <2>2
  <2>4. page_table' = [x \in Pid |-> IF x \in {p} THEN 0 ELSE page_table[x]]
    BY <1>0, <1>1, <1>2 DEF Typed, NoPgd
  <2>5. Owned(page_ctrl.pgd, Pid, page_table, Gone)
    BY <1>0 DEF MemInv
  <2> HIDE DEF s
  <2>6. Owned(free_pages(page_ctrl.pgd, s), Pid, page_table', Gone \cup {p})
    <3>1. {p} \in SUBSET Pid
      OBVIOUS
    <3> QED
      BY <2>2, <2>3, <2>4, <2>5, <3>1, OwnFree, Sizes
  <2> QED
    BY <1>1, <1>4, <2>6 DEF s
<1>11. /\ Tables(p) \in Seq(1..Cardinality(Slot)) /\ IsInjective(Tables(p))
       /\ Range(Tables(p)) = {TableMap[x] : x \in S} \ {0}
       /\ UserPages(p) \in Seq(1..Cardinality(Cell)) /\ IsInjective(UserPages(p))
       /\ Range(UserPages(p)) = {FrameMap[y] : y \in C} \ {0}
  BY <1>0, <1>1, PagesOf
<1>12. S \in SUBSET Slot /\ C \in SUBSET Cell
  OBVIOUS
<1> HIDE DEF S, C
<1>13. Owned(page_ctrl'.pt, Slot, TableMap', GoneSlots')
  <2>1. Owned(page_ctrl.pt, Slot, TableMap, GoneSlots)
    BY <1>0 DEF MemInv
  <2>2. Owned(free_pages(page_ctrl.pt, Tables(p)), Slot, TableMap', GoneSlots \cup S)
    BY <1>8, <1>11, <1>12, <2>1, OwnFree, Sizes
  <2> QED
    BY <1>1, <1>5, <2>2
<1>14. /\ Owned(page_ctrl'.user, Cell, FrameMap', GoneCells')
       /\ \/ FreeIn(page_ctrl'.user) = FreeIn(page_ctrl.user) \cup Range(UserPages(p))
          \/ Len(page_ctrl'.user.free) = MaxFree
  <2>1. Owned(page_ctrl.user, Cell, FrameMap, GoneCells)
    BY <1>0 DEF MemInv
  <2> DEFINE w == free_pages(page_ctrl.user, UserPages(p))
  <2>2. Owned(w, Cell, FrameMap', GoneCells \cup C)
    BY <1>9, <1>11, <1>12, <2>1, OwnFree, Sizes
  <2>3. \/ FreeIn(w) = FreeIn(page_ctrl.user) \cup Range(UserPages(p))
        \/ Len(w.free) = MaxFree
    <3>1. /\ page_ctrl.user \in Ctrl(1..Cardinality(Cell)) /\ FreeListOK(page_ctrl.user)
          /\ \A f \in Range(UserPages(p)) : f \notin FreeIn(page_ctrl.user)
                                             /\ f < page_ctrl.user.next
      BY <1>11, <1>12, <2>1 DEF Owned
    <3>2. 1..Cardinality(Cell) \in SUBSET Int
      OBVIOUS
    <3> QED
      BY <1>11, <3>1, <3>2, FreeProperties
  <2> QED
    BY <1>1, <1>5, <2>2, <2>3
<1>15. Typed'
  BY <1>0, <1>1, <1>2, <1>3 DEF Typed
<1>16. MemInv'
  BY <1>0, <1>1, <1>3, <1>10, <1>13, <1>14, <1>15 DEF MemInv
<1>17. TlbInv'
  <2>1. ASSUME NEW q \in Alive', NEW u \in Vpn2
        PROVE  Lo(q, u)' = Lo(q, u)
    <3>1. u[1] \in Dir /\ 2 * u[2] \in Entry /\ 2 * u[2] + 1 \in Entry
      BY VMAssumption DEF Vpn2, Pair, Entry, Pages
    <3> QED
      BY <1>7, <3>1 DEF Lo
  <2>2. next_pid \in Nat /\ Pid \subseteq Nat
    BY <1>0 DEF Typed, Pid
  <2> QED
    BY <1>0, <1>1, <1>3, <2>1, <2>2, TlbFrame
<1> QED
  <2>1. page_ctrl'.user.next = page_ctrl.user.next
    <3>1. page_ctrl.user = [next |-> page_ctrl.user.next, free |-> page_ctrl.user.free]
      BY <1>0 DEF MemInv, Owned, Ctrl
    <3> QED
      BY <1>1, <3>1 DEF free_pages
  <2>2. ASSUME NEW y \in Cell, FrameMap[y] # 0
        PROVE  FrameMap'[y] = FrameMap[y] \/ FrameMap[y] \in Range(UserPages(p))
    BY <1>9, <1>11, <2>2
  <2> QED
    BY <1>14, <1>16, <1>17, <2>1, <2>2 DEF VMInv

\* A handler that maps pair v of the running process: of all page table entries only the
\* two of the pair change, and these only if they were invalid.
LEMMA MapVM ==
  ASSUME VMInv, NEW v \in Vpn2, current # NoProc, MapPair(v), WriteTlb(v, NewLo(v)),
         UNCHANGED <<page_table, next_pid, current, asid>>
  PROVE  /\ VMInv' /\ Alive' = Alive
         /\ \A y \in Cell : FrameMap[y] # 0 => FrameMap'[y] = FrameMap[y]
         /\ \A f \in FreeIn(page_ctrl.user) :
              f \in FreeIn(page_ctrl'.user) \/ \E y \in Cell : FrameMap'[y] = f
         /\ \A f \in User : f < page_ctrl'.user.next =>
              f < page_ctrl.user.next \/ \E y \in Cell : FrameMap'[y] = f
<1>c. PICK c : c = current
  OBVIOUS
<1>k. PICK d, k : v = <<d, k>> /\ d \in Dir /\ k \in Pair /\ v[1] = d /\ v[2] = k
  BY DEF Vpn2
<1>t. PICK T : T = TableOf(v)
  OBVIOUS
<1>0. MemInv /\ Typed /\ TlbInv
  BY DEF VMInv, MemInv
<1>1. /\ c \in Alive /\ c \in Pid /\ page_table[c] \in Pgd /\ c # NoProc /\ c < next_pid
      /\ c \notin Gone /\ <<c, d>> \in Slot
  BY <1>c, <1>k, <1>0 DEF Typed, Alive, NoProc, Gone, MemInv, Slot
<1>2. Alive' = Alive /\ Gone' = Gone /\ GoneSlots' = GoneSlots /\ GoneCells' = GoneCells
  BY DEF Alive, Gone, GoneSlots, GoneCells
<1>3. 2 * k \in Entry /\ 2 * k + 1 \in Entry
  BY <1>k, VMAssumption DEF Pair, Entry, Pages
<1>4. /\ \A q \in Alive, i \in Dir : /\ <<q, i>> \in Slot /\ TableMap[<<q, i>>] = PtOf(q, i)
                                     /\ PtOf(q, i) \in Pt
      /\ \A q \in Alive, i \in Dir, j \in Entry :
           /\ <<<<q, i>>, j>> \in Cell /\ FrameMap[<<<<q, i>>, j>>] = Pte(q, i, j)
           /\ Pte(q, i, j) \in User \cup {Invalid}
  <2>1. \A q \in Alive, i \in Dir : /\ <<q, i>> \in Slot /\ TableMap[<<q, i>>] = PtOf(q, i)
                                   /\ PtOf(q, i) \in Pt
    BY <1>0 DEF Typed, Alive, Slot, TableMap, PtOf
  <2> QED
    BY <1>0, <2>1 DEF Typed, Cell, FrameMap, Pte
\* The table.
<1>5. /\ T \in Pt /\ T # 0
      /\ \A q \in Alive, i \in Dir : PtOf(q, i) = T => q = c /\ i = d
      /\ Owned(page_ctrl'.pt, Slot, [TableMap EXCEPT ![<<c, d>>] = T], GoneSlots)
  <2>0. Owned(page_ctrl.pt, Slot, TableMap, GoneSlots) /\ <<c, d>> \notin GoneSlots
    BY <1>0, <1>1 DEF MemInv, GoneSlots
  <2>1. NewTable(v) <=> TableMap[<<c, d>>] = 0
    BY <1>c, <1>k, <1>1, <1>4 DEF NewTable, EmptyPt
  <2>2. page_ctrl'.pt = IF NewTable(v) THEN alloc_page(page_ctrl.pt) ELSE page_ctrl.pt
    BY <1>0 DEF MapPair, Typed
  <2>3. CASE NewTable(v)
    <3>1. T = page_addr(page_ctrl.pt)
      BY <1>t, <2>3 DEF TableOf
    <3>2. /\ T \in 1..Cardinality(Slot) /\ \A x \in Slot : TableMap[x] # T
          /\ Owned(alloc_page(page_ctrl.pt), Slot, [TableMap EXCEPT ![<<c, d>>] = T], GoneSlots)
      BY <1>1, <2>0, <2>1, <2>3, <3>1, OwnAlloc, Sizes
    <3>3. T \in Pt /\ T # 0
      BY <3>2, Sizes
    <3> QED
      BY <1>4, <2>1, <2>2, <2>3, <3>2, <3>3
  <2>4. CASE ~NewTable(v)
    <3>1. T = TableMap[<<c, d>>] /\ T # 0 /\ T \in Pt
      BY <1>c, <1>k, <1>t, <1>1, <1>4, <2>1, <2>4 DEF TableOf
    <3>2. [TableMap EXCEPT ![<<c, d>>] = T] = TableMap
      BY <3>1 DEF TableMap
    <3>3. ASSUME NEW q \in Alive, NEW i \in Dir, PtOf(q, i) = T
          PROVE  q = c /\ i = d
      <4>0. PICK x, y : x = <<q, i>> /\ y = <<c, d>>
        OBVIOUS
      <4>2. x \in Slot /\ y \in Slot /\ TableMap[x] = TableMap[y] /\ TableMap[x] # 0
        BY <1>1, <1>4, <3>1, <3>3, <4>0
      <4>1. x = y
        BY <2>0, <4>2 DEF Owned
      <4> QED
        BY <4>0, <4>1
    <3> QED
      BY <2>0, <2>1, <2>2, <2>4, <3>1, <3>2, <3>3
  <2> QED
    BY <2>3, <2>4
<1>6. /\ \A q \in Alive, i \in Dir : PtOf(q, i)' = IF q = c /\ i = d THEN T ELSE PtOf(q, i)
      /\ pgd' \in [Pgd -> [Dir -> Pt]]
  <2>1. pgd' = [pgd EXCEPT ![page_table[c]][d] = T]
    BY <1>c, <1>k, <1>t DEF MapPair
  <2>2. ASSUME NEW q \in Alive, NEW i \in Dir
        PROVE  PtOf(q, i)' = IF q = c /\ i = d THEN T ELSE PtOf(q, i)
    <3>1. q \in Pid /\ page_table[q] \in Pgd /\ (page_table[q] = page_table[c] => q = c)
      BY <1>0, <1>1 DEF Typed, Alive, NoPgd, MemInv, Owned
    <3> QED
      BY <1>0, <1>1, <1>k, <2>1, <3>1 DEF PtOf, Typed
  <2>3. pgd' \in [Pgd -> [Dir -> Pt]]
    <3>1. pgd \in [Pgd -> [Dir -> Pt]] /\ pgd[page_table[c]] \in [Dir -> Pt]
      BY <1>0, <1>1 DEF Typed
    <3>2. [pgd[page_table[c]] EXCEPT ![d] = T] \in [Dir -> Pt]
      BY <1>5, <3>1
    <3> QED
      BY <1>1, <2>1, <3>1, <3>2
  <2> QED
    BY <2>2, <2>3
<1>7. TableMap' = [TableMap EXCEPT ![<<c, d>>] = T]
  <2>1. ASSUME NEW x \in Slot
        PROVE  (IF x[1] \in Alive' THEN PtOf(x[1], x[2])' ELSE EmptyPt)
                 = [TableMap EXCEPT ![<<c, d>>] = T][x]
    <3>1. PICK q \in Pid, i \in Dir : x = <<q, i>>
      BY DEF Slot
    <3>2. [TableMap EXCEPT ![<<c, d>>] = T][x] = IF q = c /\ i = d THEN T ELSE TableMap[x]
      BY <1>1, <3>1 DEF TableMap
    <3> QED
      BY <1>1, <1>2, <1>4, <1>6, <3>1, <3>2 DEF TableMap
  <2> QED
    BY <2>1 DEF TableMap
\* The frames.
<1>8. OldLo(v)[1] = Pte(c, d, 2 * k) /\ OldLo(v)[2] = Pte(c, d, 2 * k + 1)
  <2>1. CASE NewTable(v)
    <3>1. PtOf(c, d) = EmptyPt
      BY <1>c, <1>k, <2>1 DEF NewTable
    <3>2. Pte(c, d, 2 * k) = Invalid /\ Pte(c, d, 2 * k + 1) = Invalid
      BY <1>0, <1>3, <3>1 DEF Pte, MemInv
    <3> QED
      BY <2>1, <3>2 DEF OldLo
  <2>2. CASE ~NewTable(v)
    BY <1>c, <1>k, <2>2 DEF OldLo, Lo
  <2> QED
    BY <2>1, <2>2
<1> DEFINE u0 == page_ctrl.user
           g1 == do_page_fault(u0, Pte(c, d, 2 * k))
           u1 == AfterFault(u0, Pte(c, d, 2 * k))
           g2 == do_page_fault(u1, Pte(c, d, 2 * k + 1))
           u2 == AfterFault(u1, Pte(c, d, 2 * k + 1))
           x1 == <<<<c, d>>, 2 * k>>
           x2 == <<<<c, d>>, 2 * k + 1>>
<1>9. NewLo(v) = <<g1, g2>> /\ page_ctrl'.user = u2 /\ page_ctrl'.pgd = page_ctrl.pgd
      /\ page_ctrl' = [pgd |-> page_ctrl'.pgd, pt |-> page_ctrl'.pt, user |-> page_ctrl'.user]
  <2>1. NewLo(v) = <<g1, g2>>
    BY <1>8 DEF NewLo
  <2>2. page_ctrl'.user = AfterFault(AfterFault(page_ctrl.user, OldLo(v)[1]), OldLo(v)[2])
        /\ page_ctrl'.pgd = page_ctrl.pgd
        /\ page_ctrl' = [pgd |-> page_ctrl'.pgd, pt |-> page_ctrl'.pt, user |-> page_ctrl'.user]
    BY <1>0 DEF MapPair, Typed
  <2> QED
    BY <1>8, <2>1, <2>2
<1>10. x1 \in Cell /\ x2 \in Cell /\ x1 \notin GoneCells /\ x2 \notin GoneCells /\ x1 # x2
       /\ FrameMap[x1] = Pte(c, d, 2 * k) /\ FrameMap[x2] = Pte(c, d, 2 * k + 1)
  <2>1. 2 * k # 2 * k + 1
    BY <1>k DEF Pair
  <2>2. x1 # x2
    BY <2>1
  <2> QED
    BY <1>k, <1>1, <1>3, <1>4, <2>2 DEF GoneCells
<1>p. PICK h1, h2 : h1 = g1 /\ h2 = g2
  OBVIOUS
<1> DEFINE m1 == [FrameMap EXCEPT ![x1] = h1]
           m2 == [m1 EXCEPT ![x2] = h2]
<1>11. /\ h1 \in User /\ (FrameMap[x1] # 0 => h1 = FrameMap[x1])
       /\ Owned(u1, Cell, m1, GoneCells)
       /\ \A g \in FreeIn(u0) : g \in FreeIn(u1) \/ g = h1
       /\ \A g \in Int : g < u1.next => g < u0.next \/ g = h1
  <2>1. Owned(u0, Cell, FrameMap, GoneCells)
    BY <1>0 DEF MemInv
  <2>2. u1 = AfterFault(u0, FrameMap[x1]) /\ h1 = do_page_fault(u0, FrameMap[x1])
    BY <1>10, <1>p
  <2> HIDE DEF u0, x1, x2, u1
  <2> QED
    BY <1>10, <2>1, <2>2, OwnFault, Sizes
<1>12. m1[x2] = Pte(c, d, 2 * k + 1)
  <2>1. DOMAIN FrameMap = Cell
    BY DEF FrameMap
  <2> HIDE DEF x1, x2
  <2> QED
    BY <1>10, <2>1
<1>13. /\ h2 \in User /\ (FrameMap[x2] # 0 => h2 = FrameMap[x2])
       /\ Owned(u2, Cell, m2, GoneCells)
       /\ \A g \in FreeIn(u1) : g \in FreeIn(u2) \/ g = h2
       /\ \A g \in Int : g < u2.next => g < u1.next \/ g = h2
  <2> HIDE DEF x1, x2, m1, u1
  <2> QED
    BY <1>10, <1>11, <1>12, <1>p, OwnFault, Sizes
<1>14. /\ \A q \in Alive, i \in Dir, j \in Entry :
            Pte(q, i, j)' = IF q = c /\ i = d /\ j = 2 * k THEN h1
                            ELSE IF q = c /\ i = d /\ j = 2 * k + 1 THEN h2
                            ELSE Pte(q, i, j)
       /\ pt' \in [Pt -> [Entry -> User \cup {Invalid}]]
       /\ \A e \in Entry : pt'[EmptyPt][e] = Invalid
  <2> DEFINE row == [e \in Entry |-> IF e = 2 * k THEN h1 ELSE IF e = 2 * k + 1 THEN h2
                                     ELSE IF NewTable(v) THEN Invalid ELSE pt[T][e]]
  <2>1. pt' = [pt EXCEPT ![T] = row]
    <3> DEFINE R == [e \in Entry |-> CASE e = 2 * v[2]     -> NewLo(v)[1]
                                       [] e = 2 * v[2] + 1 -> NewLo(v)[2]
                                       [] OTHER -> IF NewTable(v) THEN Invalid
                                                                  ELSE pt[TableOf(v)][e]]
    <3>1. pt' = [pt EXCEPT ![TableOf(v)] = R]
      BY DEF MapPair
    <3>2. NewLo(v)[1] = h1 /\ NewLo(v)[2] = h2 /\ v[2] = k /\ TableOf(v) = T
      BY <1>k, <1>t, <1>9, <1>p
    <3>3. ASSUME NEW e \in Entry
          PROVE  R[e] = row[e]
      BY <1>k, <3>2 DEF Pair
    <3>4. R = row
      BY <3>3
    <3> HIDE DEF R, row
    <3> QED
      BY <3>1, <3>2, <3>4
  <2>2. row \in [Entry -> User \cup {Invalid}]
    <3>1. h1 \in User /\ h2 \in User
      BY <1>11, <1>13
    <3>2. \A e \in Entry : pt[T][e] \in User \cup {Invalid}
      BY <1>0, <1>5 DEF Typed
    <3> QED
      BY <3>1, <3>2
  <2>3. /\ pt' \in [Pt -> [Entry -> User \cup {Invalid}]] /\ pt'[T] = row
        /\ \A f \in Pt \ {T} : pt'[f] = pt[f]
    <3> HIDE DEF row
    <3>1. T \in Pt /\ pt \in [Pt -> [Entry -> User \cup {Invalid}]]
      BY <1>0, <1>5 DEF Typed
    <3> QED
      BY <2>1, <2>2, <3>1
  <2>4. ASSUME NEW j \in Entry
        PROVE  row[j] = IF j = 2 * k THEN h1 ELSE IF j = 2 * k + 1 THEN h2 ELSE Pte(c, d, j)
    <3>1. CASE NewTable(v)
      <4>1. Pte(c, d, j) = Invalid
        BY <1>0, <1>c, <1>k, <3>1 DEF NewTable, Pte, MemInv
      <4> QED
        BY <3>1, <4>1
    <3>2. CASE ~NewTable(v)
      BY <1>c, <1>k, <1>t, <3>2 DEF TableOf, Pte
    <3> QED
      BY <3>1, <3>2
  <2> HIDE DEF row
  <2>5. ASSUME NEW q \in Alive, NEW i \in Dir, NEW j \in Entry
        PROVE  Pte(q, i, j)' = IF q = c /\ i = d /\ j = 2 * k THEN h1
                               ELSE IF q = c /\ i = d /\ j = 2 * k + 1 THEN h2
                               ELSE Pte(q, i, j)
    <3>1. CASE q = c /\ i = d
      BY <1>6, <2>3, <2>4, <3>1 DEF Pte
    <3>2. CASE ~(q = c /\ i = d)
      BY <1>4, <1>5, <1>6, <2>3, <3>2 DEF Pte
    <3> QED
      BY <3>1, <3>2
  <2>6. \A e \in Entry : pt'[EmptyPt][e] = Invalid
    <3>1. EmptyPt \in Pt \ {T}
      BY <1>5, Sizes DEF EmptyPt
    <3>2. pt'[EmptyPt] = pt[EmptyPt]
      BY <2>3, <3>1
    <3> QED
      BY <1>0, <3>2 DEF MemInv
  <2> QED
    BY <2>3, <2>5, <2>6
<1>15. FrameMap' = m2
  <2>1. ASSUME NEW y \in Cell
        PROVE  (IF y[1][1] \in Alive' THEN Pte(y[1][1], y[1][2], y[2])' ELSE Invalid) = m2[y]
    <3>1. PICK q \in Pid, i \in Dir, j \in Entry :
             y = <<<<q, i>>, j>> /\ y[1][1] = q /\ y[1][2] = i /\ y[2] = j
      BY DEF Cell, Slot
    <3>2. m2[y] = IF y = x2 THEN h2 ELSE IF y = x1 THEN h1 ELSE FrameMap[y]
      <4>1. DOMAIN FrameMap = Cell
        BY DEF FrameMap
      <4> HIDE DEF x1, x2
      <4> QED
        BY <1>10, <4>1
    <3>3. (y = x1 <=> q = c /\ i = d /\ j = 2 * k) /\ (y = x2 <=> q = c /\ i = d /\ j = 2 * k + 1)
      BY <3>1
    <3>4. FrameMap[y] = IF q \in Alive THEN Pte(q, i, j) ELSE Invalid
      BY <3>1 DEF FrameMap
    <3> HIDE DEF x1, x2, m2
    <3> QED
      BY <1>1, <1>2, <1>10, <1>14, <3>1, <3>2, <3>3, <3>4
  <2>2. DOMAIN m2 = Cell
    BY DEF FrameMap
  <2> QED
    BY <2>1, <2>2 DEF FrameMap
<1>16. MemInv'
  <2>1. Typed'
    BY <1>0, <1>2, <1>6, <1>9, <1>14 DEF Typed
  <2>2. Owned(page_ctrl'.pgd, Pid, page_table', Gone')
    BY <1>0, <1>2, <1>9 DEF MemInv
  <2>3. Owned(page_ctrl'.pt, Slot, TableMap', GoneSlots')
    BY <1>2, <1>5, <1>7
  <2>4. Owned(page_ctrl'.user, Cell, FrameMap', GoneCells')
    BY <1>2, <1>9, <1>13, <1>15
  <2>5. \A q \in Alive' : q < next_pid'
    BY <1>0, <1>2 DEF MemInv
  <2> QED
    BY <1>14, <2>1, <2>2, <2>3, <2>4, <2>5 DEF MemInv
\* The TLB.
<1>17. \A q \in Alive, i \in Dir, j \in Entry :
         Pte(q, i, j) # Invalid => Pte(q, i, j)' = Pte(q, i, j)
  BY <1>10, <1>11, <1>13, <1>14 DEF Invalid
<1>18. \A q \in Alive, u \in Vpn2, h \in 1..2 :
         Lo(q, u)[h] # Invalid => Lo(q, u)'[h] = Lo(q, u)[h]
  <2> SUFFICES ASSUME NEW q \in Alive, NEW u \in Vpn2, NEW h \in 1..2, Lo(q, u)[h] # Invalid
               PROVE  Lo(q, u)'[h] = Lo(q, u)[h]
    OBVIOUS
  <2>1. u[1] \in Dir /\ 2 * u[2] \in Entry /\ 2 * u[2] + 1 \in Entry
    BY VMAssumption DEF Vpn2, Pair, Entry, Pages
  <2>2. CASE h = 1
    <3>1. Lo(q, u)[h] = Pte(q, u[1], 2 * u[2]) /\ Lo(q, u)'[h] = Pte(q, u[1], 2 * u[2])'
      BY <2>2 DEF Lo
    <3> QED
      BY <1>17, <2>1, <3>1
  <2>3. CASE h = 2
    <3>1. Lo(q, u)[h] = Pte(q, u[1], 2 * u[2] + 1) /\ Lo(q, u)'[h] = Pte(q, u[1], 2 * u[2] + 1)'
      BY <2>3 DEF Lo
    <3> QED
      BY <1>17, <2>1, <3>1
  <2> QED
    BY <2>2, <2>3
<1>19. \A h \in 1..2 : Lo(current, v)'[h] = <<h1, h2>>[h]
  <2>1. Lo(current, v)' = <<Pte(c, d, 2 * k)', Pte(c, d, 2 * k + 1)'>>
    BY <1>c, <1>k DEF Lo, Pte, PtOf
  <2>2. Pte(c, d, 2 * k)' = h1 /\ Pte(c, d, 2 * k + 1)' = h2
    <3>1. 2 * k # 2 * k + 1
      BY <1>k DEF Pair
    <3> QED
      BY <1>k, <1>1, <1>3, <1>14, <3>1
  <2> QED
    BY <2>1, <2>2
<1>20. PICK n \in Index : /\ tlb' = [tlb EXCEPT ![n] = TlbEntry(v, <<h1, h2>>)]
                         /\ \A i \in Hit(v) : i = n
  <2>1. NewLo(v) = <<h1, h2>>
    BY <1>9, <1>p
  <2>2. CASE Hit(v) = {}
    BY <2>1, <2>2 DEF WriteTlb, tlbwr
  <2>3. CASE Hit(v) # {}
    <3>1. PICK n \in Hit(v) : tlb' = [tlb EXCEPT ![n] = TlbEntry(v, <<h1, h2>>)]
      BY <2>1, <2>3 DEF WriteTlb
    <3>2. ASSUME NEW i \in Hit(v)
          PROVE  i = n
      <4>1. tlb[i].asid = asid /\ asid # 0 /\ i \in Index /\ n \in Index
        BY <1>c, <1>0, <1>1 DEF Hit, Matches, TlbInv, Pid
      <4>2. tlb[i] # NoEntry
        BY <4>1 DEF NoEntry
      <4> QED
        BY <1>0, <4>1, <4>2 DEF Hit, Matches, TlbInv, TlbUnique
    <3> QED
      BY <3>1, <3>2 DEF Hit
  <2> QED
    BY <2>2, <2>3
<1>21. TlbInv'
  <2>1. <<h1, h2>> \in (User \cup {Invalid}) \X (User \cup {Invalid})
    BY <1>11, <1>13
  <2>2. current \in Alive /\ current < next_pid /\ current \in Pid /\ asid \in 0..(AsidMod - 1)
    BY <1>c, <1>0, <1>1 DEF Typed
  <2> QED
    BY <1>0, <1>2, <1>18, <1>19, <1>20, <2>1, <2>2, TlbWrite
\* What becomes of the frames.
<1>22. \A y \in Cell : FrameMap[y] # 0 => FrameMap'[y] = FrameMap[y]
  <2>1. DOMAIN FrameMap = Cell
    BY DEF FrameMap
  <2> HIDE DEF x1, x2
  <2> QED
    BY <1>10, <1>11, <1>13, <1>15, <2>1
<1>23. FrameMap'[x1] = h1 /\ FrameMap'[x2] = h2
  <2>1. DOMAIN FrameMap = Cell
    BY DEF FrameMap
  <2> HIDE DEF x1, x2
  <2> QED
    BY <1>10, <1>15, <2>1
<1>24. \A f \in FreeIn(page_ctrl.user) :
         f \in FreeIn(page_ctrl'.user) \/ \E y \in Cell : FrameMap'[y] = f
  <2> HIDE DEF x1, x2, u1, u2
  <2> QED
    BY <1>9, <1>10, <1>11, <1>13, <1>23
<1>25. \A f \in User : f < page_ctrl'.user.next =>
         f < page_ctrl.user.next \/ \E y \in Cell : FrameMap'[y] = f
  <2>1. User \subseteq Int
    BY Sizes
  <2> HIDE DEF x1, x2, u1, u2
  <2> QED
    BY <1>9, <1>10, <1>11, <1>13, <1>23, <2>1
<1> QED
  BY <1>2, <1>16, <1>21, <1>22, <1>24, <1>25 DEF VMInv

LEMMA NextVM == VMInv /\ [Next]_vars => VMInv'
<1> SUFFICES ASSUME VMInv, [Next]_vars
             PROVE  VMInv'
  OBVIOUS
<1>1. ASSUME NEW v \in Vpn2, TLBexception_handler(v)
      PROVE  VMInv'
  BY <1>1, RefillVM
<1>2. ASSUME NEW v \in Vpn2, NEW h \in 1..2, TLB_Invalid_handler(v, h)
      PROVE  VMInv'
  BY <1>2, MapVM DEF TLB_Invalid_handler
<1>3. ASSUME NEW v \in Vpn2, do_TLB_Refill(v)
      PROVE  VMInv'
  BY <1>3, MapVM DEF do_TLB_Refill
<1>4. CASE do_spawn
  BY <1>4, SpawnVM
<1>5. ASSUME NEW p \in Pid, do_scheduler(p)
      PROVE  VMInv'
  BY <1>5, SchedulerVM
<1>6. ASSUME NEW p \in Pid, free_proc(p)
      PROVE  VMInv'
  BY <1>6, FreeProcVM
<1>7. CASE UNCHANGED vars
  <2>1. UNCHANGED memory /\ current' = current /\ asid' = asid /\ tlb' = tlb
    BY <1>7 DEF vars, memory
  <2>2. current' \in Alive \cup {NoProc} /\ asid' \in 0..(AsidMod - 1)
    BY <2>1 DEF VMInv, MemInv, Typed
  <2>3. MemInv' /\ Alive' = Alive
    BY <2>1, <2>2, MemFrame DEF VMInv
  <2>4. TlbInv'
    BY <2>1, <2>3 DEF VMInv, TlbInv, EntryOK, TlbUnique, Matches, memory, Lo, Pte, PtOf
  <2> QED
    BY <2>3, <2>4 DEF VMInv
<1> QED
  BY <1>1, <1>2, <1>3, <1>4, <1>5, <1>6, <1>7 DEF Next

\* No page directory, page table or user page is ever used twice or used while it is
\* free, however processes are started, killed and touch their memory; the allocators
\* stay within the frames of the model.
THEOREM VMExclusive == Spec => []MemoryExclusive
  BY InitVM, NextVM, MemImplies, PTL DEF Spec

\* The running process translates every address as its own page table does, although the
\* TLB is never flushed.
THEOREM VMCoherent == Spec => []TlbCoherent
  BY InitVM, NextVM, TlbImplies, PTL DEF Spec

\* The TLB never holds two entries for one address.
THEOREM VMUnique == Spec => []TlbUnique
<1>1. VMInv => TlbUnique
  BY DEF VMInv, TlbInv
<1> QED
  BY <1>1, InitVM, NextVM, PTL DEF Spec

\* The pages that are lost, in terms of FrameMap.
LostSet == {f \in User : /\ f < page_ctrl.user.next
                         /\ f \notin FreeIn(page_ctrl.user)
                         /\ \A y \in Cell : FrameMap[y] # f}

LEMMA LostFrames == VMInv => LostUser = LostSet
<1> SUFFICES ASSUME NEW f \in User
             PROVE  (\A p \in Alive, d \in Dir, e \in Entry : Pte(p, d, e) # f)
                      <=> \A y \in Cell : FrameMap[y] # f
  BY DEF LostUser, LostSet
<1>1. f # Invalid
  BY Sizes DEF Invalid
<1>2. ASSUME NEW p \in Alive, NEW d \in Dir, NEW e \in Entry
      PROVE  <<<<p, d>>, e>> \in Cell /\ FrameMap[<<<<p, d>>, e>>] = Pte(p, d, e)
  BY DEF Alive, Cell, Slot, FrameMap
<1>3. ASSUME NEW y \in Cell, FrameMap[y] = f
      PROVE  \E p \in Alive, d \in Dir, e \in Entry : Pte(p, d, e) = f
  <2>1. y[1][1] \in Alive /\ Pte(y[1][1], y[1][2], y[2]) = f
    BY <1>1, <1>3 DEF FrameMap
  <2>2. y[1][2] \in Dir /\ y[2] \in Entry
    BY DEF Cell, Slot
  <2> QED
    BY <2>1, <2>2
<1> QED
  BY <1>2, <1>3

\* A page that is neither mapped nor free was lost before, or it was dropped by a
\* free_page that found the free list full: nothing else loses a page.
THEOREM VMLoss == Spec => LostOnlyWhenFull
<1> DEFINE Step == LostUser' \subseteq LostUser \/ Len(page_ctrl.user.free') = MaxFree
<1>1. VMInv /\ VMInv' /\ [Next]_vars => [Step]_vars
  <2> SUFFICES ASSUME VMInv, VMInv', Next
               PROVE  Step
    OBVIOUS
  <2>0. 0 \notin User
    BY Sizes
  <2>f. /\ LostUser = {f \in User : /\ f < page_ctrl.user.next
                                    /\ f \notin FreeIn(page_ctrl.user)
                                    /\ \A y \in Cell : FrameMap[y] # f}
        /\ LostUser' = {f \in User : /\ f < page_ctrl'.user.next
                                     /\ f \notin FreeIn(page_ctrl'.user)
                                     /\ \A y \in Cell : FrameMap'[y] # f}
    <3>1. VMInv' => (LostUser = LostSet)'
      BY LostFrames, PTL
    <3>2. LostSet' = {f \in User : /\ f < page_ctrl'.user.next
                                  /\ f \notin FreeIn(page_ctrl'.user)
                                  /\ \A y \in Cell : FrameMap'[y] # f}
      BY DEF LostSet, FreeIn
    <3> QED
      BY <3>1, <3>2, LostFrames DEF LostSet
  <2>1. ASSUME FrameMap' = FrameMap, page_ctrl'.user = page_ctrl.user
        PROVE  Step
    BY <2>1, <2>f
  <2>2. ASSUME UNCHANGED memory
        PROVE  Step
    <3>1. FrameMap' = FrameMap /\ page_ctrl'.user = page_ctrl.user
      BY <2>2 DEF memory, FrameMap, Alive, Pte, PtOf
    <3> QED
      BY <2>1, <3>1
  <2>3. ASSUME NEW v \in Vpn2, current # NoProc, MapPair(v), WriteTlb(v, NewLo(v)),
               UNCHANGED <<page_table, next_pid, current, asid>>
        PROVE  Step
    <3>1. /\ \A y \in Cell : FrameMap[y] # 0 => FrameMap'[y] = FrameMap[y]
          /\ \A f \in FreeIn(page_ctrl.user) :
               f \in FreeIn(page_ctrl'.user) \/ \E y \in Cell : FrameMap'[y] = f
          /\ \A f \in User : f < page_ctrl'.user.next =>
               f < page_ctrl.user.next \/ \E y \in Cell : FrameMap'[y] = f
      BY <2>3, MapVM
    <3> QED
      BY <2>0, <2>f, <3>1
  <2>4. ASSUME NEW p \in Pid, free_proc(p)
        PROVE  Step
    <3>1. /\ page_ctrl'.user.next = page_ctrl.user.next
          /\ \A y \in Cell : FrameMap[y] # 0 =>
               FrameMap'[y] = FrameMap[y] \/ FrameMap[y] \in Range(UserPages(p))
          /\ \/ FreeIn(page_ctrl'.user) = FreeIn(page_ctrl.user) \cup Range(UserPages(p))
             \/ Len(page_ctrl'.user.free) = MaxFree
      BY <2>4, FreeProcVM
    <3> QED
      BY <2>0, <2>f, <3>1
  <2> QED
    BY <2>1, <2>2, <2>3, <2>4, SpawnVM
    DEF Next, TLBexception_handler, TLB_Invalid_handler, do_TLB_Refill, do_scheduler, memory
<1> QED
  BY <1>1, InitVM, NextVM, PTL DEF Spec, LostOnlyWhenFull
=============================================================================
