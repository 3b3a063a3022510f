------------------------------ MODULE FsProofs ------------------------------
(***************************************************************************)
(* The file system stays consistent and keeps what is written.             *)
(*                                                                         *)
(* The blocks: Holdings are the pairs of an inode and the addresses in one *)
(* of its copies, on the disk or in a file descriptor; OwnedOK says that a *)
(* block is held by one index of one inode and is marked as used.          *)
(* The directories: TreeOK, about functions, so that adding an entry and   *)
(* removing the last one are lemmas of their own (TreeAdd, TreeRemove).    *)
(* The contents: Kept, about every copy of an inode.  Then one lemma for   *)
(* each operation of Fs (MkdirSound, ..., CloseSound).                     *)
(* The current directory may be one that was removed: CwdOK says what is   *)
(* left of it, and of its parents when they were removed after it.         *)
(***************************************************************************)
EXTENDS Fs, FiniteSetTheorems, WellFoundedInduction, TLAPS

EntryType == [name : Name \cup {".", ".."}, inode_id : Inode]

\* The tree of the directories D with the entries E, where the inodes B are in use.
\* FsConsistent alone is not inductive: that ".." names the directory that holds the
\* entry is what keeps do_rmdir from leaving a child without its parent.
DirOK(D, E, d) ==
  /\ E[d] \in Seq(EntryType) /\ Len(E[d]) \in 2..MaxEntry
  /\ E[d][1] = Entry(".", d) /\ E[d][2].inode_id \in D
  /\ \A i, j \in 1..Len(E[d]) : E[d][i].name = E[d][j].name => i = j

ParentOK(D, E) ==
  \A d, e \in D : \A i \in 3..Len(E[d]) : E[d][i].inode_id = e => E[e][2].inode_id = d

EnteredOnce(B, D, E) ==
  /\ \A d \in D : \A i \in 3..Len(E[d]) : E[d][i].inode_id \in B
  /\ \A n \in B \ {Root} : \E d \in D : \E i \in 3..Len(E[d]) : E[d][i].inode_id = n
  /\ \A d, e \in D : \A i \in 3..Len(E[d]), j \in 3..Len(E[e]) :
       E[d][i].inode_id = E[e][j].inode_id => d = e /\ i = j

TreeOK(B, D, E) ==
  /\ Root \in D /\ D \subseteq B /\ B \subseteq Inode /\ E[Root][2].inode_id = Root
  /\ \A d \in D : DirOK(D, E, d)
  /\ ParentOK(D, E)
  /\ EnteredOnce(B, D, E)

\* No inode has two entries.
OneEntry(D, E) ==
  \A d, e \in D : \A i \in 3..Len(E[d]), j \in 3..Len(E[e]) :
    E[d][i].inode_id = E[e][j].inode_id => d = e /\ i = j

LEMMA TreeEntries ==
  ASSUME NEW B, NEW D, NEW E, TreeOK(B, D, E)
  PROVE  OneEntry(D, E)
<1>1. EnteredOnce(B, D, E)
  BY DEF TreeOK
<1> QED
  BY <1>1, Zenon DEF EnteredOnce, OneEntry

LEMMA EntryFields ==
  \A name, n : Entry(name, n).name = name /\ Entry(name, n).inode_id = n
  BY DEF Entry

\* What do_touch does to the tree: an unused inode n is entered in fa.
LEMMA TreeAdd ==
  ASSUME NEW B, NEW D, NEW E, NEW F, TreeOK(B, D, E),
         NEW fa \in D, NEW n \in Inode \ B, NEW name \in Name,
         \A i \in 1..Len(E[fa]) : E[fa][i].name # name, Len(E[fa]) < MaxEntry,
         F[fa] = Append(E[fa], Entry(name, n)), \A d \in D \ {fa} : F[d] = E[d]
  PROVE  TreeOK(B \cup {n}, D, F)
<1> DEFINE L == Len(E[fa])
<1>1. E[fa] \in Seq(EntryType) /\ L \in Nat /\ L >= 2 /\ L + 1 <= MaxEntry
  BY FsAssumption DEF TreeOK, DirOK, ParentOK, EnteredOnce
<1>2. Entry(name, n) \in EntryType
  BY DEF EntryType, Entry
<1>3. /\ F[fa] \in Seq(EntryType) /\ Len(F[fa]) = L + 1
      /\ \A i \in 1..L : F[fa][i] = E[fa][i]
      /\ F[fa][L + 1] = Entry(name, n)
  BY <1>1, <1>2
<1>4. ASSUME NEW d \in D
      PROVE  /\ F[d] \in Seq(EntryType) /\ Len(F[d]) \in 2..MaxEntry
             /\ Len(E[d]) \in Nat /\ Len(E[d]) >= 2
             /\ \A i \in 1..Len(E[d]) : F[d][i] = E[d][i]
             /\ Len(F[d]) = IF d = fa THEN L + 1 ELSE Len(E[d])
  <2>1. E[d] \in Seq(EntryType) /\ Len(E[d]) \in 2..MaxEntry
    BY DEF TreeOK, DirOK
  <2>2. CASE d = fa
    <3>1. Len(F[d]) \in 2..MaxEntry
      BY <1>1, <1>3, <2>2, FsAssumption
    <3> QED
      BY <1>1, <1>3, <2>2, <3>1
  <2>3. CASE d # fa
    <3>1. F[d] = E[d]
      BY <2>3
    <3> QED
      BY <2>1, <2>3, <3>1, FsAssumption
  <2> QED
    BY <2>2, <2>3
<1> HIDE DEF L
<1>5. ASSUME NEW d \in D
      PROVE  F[d][1] = E[d][1] /\ F[d][2] = E[d][2]
  BY <1>4
<1>6. Root \in D /\ D \subseteq B \cup {n} /\ B \cup {n} \subseteq Inode /\ F[Root][2].inode_id = Root
  BY <1>5 DEF TreeOK, DirOK, ParentOK, EnteredOnce
<1>7. ASSUME NEW d \in D
      PROVE  F[d][1] = Entry(".", d) /\ F[d][2].inode_id \in D
  BY <1>5 DEF TreeOK, DirOK, ParentOK, EnteredOnce
<1>8. ASSUME NEW d \in D, NEW i \in 1..Len(F[d]), NEW j \in 1..Len(F[d]), F[d][i].name = F[d][j].name
      PROVE  i = j
  <2>1. CASE d # fa
    BY <2>1, <1>8, <1>4 DEF TreeOK, DirOK, ParentOK, EnteredOnce
  <2>2. CASE d = fa
    <3>1. F[fa][L + 1].name = name
      BY <1>3, EntryFields
    <3>2. \A k \in 1..L : F[fa][k].name # name
      BY <1>3 DEF L
    <3>3. \A k, l \in 1..L : F[fa][k].name = F[fa][l].name => k = l
      BY <1>3 DEF L, TreeOK, DirOK
    <3>4. (i \in 1..L \/ i = L + 1) /\ (j \in 1..L \/ j = L + 1)
      BY <2>2, <1>1, <1>3
    <3>5. F[fa][i].name = F[fa][j].name
      BY <2>2, <1>8
    <3> HIDE DEF L
    <3> QED
      BY <3>1, <3>2, <3>3, <3>4, <3>5, Zenon
  <2> QED
    BY <2>1, <2>2
<1>9. ASSUME NEW d \in D, NEW i \in 3..Len(F[d])
      PROVE  \/ i \in 3..Len(E[d]) /\ F[d][i] = E[d][i] /\ F[d][i].inode_id \in B
             \/ d = fa /\ i = L + 1 /\ F[d][i].inode_id = n
  <2>1. CASE i <= Len(E[d])
    BY <2>1, <1>4 DEF TreeOK, DirOK, ParentOK, EnteredOnce
  <2>2. CASE ~(i <= Len(E[d]))
    <3>1. d = fa /\ i = L + 1
      BY <2>2, <1>4, <1>1 DEF L
    <3> QED
      BY <3>1, <1>3, EntryFields
  <2> QED
    BY <2>1, <2>2
<1>10. n \notin B /\ n \notin D
  BY DEF TreeOK, DirOK, ParentOK, EnteredOnce
<1>11. ASSUME NEW d \in D, NEW e \in D, NEW i \in 3..Len(F[d]), F[d][i].inode_id = e
       PROVE  F[e][2].inode_id = d
  <2>1. i \in 3..Len(E[d]) /\ E[d][i].inode_id = e
    BY <1>9, <1>10, <1>11
  <2>2. E[e][2].inode_id = d
    BY <2>1 DEF TreeOK, ParentOK
  <2> QED
    BY <2>2, <1>5
<1>12. ASSUME NEW m \in (B \cup {n}) \ {Root}
       PROVE  \E d \in D : \E i \in 3..Len(F[d]) : F[d][i].inode_id = m
  <2>1. CASE m = n
    <3>1. L + 1 \in 3..Len(F[fa]) /\ F[fa][L + 1].inode_id = n
      BY <1>1, <1>3, EntryFields
    <3> QED
      BY <3>1, <2>1
  <2>2. CASE m \in B \ {Root}
    <3>1. PICK d \in D : \E i \in 3..Len(E[d]) : E[d][i].inode_id = m
      BY <2>2 DEF TreeOK, DirOK, ParentOK, EnteredOnce
    <3>2. PICK i \in 3..Len(E[d]) : E[d][i].inode_id = m
      BY <3>1
    <3>3. i \in 3..Len(F[d]) /\ F[d][i].inode_id = m
      BY <3>2, <1>4, <1>1 DEF L
    <3> QED
      BY <3>3
  <2> QED
    BY <2>1, <2>2
<1>13. ASSUME NEW d \in D, NEW e \in D, NEW i \in 3..Len(F[d]), NEW j \in 3..Len(F[e]),
              F[d][i].inode_id = F[e][j].inode_id
       PROVE  d = e /\ i = j
  <2>1. CASE F[d][i].inode_id = n
    BY <2>1, <1>9, <1>10, <1>13
  <2>2. CASE F[d][i].inode_id # n
    <3>1. i \in 3..Len(E[d]) /\ F[d][i] = E[d][i] /\ j \in 3..Len(E[e]) /\ F[e][j] = E[e][j]
      BY <2>2, <1>9, <1>13
    <3>2. E[d][i].inode_id = E[e][j].inode_id
      BY <3>1, <1>13, Zenon
    <3>3. OneEntry(D, E)
      BY TreeEntries
    <3> QED
      BY <3>1, <3>2, <3>3 DEF OneEntry
  <2> QED
    BY <2>1, <2>2
<1>14. \A d \in D : \A i \in 3..Len(F[d]) : F[d][i].inode_id \in B \cup {n}
  BY <1>9
<1> QED
  <2>1. \A d \in D : DirOK(D, F, d)
    BY <1>4, <1>7, <1>8 DEF DirOK
  <2>2. ParentOK(D, F)
    BY <1>11 DEF ParentOK
  <2>3. EnteredOnce(B \cup {n}, D, F)
    BY <1>12, <1>13, <1>14, Zenon DEF EnteredOnce
  <2> QED
    BY <1>6, <2>1, <2>2, <2>3 DEF TreeOK

\* What do_mkdir does besides: n is a directory with two entries.
LEMMA TreeAddDir ==
  ASSUME NEW B, NEW D, NEW E, NEW F, TreeOK(B, D, E), NEW fa \in D, NEW n \in B \ D,
         n # Root, NEW i0 \in 3..Len(E[fa]), E[fa][i0].inode_id = n,
         F[n] = <<Entry(".", n), Entry("..", fa)>>, \A d \in D : F[d] = E[d]
  PROVE  TreeOK(B, D \cup {n}, F)
<1>0. B \subseteq Inode /\ fa \in Inode /\ n \in Inode
  BY DEF TreeOK, DirOK, ParentOK, EnteredOnce
<1>1. Entry(".", n) \in EntryType /\ Entry("..", fa) \in EntryType
  BY <1>0 DEF EntryType, Entry
<1>2. /\ F[n] \in Seq(EntryType) /\ Len(F[n]) = 2
      /\ F[n][1] = Entry(".", n) /\ F[n][2] = Entry("..", fa)
  BY <1>1
<1>3. F[n][1].name = "." /\ F[n][2].name = ".." /\ F[n][2].inode_id = fa
  BY <1>2, EntryFields
<1>4. "." # ".."
  OBVIOUS
<1>5. \A i, j \in 1..2 : F[n][i].name = F[n][j].name => i = j
  BY <1>3, <1>4
<1>6. 2 \in 2..MaxEntry
  BY FsAssumption
<1>7. 3..Len(F[n]) = {}
  BY <1>2
<1>8. /\ Root \in D \cup {n} /\ D \cup {n} \subseteq B /\ B \subseteq Inode
      /\ F[Root][2].inode_id = Root
  BY DEF TreeOK, DirOK, ParentOK, EnteredOnce
<1>9. ASSUME NEW d \in D \cup {n}
      PROVE  /\ F[d] \in Seq(EntryType) /\ Len(F[d]) \in 2..MaxEntry
             /\ F[d][1] = Entry(".", d) /\ F[d][2].inode_id \in D \cup {n}
             /\ \A i, j \in 1..Len(F[d]) : F[d][i].name = F[d][j].name => i = j
  <2>1. CASE d = n
    BY <2>1, <1>2, <1>3, <1>5, <1>6
  <2>2. CASE d # n
    <3>1. d \in D /\ F[d] = E[d]
      BY <2>2
    <3> QED
      BY <3>1 DEF TreeOK, DirOK, ParentOK, EnteredOnce
  <2> QED
    BY <2>1, <2>2
<1>10. ASSUME NEW d \in D \cup {n}, NEW i \in 3..Len(F[d])
       PROVE  d \in D /\ F[d] = E[d] /\ i \in 3..Len(E[d])
  BY <1>7
<1>11. ASSUME NEW d \in D, NEW i \in 3..Len(E[d]), E[d][i].inode_id = n
       PROVE  d = fa
  BY <1>11 DEF TreeOK, DirOK, ParentOK, EnteredOnce
<1>12. ASSUME NEW d \in D \cup {n}, NEW i \in 3..Len(F[d])
       PROVE  F[d][i].inode_id \in B
  BY <1>10 DEF TreeOK, DirOK, ParentOK, EnteredOnce
<1>13. ASSUME NEW d \in D \cup {n}, NEW e \in D \cup {n}, NEW i \in 3..Len(F[d]),
              F[d][i].inode_id = e
       PROVE  F[e][2].inode_id = d
  <2>1. d \in D /\ F[d] = E[d] /\ i \in 3..Len(E[d])
    BY <1>10
  <2>2. CASE e = n
    BY <2>1, <2>2, <1>11, <1>13, <1>3
  <2>3. CASE e # n
    BY <2>1, <2>3, <1>13 DEF TreeOK, DirOK, ParentOK, EnteredOnce
  <2> QED
    BY <2>2, <2>3
<1>14. ASSUME NEW m \in B \ {Root}
       PROVE  \E d \in D \cup {n} : \E i \in 3..Len(F[d]) : F[d][i].inode_id = m
  <2>1. PICK d \in D : \E i \in 3..Len(E[d]) : E[d][i].inode_id = m
    BY DEF TreeOK, DirOK, ParentOK, EnteredOnce
  <2>2. F[d] = E[d]
    OBVIOUS
  <2> QED
    BY <2>1, <2>2
<1>15. ASSUME NEW d \in D \cup {n}, NEW e \in D \cup {n}, NEW i \in 3..Len(F[d]),
              NEW j \in 3..Len(F[e]), F[d][i].inode_id = F[e][j].inode_id
       PROVE  d = e /\ i = j
  <2>1. d \in D /\ F[d] = E[d] /\ i \in 3..Len(E[d])
    BY <1>10, Zenon
  <2>2. e \in D /\ F[e] = E[e] /\ j \in 3..Len(E[e])
    BY <1>10, Zenon
  <2>3. E[d][i].inode_id = E[e][j].inode_id
    BY <2>1, <2>2, <1>15, Zenon
  <2>4. OneEntry(D, E)
    BY TreeEntries
  <2> QED
    BY <2>1, <2>2, <2>3, <2>4 DEF OneEntry
<1> QED
  <2>1. \A d \in D \cup {n} : DirOK(D \cup {n}, F, d)
    BY <1>9 DEF DirOK
  <2>2. ParentOK(D \cup {n}, F)
    BY <1>13 DEF ParentOK
  <2>3. EnteredOnce(B, D \cup {n}, F)
    BY <1>12, <1>14, <1>15, Zenon DEF EnteredOnce
  <2> QED
    BY <1>8, <2>1, <2>2, <2>3 DEF TreeOK

LEMMA TreeSame ==
  ASSUME NEW B, NEW D, NEW E, NEW F, TreeOK(B, D, E), \A d \in D : F[d] = E[d]
  PROVE  TreeOK(B, D, F)
<1>1. Root \in D
  BY DEF TreeOK
<1>2. \A d \in D : DirOK(D, F, d)
  BY DEF TreeOK, DirOK
<1>3. ParentOK(D, F)
  BY DEF TreeOK, ParentOK
<1>4. EnteredOnce(B, D, F)
  <2>1. EnteredOnce(B, D, E)
    BY DEF TreeOK
  <2>2. \A d \in D : \A i \in 3..Len(F[d]) : F[d][i].inode_id \in B
    BY <2>1 DEF EnteredOnce
  <2>3. ASSUME NEW n \in B \ {Root}
        PROVE  \E d \in D : \E i \in 3..Len(F[d]) : F[d][i].inode_id = n
    <3>1. PICK d \in D : \E i \in 3..Len(E[d]) : E[d][i].inode_id = n
      BY <2>1 DEF EnteredOnce
    <3>2. F[d] = E[d]
      OBVIOUS
    <3> QED
      BY <3>1, <3>2
  <2>4. \A d, e \in D : \A i \in 3..Len(F[d]), j \in 3..Len(F[e]) :
          F[d][i].inode_id = F[e][j].inode_id => d = e /\ i = j
    BY <2>1 DEF EnteredOnce
  <2> QED
    BY <2>2, <2>3, <2>4 DEF EnteredOnce
<1> QED
  BY <1>1, <1>2, <1>3, <1>4 DEF TreeOK

LEMMA DirLen ==
  ASSUME NEW B, NEW D, NEW E, TreeOK(B, D, E), NEW d \in D
  PROVE  /\ E[d] \in Seq(EntryType) /\ DOMAIN E[d] = 1..Len(E[d])
         /\ Len(E[d]) \in Nat /\ Len(E[d]) >= 2 /\ Len(E[d]) <= MaxEntry
<1>1. E[d] \in Seq(EntryType) /\ Len(E[d]) \in 2..MaxEntry
  BY DEF TreeOK, DirOK
<1> QED
  BY <1>1, FsAssumption

\* The entry that do_rmdir removes is the last of the parent, and the only one for n.
LEMMA RemovedEntry ==
  ASSUME NEW B, NEW D, NEW E, TreeOK(B, D, E), NEW n \in D \ {Root}, NEW fa,
         fa = E[n][2].inode_id, Last(E[fa]).inode_id = n, Len(E[n]) = 2
  PROVE  /\ fa \in D \ {n} /\ Len(E[fa]) \in Nat /\ Len(E[fa]) >= 3
         /\ E[fa][Len(E[fa])].inode_id = n
         /\ Removed(E[fa], n) = Front(E[fa])
<1>1. n \in D /\ n \in B /\ fa \in D /\ n # Root
  BY DEF TreeOK, DirOK
<1>2. Len(E[n]) = 2 /\ 3..Len(E[n]) = {}
  OBVIOUS
<1>3. PICK d \in D : \E i \in 3..Len(E[d]) : E[d][i].inode_id = n
  BY <1>1 DEF TreeOK, EnteredOnce
<1>4. PICK i0 \in 3..Len(E[d]) : E[d][i0].inode_id = n
  BY <1>3
<1>5. d = fa /\ d # n
  BY <1>1, <1>2, <1>4 DEF TreeOK, ParentOK
<1>6. E[fa] \in Seq(EntryType) /\ Len(E[fa]) \in Nat /\ Len(E[fa]) >= 3 /\ DOMAIN E[fa] = 1..Len(E[fa])
  BY <1>1, <1>4, <1>5, FsAssumption DEF TreeOK, DirOK
<1>7. E[fa][Len(E[fa])].inode_id = n
  BY DEF Last
<1>8. E[fa][1].inode_id = fa
  BY <1>1, EntryFields DEF TreeOK, DirOK
<1>9. E[fa][2].inode_id # n
  <2>1. CASE fa = Root
    BY <2>1, <1>1 DEF TreeOK
  <2>2. CASE fa # Root
    <3>1. fa \in B \ {Root}
      BY <1>1, <2>2 DEF TreeOK
    <3>2. PICK e \in D : \E i \in 3..Len(E[e]) : E[e][i].inode_id = fa
      BY <3>1 DEF TreeOK, EnteredOnce
    <3>3. E[fa][2].inode_id = e
      BY <3>2, <1>1 DEF TreeOK, ParentOK
    <3> QED
      BY <3>2, <3>3, <1>2
  <2> QED
    BY <2>1, <2>2
<1>10. ASSUME NEW i \in DOMAIN E[fa], E[fa][i].inode_id = n
       PROVE  i = Len(E[fa])
  <2>1. i # 1 /\ i # 2
    BY <1>10, <1>8, <1>9, <1>5
  <2>2. i \in 3..Len(E[fa]) /\ Len(E[fa]) \in 3..Len(E[fa])
    BY <2>1, <1>6
  <2> QED
    <3> DEFINE L == Len(E[fa])
    <3>1. E[fa][i].inode_id = E[fa][L].inode_id /\ L \in 3..Len(E[fa])
      BY <1>7, <1>10, <2>2
    <3> HIDE DEF L
    <3>2. OneEntry(D, E)
      BY TreeEntries
    <3>3. i = L
      BY <2>2, <3>1, <3>2, <1>1 DEF OneEntry
    <3> QED
      BY <3>3 DEF L
<1>11. Max({i \in DOMAIN E[fa] : E[fa][i].inode_id = n}) = Len(E[fa])
  <2>1. Len(E[fa]) \in DOMAIN E[fa]
    BY <1>6
  <2>2. {i \in DOMAIN E[fa] : E[fa][i].inode_id = n} = {Len(E[fa])}
    BY <2>1, <1>7, <1>10
  <2>3. \A i \in Nat : Max({i}) = i
    BY DEF Max
  <2> QED
    BY <2>2, <2>3, <1>6
<1>12. Removed(E[fa], n) = Front(E[fa])
  BY <1>11, Zenon DEF Removed
<1> QED
  BY <1>1, <1>5, <1>6, <1>7, <1>12

\* What do_rmdir does to the tree when it does no damage.
LEMMA TreeRemove ==
  ASSUME NEW B, NEW D, NEW E, NEW F, TreeOK(B, D, E), NEW n \in D \ {Root}, NEW fa,
         fa = E[n][2].inode_id, Last(E[fa]).inode_id = n, Len(E[n]) = 2,
         F[fa] = Removed(E[fa], n), \A d \in D \ {fa} : F[d] = E[d]
  PROVE  TreeOK(B \ {n}, D \ {n}, F)
<1> DEFINE L == Len(E[fa])
<1>1. /\ fa \in D \ {n} /\ L \in Nat /\ L >= 3 /\ E[fa][L].inode_id = n
      /\ F[fa] = Front(E[fa])
  BY RemovedEntry
<1>2. E[fa] \in Seq(EntryType) /\ L <= MaxEntry
  BY <1>1, FsAssumption DEF TreeOK, DirOK
<1>3. /\ F[fa] \in Seq(EntryType) /\ Len(F[fa]) = L - 1
      /\ \A i \in 1..(L - 1) : F[fa][i] = E[fa][i]
  BY <1>1, <1>2 DEF Front
<1>4. n \in D /\ n \in B /\ n # Root /\ Len(E[n]) = 2 /\ 3..Len(E[n]) = {}
  BY DEF TreeOK
<1> HIDE DEF L
<1>5. ASSUME NEW d \in D
      PROVE  /\ F[d] \in Seq(EntryType) /\ Len(F[d]) \in Nat /\ Len(F[d]) >= 2 /\ Len(F[d]) <= MaxEntry
             /\ Len(E[d]) \in Nat /\ Len(F[d]) = IF d = fa THEN L - 1 ELSE Len(E[d])
             /\ Len(F[d]) <= Len(E[d])
             /\ \A i \in 1..Len(F[d]) : F[d][i] = E[d][i]
  <2>1. E[d] \in Seq(EntryType) /\ Len(E[d]) \in 2..MaxEntry
    BY DEF TreeOK, DirOK
  <2>2. CASE d = fa
    <3>1. Len(E[fa]) = L /\ L - 1 >= 2 /\ L - 1 <= MaxEntry /\ L - 1 \in Nat
      BY <1>1, <1>2, FsAssumption DEF L
    <3> QED
      BY <2>2, <3>1, <1>1, <1>3
  <2>3. CASE d # fa
    <3>1. F[d] = E[d]
      BY <2>3
    <3> QED
      BY <2>1, <2>3, <3>1, FsAssumption
  <2> QED
    BY <2>2, <2>3
<1>6. ASSUME NEW d \in D
      PROVE  F[d][1] = E[d][1] /\ F[d][2] = E[d][2]
  BY <1>5
<1>7. ASSUME NEW d \in D, NEW i \in 3..Len(F[d])
      PROVE  i \in 3..Len(E[d]) /\ F[d][i] = E[d][i] /\ E[d][i].inode_id # n
  <2>1. i \in 3..Len(E[d]) /\ i \in 1..Len(F[d])
    BY <1>5
  <2>2. F[d][i] = E[d][i]
    BY <2>1, <1>5
  <2>3. ASSUME E[d][i].inode_id = n
        PROVE  FALSE
    <3>1. L \in 3..Len(E[fa]) /\ fa \in D
      BY <1>1 DEF L
    <3>2. d = fa /\ i = L
      BY <3>1, <2>1, <2>3, <1>1 DEF TreeOK, EnteredOnce
    <3> QED
      BY <3>2, <1>3, <1>1
  <2> QED
    BY <2>1, <2>2, <2>3
<1>8. ASSUME NEW d \in D \ {n}
      PROVE  E[d][2].inode_id \in D \ {n}
  <2>1. E[d][2].inode_id \in D
    BY DEF TreeOK, DirOK
  <2>2. CASE d = Root
    BY <2>1, <2>2, <1>4 DEF TreeOK
  <2>3. CASE d # Root
    <3>1. d \in B \ {Root}
      BY <2>3 DEF TreeOK
    <3>2. PICK e \in D : \E i \in 3..Len(E[e]) : E[e][i].inode_id = d
      BY <3>1 DEF TreeOK, EnteredOnce
    <3>3. E[d][2].inode_id = e
      BY <3>2 DEF TreeOK, ParentOK
    <3> QED
      BY <3>2, <3>3, <1>4
  <2> QED
    BY <2>2, <2>3
<1>9. \A d \in D \ {n} : DirOK(D \ {n}, F, d)
  <2> SUFFICES ASSUME NEW d \in D \ {n} PROVE DirOK(D \ {n}, F, d)
    OBVIOUS
  <2>1. F[d][1] = Entry(".", d)
    BY <1>6 DEF TreeOK, DirOK
  <2>2. F[d][2].inode_id \in D \ {n}
    BY <1>6, <1>8
  <2>3. ASSUME NEW i \in 1..Len(F[d]), NEW j \in 1..Len(F[d]), F[d][i].name = F[d][j].name
        PROVE  i = j
    <3>1. i \in 1..Len(E[d]) /\ j \in 1..Len(E[d]) /\ E[d][i].name = E[d][j].name
      BY <2>3, <1>5
    <3> QED
      BY <3>1 DEF TreeOK, DirOK
  <2>4. F[d] \in Seq(EntryType) /\ Len(F[d]) \in 2..MaxEntry
    BY <1>5, FsAssumption
  <2> QED
    BY <2>1, <2>2, <2>3, <2>4 DEF DirOK
<1>10. ParentOK(D \ {n}, F)
  BY <1>6, <1>7 DEF TreeOK, ParentOK
<1>11. ASSUME NEW m \in (B \ {n}) \ {Root}
       PROVE  \E d \in D \ {n} : \E i \in 3..Len(F[d]) : F[d][i].inode_id = m
  <2>1. PICK d \in D : \E i \in 3..Len(E[d]) : E[d][i].inode_id = m
    BY DEF TreeOK, EnteredOnce
  <2>2. PICK i \in 3..Len(E[d]) : E[d][i].inode_id = m
    BY <2>1
  <2>3. d # n
    BY <1>4, <2>2
  <2>4. i # L \/ d # fa
    BY <1>1, <2>2
  <2>5. i \in 3..Len(F[d]) /\ i \in 1..Len(F[d])
    BY <2>2, <2>4, <1>5, <1>1 DEF L
  <2>6. F[d][i].inode_id = m
    BY <2>2, <2>5, <1>5
  <2> QED
    BY <2>3, <2>5, <2>6
<1>12. \A d \in D \ {n} : \A i \in 3..Len(F[d]) : F[d][i].inode_id \in B \ {n}
  <2> SUFFICES ASSUME NEW d \in D \ {n}, NEW i \in 3..Len(F[d])
               PROVE  F[d][i].inode_id \in B \ {n}
    OBVIOUS
  <2>1. i \in 3..Len(E[d]) /\ F[d][i] = E[d][i] /\ E[d][i].inode_id # n
    BY <1>7
  <2> QED
    BY <2>1 DEF TreeOK, EnteredOnce
<1>13. ASSUME NEW d \in D \ {n}, NEW e \in D \ {n}, NEW i \in 3..Len(F[d]), NEW j \in 3..Len(F[e]),
              F[d][i].inode_id = F[e][j].inode_id
       PROVE  d = e /\ i = j
  <2>1. i \in 3..Len(E[d]) /\ j \in 3..Len(E[e]) /\ E[d][i].inode_id = E[e][j].inode_id
    BY <1>7, <1>13
  <2> QED
    BY <2>1 DEF TreeOK, EnteredOnce
<1>14. EnteredOnce(B \ {n}, D \ {n}, F)
  BY <1>11, <1>12, <1>13, Zenon DEF EnteredOnce
<1>15. /\ Root \in D \ {n} /\ D \ {n} \subseteq B \ {n} /\ B \ {n} \subseteq Inode
       /\ F[Root][2].inode_id = Root
  BY <1>4, <1>6 DEF TreeOK
<1> QED
  BY <1>9, <1>10, <1>14, <1>15 DEF TreeOK
-----------------------------------------------------------------------------
\* The blocks of the holdings H, pairs of an inode and the addresses it has in one of its
\* copies: every one is marked in the bitmap BB and stands at one index of one inode.
OwnedOK(BB, H) ==
  \A c \in H, k \in Index : c[2][k] # 0 =>
    /\ c[2][k] \in BB
    /\ \A d \in H, j \in Index : d[2][j] = c[2][k] => d[1] = c[1] /\ j = k

LEMMA OwnedLess ==
  ASSUME NEW BB, NEW H, NEW G, OwnedOK(BB, H), G \subseteq H
  PROVE  OwnedOK(BB, G)
  BY DEF OwnedOK

\* A copy of the inode n in which only the address at k0 can be new, the free block b.
LEMMA OwnedMore ==
  ASSUME NEW BB, NEW H, NEW n, NEW a, NEW b, NEW k0, OwnedOK(BB, H), b \notin BB,
         \A k \in Index : \/ a[k] = 0
                          \/ a[k] = b /\ k = k0
                          \/ \E c \in H : c[1] = n /\ c[2][k] = a[k]
  PROVE  OwnedOK(BB \cup {b}, H \cup {<<n, a>>})
<1> DEFINE G == H \cup {<<n, a>>}
           Old(c, k) == \E d \in H : d[1] = c[1] /\ d[2][k] = c[2][k]
<1>1. ASSUME NEW c \in G, NEW k \in Index, c[2][k] # 0
      PROVE  Old(c, k) \/ (c[1] = n /\ c[2][k] = b /\ k = k0)
  <2>1. CASE c \in H
    BY <2>1, Zenon
  <2>2. CASE c = <<n, a>>
    <3>1. c[1] = n /\ c[2] = a
      BY <2>2
    <3>2. a[k] # 0
      BY <3>1, <1>1
    <3>3. CASE a[k] = b /\ k = k0
      BY <3>1, <3>3
    <3>4. CASE \E d \in H : d[1] = n /\ d[2][k] = a[k]
      BY <3>1, <3>4, Zenon
    <3> QED
      BY <3>2, <3>3, <3>4, Zenon
  <2> QED
    BY <2>1, <2>2
<1>2. ASSUME NEW c \in G, NEW k \in Index, c[2][k] # 0, Old(c, k)
      PROVE  c[2][k] \in BB /\ c[2][k] # b
  BY <1>2 DEF OwnedOK
<1>3. ASSUME NEW c \in G, NEW k \in Index, c[2][k] # 0,
             NEW d \in G, NEW j \in Index, d[2][j] = c[2][k]
      PROVE  d[1] = c[1] /\ j = k
  <2>1. CASE Old(c, k) /\ Old(d, j)
    <3>1. PICK x \in H : x[1] = c[1] /\ x[2][k] = c[2][k]
      BY <2>1
    <3>2. PICK y \in H : y[1] = d[1] /\ y[2][j] = d[2][j]
      BY <2>1
    <3>3. x[2][k] # 0 /\ y[2][j] = x[2][k]
      BY <1>3, <3>1, <3>2
    <3>4. y[1] = x[1] /\ j = k
      BY <3>3 DEF OwnedOK
    <3> QED
      BY <3>1, <3>2, <3>4
  <2>2. CASE ~Old(c, k) \/ ~Old(d, j)
    <3>1. d[2][j] # 0
      BY <1>3
    <3> QED
      BY <1>1, <1>2, <1>3, <2>2, <3>1
  <2> QED
    BY <2>1, <2>2
<1>4. ASSUME NEW c \in G, NEW k \in Index, c[2][k] # 0
      PROVE  c[2][k] \in BB \cup {b}
  BY <1>1, <1>2, <1>4
<1> HIDE DEF G
<1>5. OwnedOK(BB \cup {b}, G)
  BY <1>3, <1>4, Zenon DEF OwnedOK
<1> QED
  BY <1>5 DEF G

\* The inode n goes, and its block x with it.
LEMMA OwnedDrop ==
  ASSUME NEW BB, NEW H, NEW G, NEW c0 \in H, OwnedOK(BB, H), 0 \in Index, c0[2][0] # 0,
         G \subseteq H, \A c \in G : c[1] # c0[1]
  PROVE  OwnedOK(BB \ {c0[2][0]}, G)
<1>1. \A c \in G, k \in Index : c[2][k] # c0[2][0]
  BY DEF OwnedOK
<1> QED
  BY <1>1 DEF OwnedOK
-----------------------------------------------------------------------------
LEMMA LeastOf ==
  ASSUME NEW T \in SUBSET Nat, T # {}
  PROVE  Min(T) \in T
<1>1. PICK m \in T : \A k \in T : <<k, m>> \notin OpToRel(<, Nat)
  BY WFMin, NatLessThanWellFounded, Zenon
<1>2. \A k \in T : ~(k < m)
  BY <1>1, Zenon DEF OpToRel
<1>3. \A k \in T : m <= k
  BY <1>2
<1> QED
  BY <1>3 DEF Min

AddrsType == [Index -> Nat]
InodeType == [type : Type, addrs : AddrsType]
CopyType  == [type : {"FILE"}, addrs : AddrsType]
OpenType  == [inode_id : Inode, inode : CopyType]

Typed ==
  /\ inode_bitmap \subseteq Inode /\ block_bitmap \subseteq Data
  /\ inode \in [Inode -> InodeType]
  /\ dir \in [Data -> Seq(EntryType)]
  /\ content \in [Data -> Value \cup {Unwritten}]
  /\ files \in [File -> OpenType \cup {NotUsed}]
  /\ written \in [Inode -> [Index -> Value \cup {Unwritten}]]
  /\ cur_dir_inode \in Inode

\* A directory has a block.  What is not a file was never written.
Bare(n) == \A k \in Index : written[n][k] = Unwritten

BareOK ==
  /\ \A n \in Inode \ inode_bitmap : Bare(n)
  /\ \A d \in Dirs : Bare(d) /\ DirBlock(d) # 0

\* An open file stays in use, for only directories are removed.
OpenFiles ==
  /\ \A f \in Using : /\ files[f].inode_id \in inode_bitmap
                      /\ inode[files[f].inode_id].type = "FILE"
  /\ \A f, g \in Using :
       files[f].inode_id = files[g].inode_id /\ files[f].inode_id \notin shared => f = g

Holdings ==
  {<<n, Addrs(inode[n])>> : n \in inode_bitmap}
    \cup {<<files[f].inode_id, files[f].inode.addrs>> : f \in Using}

EntryMap == [d \in Dirs |-> Entries(d)]

\* The addresses a of the file n lead to what was written.
Reads(n, a) ==
  \A k \in Index : written[n][k] # Unwritten => a[k] # 0 /\ content[a[k]] = written[n][k]

Kept ==
  \A n \in inode_bitmap \ shared :
    /\ \A f \in Using : files[f].inode_id = n => Reads(n, files[f].inode.addrs)
    /\ (\A f \in Using : files[f].inode_id # n) => Reads(n, inode[n].addrs)

\* What is left of the removed directories S, as long as no file has got the block: the
\* entries "." and "..", which leads to a directory or to another one of S.
Gone(S) ==
  /\ S \subseteq Inode \ inode_bitmap
  /\ \A d \in S :
       /\ inode[d].type = "DIR" /\ DirBlock(d) \in Data
       /\ \A e \in Dirs : DirBlock(e) # DirBlock(d)
       /\ DirBlock(d) \notin block_bitmap =>
            /\ Len(Entries(d)) = 2
            /\ Entries(d)[1].inode_id = d /\ Entries(d)[2].inode_id \in Dirs \cup S

\* Paths from a current directory that was removed lead to no file, unless the block is
\* taken for a directory that is none (do_find_lost).
CwdOK == \E S \in SUBSET Inode : Gone(S) /\ cur_dir_inode \in Dirs \cup S

\* The inductive invariant, as long as nothing has damaged the file system.
Sound ==
  /\ Typed /\ BareOK /\ OpenFiles /\ Kept /\ CwdOK
  /\ OwnedOK(block_bitmap, Holdings)
  /\ TreeOK(inode_bitmap, Dirs, EntryMap)

FsInv == ~broken => Sound

LEMMA AllocInode ==
  ASSUME inode_bitmap \subseteq Inode, inode_bitmap # Inode
  PROVE  alloc_inode \in Inode \ inode_bitmap
<1>1. Inode \in SUBSET Nat
  BY FsAssumption DEF Inode
<1>2. (Inode \ inode_bitmap) \in SUBSET Nat /\ (Inode \ inode_bitmap) # {}
  BY <1>1
<1> QED
  BY <1>2, LeastOf DEF alloc_inode

LEMMA AllocBlock ==
  ASSUME block_bitmap \subseteq Data, NEW b, alloc_data_block(b)
  PROVE  b \in Data \ block_bitmap /\ block_bitmap' = block_bitmap \cup {b}
<1>1. Data \in SUBSET Nat
  BY FsAssumption DEF Data
<1>2. (Data \ block_bitmap) \in SUBSET Nat /\ (Data \ block_bitmap) # {}
  BY <1>1 DEF alloc_data_block
<1> QED
  BY <1>2, LeastOf DEF alloc_data_block

\* What the type of the table of open files says of one of them.
LEMMA OpenTyped ==
  ASSUME Typed, NEW f \in Using
  PROVE  /\ f \in File /\ files[f] \in OpenType /\ files[f].inode_id \in Inode
         /\ files[f].inode \in CopyType /\ files[f].inode.addrs \in AddrsType
         /\ files[f].inode.type = "FILE"
  BY DEF Typed, Using, OpenType, CopyType

\* The addresses that an inode uses.
LEMMA DirAddrs ==
  ASSUME NEW d, inode[d].type = "DIR"
  PROVE  \A k \in Index : Addrs(inode[d])[k] = IF k = 0 THEN DirBlock(d) ELSE 0
<1>1. Addrs(inode[d]) = [NoAddrs EXCEPT ![0] = DirBlock(d)]
  BY DEF Addrs, DirBlock
<1> QED
  BY <1>1 DEF NoAddrs

\* The blocks of two directories differ, and those of a directory from those of a file.
LEMMA DirBlocks ==
  ASSUME Sound, NEW d \in Dirs
  PROVE  /\ d \in Inode /\ 0 \in Index /\ DirBlock(d) \in Data /\ DirBlock(d) \in block_bitmap
         /\ EntryMap[d] = dir[DirBlock(d)]
         /\ \A e \in Dirs : DirBlock(e) = DirBlock(d) => e = d
<1>1. 0 \in Index /\ d \in Inode /\ d \in inode_bitmap
  BY FsAssumption DEF Index, Sound, Typed, Dirs
<1>2. DirBlock(d) # 0
  BY DEF Sound, BareOK
<1>3. ASSUME NEW e \in Dirs
      PROVE  \E x \in Holdings : x[1] = e /\ x[2][0] = DirBlock(e)
  <2>1. <<e, Addrs(inode[e])>> \in Holdings
    BY DEF Holdings, Dirs
  <2>2. Addrs(inode[e])[0] = DirBlock(e)
    BY <1>1, DirAddrs DEF Dirs
  <2>3. PICK x : x = <<e, Addrs(inode[e])>>
    OBVIOUS
  <2>4. x \in Holdings /\ x[1] = e /\ x[2][0] = DirBlock(e)
    BY <2>1, <2>2, <2>3
  <2> QED
    BY <2>4, Zenon
<1>4. DirBlock(d) \in block_bitmap
  <2>1. PICK x \in Holdings : x[1] = d /\ x[2][0] = DirBlock(d)
    BY <1>3
  <2> QED
    BY <1>1, <1>2, <2>1 DEF Sound, OwnedOK
<1>5. ASSUME NEW e \in Dirs, DirBlock(e) = DirBlock(d)
      PROVE  e = d
  <2>1. PICK x \in Holdings : x[1] = d /\ x[2][0] = DirBlock(d)
    BY <1>3
  <2>2. PICK y \in Holdings : y[1] = e /\ y[2][0] = DirBlock(e)
    BY <1>3
  <2>3. y[1] = x[1]
    BY <1>1, <1>2, <1>5, <2>1, <2>2 DEF Sound, OwnedOK
  <2> QED
    BY <2>1, <2>2, <2>3
<1>6. EntryMap[d] = dir[DirBlock(d)]
  BY DEF EntryMap, Entries
<1> QED
  BY <1>1, <1>2, <1>4, <1>5, <1>6 DEF Sound, Typed

\* What an open file or a file in use holds is marked as used.
LEMMA HeldBlocks ==
  ASSUME Typed, OwnedOK(block_bitmap, Holdings), NEW j \in Index
  PROVE  /\ \A f \in Using : files[f].inode.addrs[j] \in Data \cup {0}
         /\ \A n \in inode_bitmap : inode[n].type # "DIR" => inode[n].addrs[j] \in Data \cup {0}
<1>1. ASSUME NEW c \in Holdings
      PROVE  c[2][j] \in Data \cup {0}
  BY DEF OwnedOK, Typed
<1>2. \A f \in Using : <<files[f].inode_id, files[f].inode.addrs>> \in Holdings
  BY DEF Holdings
<1>3. ASSUME NEW n \in inode_bitmap, inode[n].type # "DIR"
      PROVE  <<n, inode[n].addrs>> \in Holdings
  BY <1>3 DEF Holdings, Addrs
<1>4. \A n, a : <<n, a>>[2] = a
  OBVIOUS
<1> QED
  BY <1>1, <1>2, <1>3, <1>4

\* The names in a directory are those of inodes in use.
LEMMA EntriesUsed ==
  ASSUME Sound, NEW d \in Dirs, NEW e \in Range(Entries(d))
  PROVE  e.inode_id \in inode_bitmap
<1>1. PICK B, D, E : B = inode_bitmap /\ D = Dirs /\ E = EntryMap
  OBVIOUS
<1>2. E[d] = Entries(d) /\ d \in D /\ TreeOK(B, D, E)
  BY <1>1 DEF EntryMap, Sound
<1>3. E[d] \in Seq(EntryType) /\ DOMAIN E[d] = 1..Len(E[d]) /\ Len(E[d]) \in Nat /\ Len(E[d]) >= 2
  BY <1>2, DirLen
<1>4. PICK i \in 1..Len(E[d]) : E[d][i].inode_id = e.inode_id
  BY <1>2, <1>3 DEF Range
<1>5. E[d][1].inode_id \in B /\ E[d][2].inode_id \in B
  BY <1>2, EntryFields DEF TreeOK, DirOK
<1>6. \A j \in 3..Len(E[d]) : E[d][j].inode_id \in B
  BY <1>2 DEF TreeOK, EnteredOnce
<1>7. i = 1 \/ i = 2 \/ i \in 3..Len(E[d])
  BY <1>3
<1> QED
  BY <1>1, <1>4, <1>5, <1>6, <1>7

\* A path leads to an inode in use, or to a directory that was removed.
LEMMA FoundNode ==
  ASSUME Sound, NEW S, Gone(S), cur_dir_inode \in Dirs \cup S, NEW n \in Found
  PROVE  n \in inode_bitmap \/ n \in S
<1>1. Root \in inode_bitmap
  BY DEF Sound, TreeOK
<1>2. Climbed \subseteq Dirs \cup S
  <2>1. PICK T : T = Dirs \cup S
    OBVIOUS
  <2>2. T \in SUBSET Inode /\ cur_dir_inode \in T
    BY <2>1 DEF Gone, Sound, Typed, Dirs
  <2>3. \A e \in T \cap Ghosts : Entries(e)[2].inode_id \in T
    BY <2>1 DEF Gone, Ghosts, Dirs
  <2> QED
    BY <2>1, <2>2, <2>3, Zenon DEF Climbed
<1>3. CASE n = Root \/ n = cur_dir_inode
  BY <1>1, <1>3 DEF Dirs
<1>4. CASE ~(n = Root \/ n = cur_dir_inode)
  <2>1. PICK d \in Dirs \cup (Climbed \cap Ghosts) :
          \E e \in Range(Entries(d)) : e.inode_id = n
    BY <1>4 DEF Found
  <2>2. PICK e \in Range(Entries(d)) : e.inode_id = n
    BY <2>1
  <2>3. CASE d \in Dirs
    BY <2>2, <2>3, EntriesUsed
  <2>4. CASE d \notin Dirs
    <3>1. d \in S /\ DirBlock(d) \notin block_bitmap
      BY <1>2, <2>1, <2>4 DEF Ghosts
    <3>2. /\ Len(Entries(d)) = 2 /\ Entries(d)[1].inode_id = d
          /\ Entries(d)[2].inode_id \in Dirs \cup S /\ DirBlock(d) \in Data
      BY <3>1 DEF Gone
    <3>3. Entries(d) \in Seq(EntryType)
      BY <3>2 DEF Sound, Typed, Entries
    <3>4. DOMAIN Entries(d) = 1..2
      BY <3>2, <3>3
    <3>5. e = Entries(d)[1] \/ e = Entries(d)[2]
      BY <3>4 DEF Range
    <3> QED
      BY <2>2, <3>1, <3>2, <3>5 DEF Dirs
  <2> QED
    BY <2>3, <2>4
<1> QED
  BY <1>3, <1>4

\* A step that leaves the directories, those too that were removed.
LEMMA CwdSame ==
  ASSUME Sound, inode_bitmap' = inode_bitmap, dir' = dir, cur_dir_inode' = cur_dir_inode,
         block_bitmap \subseteq block_bitmap',
         \A d \in Inode : inode[d].type = "DIR" => inode'[d] = inode[d], Dirs' = Dirs
  PROVE  CwdOK'
<1>1. PICK S \in SUBSET Inode : Gone(S) /\ cur_dir_inode \in Dirs \cup S
  BY DEF Sound, CwdOK
<1>2. \A d \in Dirs \cup S : inode'[d] = inode[d]
  BY <1>1 DEF Gone, Sound, Typed, Dirs
<1>3. \A d \in Dirs \cup S : DirBlock(d)' = DirBlock(d) /\ Entries(d)' = Entries(d)
  BY <1>2 DEF DirBlock, Entries
<1>4. ASSUME NEW d \in S
      PROVE  /\ inode'[d].type = "DIR" /\ DirBlock(d)' \in Data
             /\ \A e \in Dirs' : DirBlock(e)' # DirBlock(d)'
             /\ DirBlock(d)' \notin block_bitmap' =>
                  /\ Len(Entries(d)') = 2
                  /\ Entries(d)'[1].inode_id = d /\ Entries(d)'[2].inode_id \in Dirs' \cup S
  <2>1. /\ inode[d].type = "DIR" /\ DirBlock(d) \in Data
        /\ \A e \in Dirs : DirBlock(e) # DirBlock(d)
        /\ DirBlock(d) \notin block_bitmap =>
             /\ Len(Entries(d)) = 2
             /\ Entries(d)[1].inode_id = d /\ Entries(d)[2].inode_id \in Dirs \cup S
    BY <1>1 DEF Gone
  <2> QED
    BY <2>1, <1>2, <1>3
<1>5. Gone(S)'
  BY <1>1, <1>4 DEF Gone
<1> QED
  BY <1>1, <1>5 DEF CwdOK

\* A current directory that is in use.
LEMMA CwdUsed ==
  /\ cur_dir_inode \in Dirs => CwdOK
  /\ cur_dir_inode' \in Dirs' => CwdOK'
<1>1. Gone({}) /\ Gone({})'
  BY DEF Gone
<1> QED
  BY <1>1 DEF CwdOK

LEMMA InitSound ==
  ASSUME Init
  PROVE  Sound
<1>1. 0 \in Index /\ 0 \in Inode /\ 1 \in Data /\ Root = 0
  BY FsAssumption DEF Index, Inode, Data, Root
<1>2. NoAddrs \in AddrsType /\ [NoAddrs EXCEPT ![0] = 1] \in AddrsType
  BY <1>1 DEF NoAddrs, AddrsType
<1>3. PICK old \in [Inode -> OldInode] :
        inode = [n \in Inode |->
          IF n = Root THEN [type |-> "DIR", addrs |-> [NoAddrs EXCEPT ![0] = 1]]
          ELSE IF n < INODES_PER_BLOCK THEN [type |-> "NONE", addrs |-> NoAddrs]
          ELSE old[n]]
  BY DEF Init
<1>4. /\ [type |-> "DIR", addrs |-> [NoAddrs EXCEPT ![0] = 1]] \in InodeType
      /\ [type |-> "NONE", addrs |-> NoAddrs] \in InodeType
  BY <1>2 DEF InodeType, Type
<1>5. inode[Root].type = "DIR" /\ inode[Root].addrs = [NoAddrs EXCEPT ![0] = 1]
  BY <1>1, <1>3
<1>6. \A n \in Inode : old[n] \in InodeType
  BY <1>3, FsAssumption DEF InodeType, AddrsType
<1>7. inode \in [Inode -> InodeType]
  <2>1. \A n \in Inode : inode[n] \in InodeType
    BY <1>3, <1>4, <1>6
  <2> QED
    BY <2>1, <1>3
<1>8. Dirs = {Root} /\ DirBlock(Root) = 1
  BY <1>1, <1>5 DEF Init, Dirs, DirBlock, NoAddrs
<1>9. Using = {}
  BY DEF Init, Using
<1> DEFINE s == <<Entry(".", Root), Entry("..", Root)>>
<1>10. Entry(".", Root) \in EntryType /\ Entry("..", Root) \in EntryType
  BY <1>1 DEF Entry, EntryType
<1>11. s \in Seq(EntryType) /\ Len(s) = 2 /\ s[1] = Entry(".", Root) /\ s[2] = Entry("..", Root)
  BY <1>10
<1>12. EntryMap[Root] = s
  BY <1>1, <1>8 DEF EntryMap, Entries, Init
<1>13. Typed
  <2>1. dir \in [Data -> Seq(EntryType)]
    BY <1>11 DEF Init
  <2> QED
    BY <2>1, <1>1, <1>7 DEF Init, Typed
<1>14. BareOK
  <2>1. \A n \in Inode, k \in Index : written[n][k] = Unwritten
    BY DEF Init
  <2>2. \A n \in Inode : Bare(n)
    BY <2>1 DEF Bare
  <2>3. Dirs \subseteq Inode /\ \A d \in Dirs : DirBlock(d) # 0
    BY <1>1, <1>8
  <2> QED
    BY <2>2, <2>3 DEF BareOK
<1>15. OpenFiles /\ Kept
  BY <1>1, <1>9 DEF OpenFiles, Kept, Reads, Init
<1>16. OwnedOK(block_bitmap, Holdings)
  <2>1. Holdings = {<<Root, Addrs(inode[Root])>>}
    BY <1>9 DEF Holdings, Init
  <2>2. \A c \in Holdings : c[1] = Root /\ c[2] = Addrs(inode[Root])
    BY <2>1
  <2>3. \A k \in Index : Addrs(inode[Root])[k] = IF k = 0 THEN 1 ELSE 0
    BY <1>5, <1>8, DirAddrs
  <2>4. 1 \in block_bitmap
    BY DEF Init
  <2>5. \A c \in Holdings, k \in Index : c[2][k] = IF k = 0 THEN 1 ELSE 0
    BY <2>2, <2>3
  <2>6. \A c \in Holdings, k \in Index : c[2][k] # 0 => k = 0 /\ c[2][k] = 1 /\ c[1] = Root
    BY <2>2, <2>5
  <2> QED
    BY <2>4, <2>6 DEF OwnedOK
<1>17. TreeOK(inode_bitmap, Dirs, EntryMap)
  <2> HIDE DEF s
  <2>1. s[1].name = "." /\ s[2].name = ".." /\ s[2].inode_id = Root /\ "." # ".."
    BY <1>11, EntryFields
  <2>2. \A i, j \in 1..2 : s[i].name = s[j].name => i = j
    BY <2>1
  <2>3. 2 \in 2..MaxEntry /\ 3..2 = {}
    BY FsAssumption
  <2>4. DirOK(Dirs, EntryMap, Root)
    BY <1>8, <1>11, <1>12, <2>1, <2>2, <2>3 DEF DirOK
  <2>5. 3..Len(EntryMap[Root]) = {} /\ inode_bitmap = {Root}
    BY <1>11, <1>12, <2>3 DEF Init
  <2>6. ParentOK(Dirs, EntryMap) /\ EnteredOnce(inode_bitmap, Dirs, EntryMap)
    BY <1>8, <2>5, Zenon DEF ParentOK, EnteredOnce
  <2> QED
    BY <1>1, <1>8, <1>12, <2>1, <2>4, <2>5, <2>6 DEF TreeOK
<1>18. CwdOK
  <2>1. cur_dir_inode \in Dirs
    BY <1>8 DEF Init
  <2> QED
    BY <2>1, CwdUsed
<1> QED
  BY <1>13, <1>14, <1>15, <1>16, <1>17, <1>18 DEF Sound

\* A new name has an unused inode, which stands in no directory.
LEMMA NewNode ==
  ASSUME Sound, NEW fa \in Dirs, NEW name \in Name, NewEntry(fa, name)
  PROVE  /\ alloc_inode \in Inode \ inode_bitmap /\ alloc_inode # Root
         /\ \A i \in 1..Len(EntryMap[fa]) : EntryMap[fa][i].name # name
         /\ Len(EntryMap[fa]) < MaxEntry
         /\ EntryMap[fa] \in Seq(EntryType)
<1>1. alloc_inode \in Inode \ inode_bitmap
  BY AllocInode DEF NewEntry, Sound, Typed
<1>2. Root \in inode_bitmap
  BY DEF Sound, TreeOK
<1>3. EntryMap[fa] = Entries(fa) /\ EntryMap[fa] \in Seq(EntryType)
  BY DEF EntryMap, Sound, TreeOK, DirOK
<1>4. Len(EntryMap[fa]) < MaxEntry
  BY <1>3 DEF NewEntry
<1>5. \A i \in 1..Len(EntryMap[fa]) : EntryMap[fa][i].name # name
  BY <1>3 DEF NewEntry, HasName, Range
<1> QED
  BY <1>1, <1>2, <1>3, <1>4, <1>5

LEMMA TouchSound ==
  ASSUME Sound, NEW fa \in Inode, fa = cur_dir_inode, NEW name \in Name,
         do_touch(fa, name), ~broken'
  PROVE  Sound'
<1>1. fa \in Dirs /\ NewEntry(fa, name)
  BY DEF do_touch
<1>2. PICK n \in Inode \ inode_bitmap : n = alloc_inode
  BY <1>1, NewNode
<1>3. /\ inode_bitmap' = inode_bitmap \cup {n}
      /\ inode' = [inode EXCEPT ![n].type = "FILE"]
      /\ dir' = [dir EXCEPT ![DirBlock(fa)] = Append(@, Entry(name, n))]
      /\ inode[n].addrs = NoAddrs
      /\ block_bitmap' = block_bitmap /\ content' = content /\ files' = files
      /\ written' = written /\ shared' = shared /\ cur_dir_inode' = cur_dir_inode
  BY <1>2 DEF do_touch
<1>4. Typed /\ BareOK /\ OpenFiles /\ Kept /\ OwnedOK(block_bitmap, Holdings)
      /\ TreeOK(inode_bitmap, Dirs, EntryMap)
  BY DEF Sound
<1>5. /\ inode' \in [Inode -> InodeType] /\ inode'[n].type = "FILE"
      /\ \A m \in Inode : inode'[m].addrs = inode[m].addrs
      /\ \A m \in Inode \ {n} : inode'[m] = inode[m]
  BY <1>3, <1>4 DEF Typed, InodeType, Type
<1>6. Dirs' = Dirs /\ n \notin Dirs /\ Using' = Using
  BY <1>3, <1>4, <1>5 DEF Dirs, Using, Typed
<1>7. 0 \in Index /\ DirBlock(fa) \in Data /\ EntryMap[fa] = dir[DirBlock(fa)]
  BY <1>1, DirBlocks
<1>8. EntryMap[fa] \in Seq(EntryType) /\ Len(EntryMap[fa]) < MaxEntry
      /\ \A i \in 1..Len(EntryMap[fa]) : EntryMap[fa][i].name # name
  BY <1>1, NewNode
<1>9. ASSUME NEW d \in Dirs
      PROVE  EntryMap'[d] = IF d = fa THEN Append(EntryMap[fa], Entry(name, n)) ELSE EntryMap[d]
  <2>1. DirBlock(d)' = DirBlock(d) /\ d \in Dirs' /\ DirBlock(d) \in Data
    BY <1>4, <1>5, <1>6, DirBlocks DEF DirBlock, Dirs, Typed
  <2>2. EntryMap'[d] = dir'[DirBlock(d)]
    BY <2>1 DEF EntryMap, Entries
  <2>3. DirBlock(d) = DirBlock(fa) => d = fa
    BY <1>1, DirBlocks
  <2>4. EntryMap[d] = dir[DirBlock(d)]
    BY DirBlocks
  <2> QED
    BY <2>1, <2>2, <2>3, <2>4, <1>3, <1>4, <1>7 DEF Typed
<1>10. TreeOK(inode_bitmap, Dirs, EntryMap)'
  <2>1. PICK B, D, E, F : B = inode_bitmap /\ D = Dirs /\ E = EntryMap /\ F = EntryMap'
    OBVIOUS
  <2>2. TreeOK(B \cup {n}, D, F)
    <3>1. TreeOK(B, D, E) /\ fa \in D /\ n \in Inode \ B
      BY <2>1, <1>1, <1>4
    <3>2. F[fa] = Append(E[fa], Entry(name, n)) /\ \A d \in D \ {fa} : F[d] = E[d]
      BY <2>1, <1>1, <1>9
    <3>3. Len(E[fa]) < MaxEntry /\ \A i \in 1..Len(E[fa]) : E[fa][i].name # name
      BY <2>1, <1>8
    <3> QED
      BY <3>1, <3>2, <3>3, TreeAdd
  <2> QED
    BY <2>1, <2>2, <1>3, <1>6
<1>11. OwnedOK(block_bitmap, Holdings)'
  <2>1. \A m \in inode_bitmap : inode'[m] = inode[m]
    BY <1>4, <1>5 DEF Typed
  <2>2. Addrs(inode'[n]) = NoAddrs
    BY <1>3, <1>5 DEF Addrs
  <2>3. Holdings' = Holdings \cup {<<n, NoAddrs>>}
    BY <2>1, <2>2, <1>3, <1>6 DEF Holdings
  <2>4. \A k \in Index : NoAddrs[k] = 0
    BY DEF NoAddrs
  <2> QED
    BY <2>3, <2>4, <1>3, <1>4 DEF OwnedOK
<1>12. Typed'
  <2>1. Entry(name, n) \in EntryType
    BY DEF Entry, EntryType
  <2>2. dir' \in [Data -> Seq(EntryType)]
    BY <2>1, <1>3, <1>4, <1>7, <1>8 DEF Typed
  <2> QED
    BY <2>2, <1>3, <1>4, <1>5 DEF Typed
<1>13. BareOK'
  BY <1>3, <1>4, <1>5, <1>6 DEF BareOK, Bare, DirBlock, Typed, Dirs
<1>14. OpenFiles'
  BY <1>3, <1>4, <1>5, <1>6 DEF OpenFiles, Typed
<1>15. Kept'
  <2>1. \A k \in Index : written[n][k] = Unwritten
    BY <1>4 DEF BareOK, Bare
  <2>2. \A f \in Using : files[f].inode_id # n
    BY <1>4 DEF OpenFiles
  <2> QED
    BY <2>1, <2>2, <1>3, <1>4, <1>5, <1>6 DEF Kept, Reads, Typed
<1>16. CwdOK'
  BY <1>1, <1>3, <1>6, CwdUsed
<1> QED
  BY <1>10, <1>11, <1>12, <1>13, <1>14, <1>15, <1>16 DEF Sound

LEMMA MkdirSound ==
  ASSUME Sound, NEW fa \in Inode, fa = cur_dir_inode, NEW name \in Name,
         do_mkdir(fa, name), ~broken'
  PROVE  Sound'
<1>1. fa \in Dirs /\ NewEntry(fa, name)
  BY DEF do_mkdir
<1>2. PICK n \in Inode \ inode_bitmap : n = alloc_inode /\ n # Root
  BY <1>1, NewNode
<1>3. PICK b \in Data :
        /\ alloc_data_block(b)
        /\ inode' = [inode EXCEPT ![n].type = "DIR", ![n].addrs[0] = b]
        /\ dir' = [dir EXCEPT ![DirBlock(fa)] = Append(@, Entry(name, n)),
                              ![b] = <<Entry(".", n), Entry("..", fa)>>]
  BY <1>2 DEF do_mkdir
<1>4. /\ inode_bitmap' = inode_bitmap \cup {n} /\ content' = content /\ files' = files
      /\ written' = written /\ shared' = shared /\ cur_dir_inode' = cur_dir_inode
  BY <1>2 DEF do_mkdir
<1>5. Typed /\ BareOK /\ OpenFiles /\ Kept /\ OwnedOK(block_bitmap, Holdings)
      /\ TreeOK(inode_bitmap, Dirs, EntryMap)
  BY DEF Sound
<1>6. b \in Data \ block_bitmap /\ block_bitmap' = block_bitmap \cup {b}
  BY <1>3, <1>5, AllocBlock DEF Typed
<1>7. 0 \in Index /\ DirBlock(fa) \in Data /\ DirBlock(fa) # b /\ EntryMap[fa] = dir[DirBlock(fa)]
  BY <1>1, <1>6, DirBlocks
<1>8. /\ inode' \in [Inode -> InodeType] /\ inode'[n].type = "DIR"
      /\ inode'[n].addrs = [inode[n].addrs EXCEPT ![0] = b]
      /\ \A m \in Inode \ {n} : inode'[m] = inode[m]
  <2>1. b \in Nat
    BY <1>3, FsAssumption DEF Data
  <2>2. inode[n] \in InodeType
    BY <1>5 DEF Typed
  <2>3. inode[n].addrs \in AddrsType /\ [inode[n].addrs EXCEPT ![0] = b] \in AddrsType
    BY <2>1, <2>2 DEF InodeType, AddrsType
  <2>4. inode'[n] = [type |-> "DIR", addrs |-> [inode[n].addrs EXCEPT ![0] = b]]
    BY <2>2, <1>3, <1>5 DEF Typed, InodeType
  <2>5. inode'[n] \in InodeType
    BY <2>3, <2>4 DEF InodeType, Type
  <2>6. \A m \in Inode \ {n} : inode'[m] = inode[m]
    BY <1>3, <1>5 DEF Typed
  <2>7. \A m \in Inode : inode'[m] \in InodeType
    BY <2>5, <2>6, <1>5 DEF Typed
  <2>8. inode' = [m \in Inode |-> inode'[m]]
    BY <1>3, <1>5 DEF Typed
  <2>9. inode' \in [Inode -> InodeType]
    BY <2>7, <2>8
  <2> QED
    BY <2>4, <2>6, <2>9
<1>9. DirBlock(n)' = b /\ \A k \in Index : Addrs(inode'[n])[k] = IF k = 0 THEN b ELSE 0
  <2>1. inode[n].addrs \in AddrsType
    BY <1>5 DEF Typed, InodeType
  <2>2. inode'[n].addrs[0] = b
    BY <2>1, <1>8, <1>7 DEF AddrsType
  <2>3. Addrs(inode'[n]) = [NoAddrs EXCEPT ![0] = b]
    BY <2>2, <1>8 DEF Addrs
  <2> QED
    BY <2>2, <2>3, <1>7 DEF NoAddrs, DirBlock
<1>10. Dirs' = Dirs \cup {n} /\ n \notin Dirs /\ Using' = Using /\ Dirs \subseteq Inode \ {n}
  BY <1>4, <1>5, <1>8 DEF Dirs, Using, Typed
<1>11. EntryMap[fa] \in Seq(EntryType) /\ Len(EntryMap[fa]) < MaxEntry
       /\ \A i \in 1..Len(EntryMap[fa]) : EntryMap[fa][i].name # name
  BY <1>1, NewNode
<1>12. ASSUME NEW d \in Dirs
       PROVE  EntryMap'[d] = IF d = fa THEN Append(EntryMap[fa], Entry(name, n)) ELSE EntryMap[d]
  <2>1. d \in Dirs' /\ DirBlock(d) \in Data /\ DirBlock(d) # b
    BY <1>6, <1>10, DirBlocks
  <2>2. DirBlock(d)' = DirBlock(d)
    BY <1>8, <1>10 DEF DirBlock
  <2>3. EntryMap'[d] = dir'[DirBlock(d)]
    BY <2>1, <2>2 DEF EntryMap, Entries
  <2>4. DirBlock(d) = DirBlock(fa) => d = fa
    BY <1>1, DirBlocks
  <2>5. EntryMap[d] = dir[DirBlock(d)]
    BY DirBlocks
  <2> QED
    BY <2>1, <2>3, <2>4, <2>5, <1>3, <1>5, <1>7 DEF Typed
<1>13. EntryMap'[n] = <<Entry(".", n), Entry("..", fa)>>
  <2>1. DirBlock(n)' = b /\ n \in Dirs'
    BY <1>9, <1>10
  <2>2. EntryMap'[n] = dir'[b]
    BY <2>1 DEF EntryMap, Entries
  <2> QED
    BY <2>2, <1>3, <1>5 DEF Typed
<1>14. TreeOK(inode_bitmap, Dirs, EntryMap)'
  <2>1. PICK B, D, E, F : B = inode_bitmap /\ D = Dirs /\ E = EntryMap /\ F = EntryMap'
    OBVIOUS
  <2>2. TreeOK(B, D, E) /\ fa \in D /\ n \in Inode \ B /\ n \notin D
    BY <2>1, <1>1, <1>5, <1>10
  <2>3. F[fa] = Append(E[fa], Entry(name, n)) /\ \A d \in D \ {fa} : F[d] = E[d]
    BY <2>1, <1>1, <1>12
  <2>4. Len(E[fa]) < MaxEntry /\ \A i \in 1..Len(E[fa]) : E[fa][i].name # name
    BY <2>1, <1>11
  <2>5. TreeOK(B \cup {n}, D, F)
    BY <2>2, <2>3, <2>4, TreeAdd
  <2>6. PICK i0 : i0 = Len(E[fa]) + 1
    OBVIOUS
  <2>7. i0 \in 3..Len(F[fa]) /\ F[fa][i0].inode_id = n
    <3>1. E[fa] \in Seq(EntryType) /\ Len(E[fa]) \in Nat /\ Len(E[fa]) >= 2
      BY <2>2, DirLen
    <3> QED
      BY <3>1, <2>3, <2>6, EntryFields
  <2>8. TreeOK(B \cup {n}, D \cup {n}, F)
    <3>1. PICK B1 : B1 = B \cup {n}
      OBVIOUS
    <3>2. TreeOK(B1, D, F) /\ n \in B1 \ D
      BY <3>1, <2>2, <2>5
    <3>3. F[n] = <<Entry(".", n), Entry("..", fa)>>
      BY <2>1, <1>13
    <3>4. TreeOK(B1, D \cup {n}, F)
      BY <3>2, <3>3, <2>2, <2>7, <1>2, TreeAddDir
    <3> QED
      BY <3>1, <3>4
  <2> QED
    BY <2>1, <2>8, <1>4, <1>10
<1>15. OwnedOK(block_bitmap, Holdings)'
  <2>1. PICK BB, H, a : BB = block_bitmap /\ H = Holdings /\ a = Addrs(inode'[n])
    OBVIOUS
  <2>2. Holdings' = H \cup {<<n, a>>}
    <3>1. \A m \in inode_bitmap : inode'[m] = inode[m]
      BY <1>5, <1>8 DEF Typed
    <3> QED
      BY <3>1, <2>1, <1>4, <1>10 DEF Holdings
  <2>3. \A k \in Index : \/ a[k] = 0
                         \/ a[k] = b /\ k = 0
                         \/ \E c \in H : c[1] = n /\ c[2][k] = a[k]
    BY <2>1, <1>9
  <2>4. OwnedOK(BB, H) /\ b \notin BB
    BY <2>1, <1>5, <1>6
  <2>5. OwnedOK(BB \cup {b}, H \cup {<<n, a>>})
    BY <2>3, <2>4, OwnedMore
  <2> QED
    BY <2>1, <2>2, <2>5, <1>6
<1>16. Typed'
  <2>1. Entry(name, n) \in EntryType /\ Entry(".", n) \in EntryType /\ Entry("..", fa) \in EntryType
    BY DEF Entry, EntryType
  <2>2. dir' \in [Data -> Seq(EntryType)]
    <3>1. <<Entry(".", n), Entry("..", fa)>> \in Seq(EntryType)
      BY <2>1
    <3>2. Append(dir[DirBlock(fa)], Entry(name, n)) \in Seq(EntryType)
      BY <2>1, <1>7, <1>11
    <3> QED
      BY <3>1, <3>2, <1>3, <1>5, <1>7 DEF Typed
  <2> QED
    BY <2>2, <1>4, <1>5, <1>6, <1>8 DEF Typed
<1>17. BareOK'
  <2>1. \A k \in Index : written[n][k] = Unwritten
    BY <1>5 DEF BareOK, Bare
  <2>2. Bare(n)' /\ DirBlock(n)' # 0
    BY <2>1, <1>4, <1>9 DEF Bare, Data
  <2>3. \A m \in Inode \ {n} : (Bare(m) => Bare(m)') /\ DirBlock(m)' = DirBlock(m)
    BY <1>4, <1>8 DEF Bare, DirBlock
  <2> QED
    BY <2>2, <2>3, <1>4, <1>5, <1>10 DEF BareOK
<1>18. OpenFiles'
  BY <1>4, <1>5, <1>8, <1>10 DEF OpenFiles, Typed
<1>19. Kept'
  <2>1. \A k \in Index : written[n][k] = Unwritten
    BY <1>5 DEF BareOK, Bare
  <2>2. \A f \in Using : files[f].inode_id # n
    BY <1>5 DEF OpenFiles
  <2> QED
    <3>1. \A m \in inode_bitmap : inode'[m] = inode[m] /\ m # n
      BY <1>5, <1>8 DEF Typed
    <3>2. \A m, a : Reads(m, a)' = Reads(m, a)
      BY <1>4 DEF Reads
    <3>3. \A a : Reads(n, a)
      BY <2>1 DEF Reads
    <3> QED
      BY <3>1, <3>2, <3>3, <2>2, <1>4, <1>5, <1>10 DEF Kept
<1>20. CwdOK'
  BY <1>1, <1>4, <1>10, CwdUsed
<1> QED
  BY <1>14, <1>15, <1>16, <1>17, <1>18, <1>19, <1>20 DEF Sound

LEMMA CdSound ==
  ASSUME Sound, NEW n \in Inode, do_cd(n)
  PROVE  Sound'
<1>1. /\ n \in Found /\ inode[n].type = "DIR" /\ cur_dir_inode' = n
      /\ inode_bitmap' = inode_bitmap /\ block_bitmap' = block_bitmap /\ inode' = inode
      /\ dir' = dir /\ content' = content /\ files' = files /\ written' = written
      /\ shared' = shared
  BY DEF do_cd
<1>2. PICK S \in SUBSET Inode : Gone(S) /\ cur_dir_inode \in Dirs \cup S
  BY DEF Sound, CwdOK
<1>3. n \in Dirs \cup S
  BY <1>1, <1>2, FoundNode DEF Dirs
<1>4. Dirs' = Dirs /\ Gone(S)' /\ EntryMap' = EntryMap /\ Using' = Using /\ Holdings' = Holdings
  BY <1>1, <1>2 DEF Dirs, Gone, EntryMap, Entries, DirBlock, Using, Holdings
<1>5. CwdOK'
  BY <1>1, <1>2, <1>3, <1>4 DEF CwdOK
<1>6. Typed' /\ BareOK' /\ OpenFiles'
  <2>1. Typed /\ BareOK /\ OpenFiles
    BY DEF Sound
  <2>2. Typed'
    BY <2>1, <1>1 DEF Typed
  <2>3. BareOK'
    BY <2>1, <1>1, <1>4 DEF BareOK, Bare, DirBlock
  <2>4. OpenFiles'
    BY <2>1, <1>1, <1>4 DEF OpenFiles
  <2> QED
    BY <2>2, <2>3, <2>4
<1>7. Kept'
  <2>1. \A m, a : Reads(m, a)' = Reads(m, a)
    BY <1>1 DEF Reads
  <2> QED
    BY <2>1, <1>1, <1>4 DEF Sound, Kept
<1> QED
  BY <1>1, <1>4, <1>5, <1>6, <1>7 DEF Sound

LEMMA RmdirSound ==
  ASSUME Sound, NEW n, do_rmdir(n), ~broken'
  PROVE  Sound'
<1>1. PICK fa : fa = Entries(n)[2].inode_id
  OBVIOUS
<1>2. /\ n \in Dirs \ {Root}
      /\ dir' = [dir EXCEPT ![DirBlock(fa)] = Removed(@, n)]
      /\ inode_bitmap' = inode_bitmap \ {n}
      /\ block_bitmap' = block_bitmap \ {DirBlock(n)}
      /\ Last(Entries(fa)).inode_id = n /\ ~(Len(Entries(n)) > 2)
      /\ inode' = inode /\ content' = content /\ files' = files
      /\ written' = written /\ shared' = shared /\ cur_dir_inode' = cur_dir_inode
  <2>1. n \in Dirs
    BY DEF do_rmdir, Damage
  <2>2. n # Root /\ n - (n % INODES_PER_BLOCK) = n
    BY <2>1 DEF do_rmdir
  <2> QED
    BY <1>1, <2>1, <2>2 DEF do_rmdir
<1>3. Typed /\ BareOK /\ OpenFiles /\ Kept /\ OwnedOK(block_bitmap, Holdings)
      /\ TreeOK(inode_bitmap, Dirs, EntryMap)
  BY DEF Sound
<1>4. EntryMap[n] = Entries(n) /\ fa \in Dirs /\ EntryMap[fa] = Entries(fa)
  BY <1>1, <1>2, <1>3 DEF EntryMap, TreeOK, DirOK
<1>5. Len(EntryMap[n]) = 2
  <2>1. PICK B, D, E : B = inode_bitmap /\ D = Dirs /\ E = EntryMap
    OBVIOUS
  <2>2. Len(E[n]) \in Nat /\ Len(E[n]) >= 2
    BY <2>1, <1>2, <1>3, DirLen
  <2>3. PICK l : l = Len(E[n])
    OBVIOUS
  <2>4. ~(l > 2) /\ l \in Nat /\ l >= 2
    BY <2>1, <2>2, <2>3, <1>2, <1>4
  <2>5. l = 2
    BY <2>4
  <2> QED
    BY <2>1, <2>3, <2>5
<1>6. 0 \in Index /\ DirBlock(fa) \in Data /\ EntryMap[fa] = dir[DirBlock(fa)] /\ DirBlock(n) \in Data
  BY <1>2, <1>4, DirBlocks
<1>7. Dirs' = Dirs \ {n} /\ Using' = Using
  BY <1>2 DEF Dirs, Using
<1>8. ASSUME NEW d \in Dirs
      PROVE  dir'[DirBlock(d)] = IF d = fa THEN Removed(EntryMap[fa], n) ELSE EntryMap[d]
  <2>1. DirBlock(d) \in Data /\ (DirBlock(d) = DirBlock(fa) => d = fa)
    BY <1>4, DirBlocks
  <2>2. EntryMap[d] = dir[DirBlock(d)]
    BY DirBlocks
  <2> QED
    BY <2>1, <2>2, <1>2, <1>3, <1>6 DEF Typed
<1>9. TreeOK(inode_bitmap, Dirs, EntryMap)'
  <2>1. PICK B, D, E, F : /\ B = inode_bitmap /\ D = Dirs /\ E = EntryMap
                          /\ F = [d \in Dirs |-> dir'[DirBlock(d)]]
    OBVIOUS
  <2>2. TreeOK(B, D, E) /\ n \in D \ {Root} /\ fa = E[n][2].inode_id
        /\ Last(E[fa]).inode_id = n /\ Len(E[n]) = 2
    BY <2>1, <1>1, <1>2, <1>3, <1>4, <1>5
  <2>3. F[fa] = Removed(E[fa], n) /\ \A d \in D \ {fa} : F[d] = E[d]
    BY <2>1, <1>4, <1>8
  <2>4. TreeOK(B \ {n}, D \ {n}, F)
    BY <2>2, <2>3, TreeRemove
  <2>5. \A d \in D \ {n} : EntryMap'[d] = F[d]
    <3>1. \A d \in Dirs : DirBlock(d)' = DirBlock(d)
      BY <1>2 DEF DirBlock
    <3> QED
      BY <3>1, <2>1, <1>7 DEF EntryMap, Entries
  <2> QED
    <3>1. PICK B1, D1, G : B1 = inode_bitmap' /\ D1 = Dirs' /\ G = EntryMap'
      OBVIOUS
    <3>2. B1 = B \ {n} /\ D1 = D \ {n} /\ \A d \in D1 : G[d] = F[d]
      BY <3>1, <2>1, <2>5, <1>2, <1>7
    <3>3. TreeOK(B1, D1, G)
      BY <3>2, <2>4, TreeSame
    <3> QED
      BY <3>1, <3>3
<1>10. OwnedOK(block_bitmap, Holdings)'
  <2>1. PICK BB, H, G, c0 : /\ BB = block_bitmap /\ H = Holdings /\ G = Holdings'
                            /\ c0 = <<n, Addrs(inode[n])>>
    OBVIOUS
  <2>2. c0 \in H /\ c0[1] = n /\ c0[2][0] = DirBlock(n) /\ DirBlock(n) # 0
    <3>1. Addrs(inode[n])[0] = DirBlock(n)
      BY <1>2, <1>6, DirAddrs DEF Dirs
    <3> QED
      BY <2>1, <3>1, <1>2, <1>3 DEF Holdings, Dirs, BareOK
  <2>3. \A f \in Using : files[f].inode_id # n
    BY <1>2, <1>3 DEF OpenFiles, Dirs
  <2>4. G \subseteq H /\ \A c \in G : c[1] # c0[1]
    BY <2>1, <2>2, <2>3, <1>2, <1>7 DEF Holdings
  <2>5. OwnedOK(BB, H) /\ c0[2][0] # 0
    BY <2>1, <2>2, <1>3
  <2>6. OwnedOK(BB \ {c0[2][0]}, G)
    BY <2>2, <2>4, <2>5, <1>6, OwnedDrop
  <2> QED
    BY <2>1, <2>2, <2>6, <1>2
<1>11. Typed'
  <2>1. PICK B, D, E : B = inode_bitmap /\ D = Dirs /\ E = EntryMap
    OBVIOUS
  <2>2. TreeOK(B, D, E) /\ n \in D \ {Root} /\ fa = E[n][2].inode_id
        /\ Last(E[fa]).inode_id = n /\ Len(E[n]) = 2
    BY <2>1, <1>1, <1>2, <1>3, <1>4, <1>5
  <2>3. Removed(E[fa], n) = Front(E[fa]) /\ Len(E[fa]) \in Nat /\ Len(E[fa]) >= 3 /\ fa \in D
    BY <2>2, RemovedEntry
  <2>4. E[fa] \in Seq(EntryType)
    BY <2>2, <2>3, DirLen
  <2>5. Removed(E[fa], n) \in Seq(EntryType)
    BY <2>3, <2>4 DEF Front
  <2>6. Removed(dir[DirBlock(fa)], n) \in Seq(EntryType)
    BY <2>1, <2>5, <1>6
  <2>7. dir' \in [Data -> Seq(EntryType)]
    BY <2>6, <1>2, <1>3, <1>6 DEF Typed
  <2> QED
    BY <2>7, <1>2, <1>3 DEF Typed
<1>12. BareOK'
  BY <1>2, <1>3, <1>7 DEF BareOK, Bare, DirBlock, Dirs
<1>13. OpenFiles'
  BY <1>2, <1>3, <1>7 DEF OpenFiles, Dirs
<1>14. Kept'
  BY <1>2, <1>3, <1>7 DEF Kept, Reads
<1>15. CwdOK'
  <2>1. PICK S \in SUBSET Inode : Gone(S) /\ cur_dir_inode \in Dirs \cup S
    BY DEF Sound, CwdOK
  <2>2. PICK T : T = S \cup {n}
    OBVIOUS
  <2>3. /\ T \in SUBSET Inode /\ T \subseteq Inode \ inode_bitmap'
        /\ Dirs' \cup T = Dirs \cup S /\ fa \in Dirs \cup S
    BY <2>1, <2>2, <1>2, <1>3, <1>4, <1>7 DEF Gone, Typed, Dirs
  <2>4. \A d : DirBlock(d)' = DirBlock(d)
    BY <1>2 DEF DirBlock
  <2>5. ASSUME NEW d \in T, d # fa, DirBlock(d) \in Data, DirBlock(d) # DirBlock(fa)
        PROVE  Entries(d)' = Entries(d)
    BY <2>4, <2>5, <1>2, <1>3, <1>6 DEF Entries, Typed
  <2>6. fa # n /\ DirBlock(fa) # DirBlock(n)
    <3>1. fa # n
      <4>1. PICK B, D, E : B = inode_bitmap /\ D = Dirs /\ E = EntryMap
        OBVIOUS
      <4>2. TreeOK(B, D, E) /\ n \in D \ {Root} /\ fa = E[n][2].inode_id
            /\ Last(E[fa]).inode_id = n /\ Len(E[n]) = 2
        BY <4>1, <1>1, <1>2, <1>3, <1>4, <1>5
      <4> QED
        BY <4>2, RemovedEntry
    <3> QED
      BY <3>1, <1>2, <1>4, DirBlocks
  <2>7. ASSUME NEW d \in T
        PROVE  /\ inode'[d].type = "DIR" /\ DirBlock(d)' \in Data
               /\ \A e \in Dirs' : DirBlock(e)' # DirBlock(d)'
               /\ DirBlock(d)' \notin block_bitmap' =>
                    /\ Len(Entries(d)') = 2
                    /\ Entries(d)'[1].inode_id = d /\ Entries(d)'[2].inode_id \in Dirs' \cup T
    <3>1. CASE d = n
      <4>1. inode'[d].type = "DIR" /\ DirBlock(d)' \in Data
        BY <3>1, <2>4, <1>2, <1>6 DEF Dirs
      <4>2. \A e \in Dirs' : DirBlock(e)' # DirBlock(d)'
        BY <3>1, <2>4, <1>2, <1>7, DirBlocks
      <4>3. Entries(d)' = Entries(n)
        BY <3>1, <2>5, <2>6, <1>6
      <4>4. Len(Entries(n)) = 2 /\ Entries(n)[1].inode_id = n
        BY <1>2, <1>3, <1>4, <1>5, EntryFields DEF TreeOK, DirOK
      <4> QED
        BY <4>1, <4>2, <4>3, <4>4, <3>1, <2>3, <1>1
    <3>2. CASE d # n
      <4>1. d \in S
        BY <3>2, <2>2
      <4>2. /\ inode[d].type = "DIR" /\ DirBlock(d) \in Data /\ d \notin inode_bitmap
            /\ \A e \in Dirs : DirBlock(e) # DirBlock(d)
            /\ DirBlock(d) \notin block_bitmap =>
                 /\ Len(Entries(d)) = 2
                 /\ Entries(d)[1].inode_id = d /\ Entries(d)[2].inode_id \in Dirs \cup S
        BY <4>1, <2>1 DEF Gone
      <4>3. DirBlock(d) # DirBlock(n) /\ DirBlock(d) # DirBlock(fa) /\ d # fa
        BY <4>2, <1>2, <1>4 DEF Dirs
      <4>4. Entries(d)' = Entries(d)
        BY <4>2, <4>3, <2>5
      <4>5. DirBlock(d)' \notin block_bitmap' => DirBlock(d) \notin block_bitmap
        BY <4>3, <2>4, <1>2
      <4> QED
        BY <4>2, <4>4, <4>5, <2>3, <2>4, <1>2, <1>7
    <3> QED
      BY <3>1, <3>2
  <2>8. Gone(T)'
    BY <2>3, <2>7 DEF Gone
  <2> QED
    BY <2>1, <2>3, <2>8, <1>2 DEF CwdOK
<1> QED
  BY <1>9, <1>10, <1>11, <1>12, <1>13, <1>14, <1>15 DEF Sound

LEMMA OpenSound ==
  ASSUME Sound, NEW f \in File, NEW n \in Inode, open(f, n)
  PROVE  Sound'
<1>1. Typed /\ BareOK /\ OpenFiles /\ Kept /\ OwnedOK(block_bitmap, Holdings)
      /\ TreeOK(inode_bitmap, Dirs, EntryMap)
  BY DEF Sound
<1>2. /\ f \notin Using /\ inode[n].type = "FILE"
      /\ files' = [files EXCEPT ![f] = [inode_id |-> n, inode |-> inode[n]]]
      /\ shared' = shared \cup ({n} \cap {files[g].inode_id : g \in Using})
      /\ inode_bitmap' = inode_bitmap /\ block_bitmap' = block_bitmap /\ inode' = inode
      /\ dir' = dir /\ content' = content /\ written' = written
      /\ cur_dir_inode' = cur_dir_inode
  BY DEF open
<1>3. n \in inode_bitmap
  <2>1. PICK S \in SUBSET Inode : Gone(S) /\ cur_dir_inode \in Dirs \cup S
    BY DEF Sound, CwdOK
  <2>2. n \in inode_bitmap \/ n \in S
    BY <2>1, FoundNode DEF open
  <2> QED
    BY <2>1, <2>2, <1>2 DEF Gone
<1>4. [inode_id |-> n, inode |-> inode[n]] \in OpenType /\ inode[n] \in CopyType
  BY <1>1, <1>2 DEF Typed, InodeType, CopyType, OpenType
<1>5. NumInode \notin Inode
  BY FsAssumption DEF Inode
<1>6. /\ files' \in [File -> OpenType \cup {NotUsed}]
      /\ files'[f].inode_id = n /\ files'[f].inode = inode[n] /\ files'[f] # NotUsed
      /\ \A g \in File \ {f} : files'[g] = files[g]
  BY <1>1, <1>2, <1>4, <1>5 DEF Typed, NotUsed
<1>7. Using' = Using \cup {f} /\ Using \subseteq File \ {f}
  BY <1>2, <1>6 DEF Using
<1>8. Typed'
  BY <1>1, <1>2, <1>6 DEF Typed
<1>9. Dirs' = Dirs /\ EntryMap' = EntryMap
  BY <1>2 DEF Dirs, EntryMap, Entries, DirBlock
<1>10. BareOK'
  BY <1>1, <1>2, <1>9 DEF BareOK, Bare, DirBlock
<1>11. OpenFiles'
  <2>1. ASSUME NEW g \in Using'
        PROVE  files'[g].inode_id \in inode_bitmap /\ inode[files'[g].inode_id].type = "FILE"
    BY <1>1, <1>2, <1>3, <1>6, <1>7 DEF OpenFiles
  <2>2. ASSUME NEW g \in Using', NEW h \in Using', files'[g].inode_id = files'[h].inode_id,
               files'[g].inode_id \notin shared'
        PROVE  g = h
    <3>1. \A x \in Using : files'[x] = files[x] /\ x # f
      BY <1>6, <1>7
    <3>2. \A x \in Using : files[x].inode_id = n => n \in shared'
      BY <1>2
    <3>3. CASE g = f /\ h # f
      BY <3>1, <3>2, <3>3, <2>2, <1>6, <1>7
    <3>4. CASE h = f /\ g # f
      BY <3>1, <3>2, <3>4, <2>2, <1>6, <1>7
    <3>5. CASE g # f /\ h # f
      <4>1. g \in Using /\ h \in Using /\ files[g].inode_id = files[h].inode_id /\ files[g].inode_id \notin shared
        BY <3>1, <3>5, <2>2, <1>2, <1>7
      <4> QED
        BY <4>1, <1>1 DEF OpenFiles
    <3> QED
      BY <3>3, <3>4, <3>5
  <2> QED
    BY <2>1, <2>2, <1>2 DEF OpenFiles
<1>12. Kept'
  <2>1. \A m, a : Reads(m, a)' = Reads(m, a)
    BY <1>2 DEF Reads
  <2>2. ASSUME NEW m \in inode_bitmap \ shared', NEW g \in Using', files'[g].inode_id = m
        PROVE  Reads(m, files'[g].inode.addrs)
    <3>1. CASE g = f
      <4>1. m = n /\ \A x \in Using : files[x].inode_id # n
        BY <3>1, <2>2, <1>2, <1>6
      <4>2. Reads(n, inode[n].addrs)
        BY <4>1, <1>1, <1>2, <1>3, <2>2 DEF Kept
      <4> QED
        BY <4>1, <4>2, <3>1, <1>6
    <3>2. CASE g # f
      <4>1. g \in Using /\ files'[g] = files[g]
        BY <3>2, <1>6, <1>7
      <4> QED
        BY <4>1, <2>2, <1>1, <1>2 DEF Kept
    <3> QED
      BY <3>1, <3>2
  <2>3. ASSUME NEW m \in inode_bitmap \ shared', \A g \in Using' : files'[g].inode_id # m
        PROVE  Reads(m, inode[m].addrs)
    <3>1. \A g \in Using : files[g].inode_id # m
      BY <2>3, <1>6, <1>7
    <3> QED
      BY <3>1, <1>1, <1>2 DEF Kept
  <2> QED
    BY <2>1, <2>2, <2>3, <1>2 DEF Kept
<1>13. OwnedOK(block_bitmap, Holdings)'
  <2>1. PICK BB, H, G : BB = block_bitmap /\ H = Holdings /\ G = Holdings'
    OBVIOUS
  <2>2. \A g \in Using : files'[g] = files[g]
    BY <1>6, <1>7
  <2>3. G \subseteq H
    <3>1. <<n, inode[n].addrs>> \in H
      BY <2>1, <1>2, <1>3 DEF Holdings, Addrs
    <3> QED
      BY <2>1, <2>2, <3>1, <1>2, <1>3, <1>6, <1>7 DEF Holdings
  <2>4. OwnedOK(BB, G)
    BY <2>1, <2>3, <1>1, OwnedLess
  <2> QED
    BY <2>1, <2>4, <1>2
<1>14. TreeOK(inode_bitmap, Dirs, EntryMap)'
  BY <1>1, <1>2, <1>9
<1>15. CwdOK'
  BY <1>2, <1>9, CwdSame
<1> QED
  BY <1>8, <1>10, <1>11, <1>12, <1>13, <1>14, <1>15 DEF Sound

LEMMA CloseSound ==
  ASSUME Sound, NEW f \in File, close(f)
  PROVE  Sound'
<1>1. Typed /\ BareOK /\ OpenFiles /\ Kept /\ OwnedOK(block_bitmap, Holdings)
      /\ TreeOK(inode_bitmap, Dirs, EntryMap)
  BY DEF Sound
<1>2. PICK n : n = files[f].inode_id
  OBVIOUS
<1>3. /\ f \in Using /\ inode' = [inode EXCEPT ![n] = files[f].inode]
      /\ files' = [files EXCEPT ![f] = NotUsed]
      /\ inode_bitmap' = inode_bitmap /\ block_bitmap' = block_bitmap /\ dir' = dir
      /\ content' = content /\ written' = written /\ shared' = shared
      /\ cur_dir_inode' = cur_dir_inode
  BY <1>2 DEF close
<1>4. n \in inode_bitmap /\ n \in Inode /\ inode[n].type = "FILE" /\ n \notin Dirs
  BY <1>1, <1>2, <1>3 DEF OpenFiles, Typed, Dirs
<1>5. files[f].inode \in CopyType /\ files[f].inode.type = "FILE"
  BY <1>1, <1>3, OpenTyped
<1>6. files[f].inode \in InodeType
  BY <1>5 DEF CopyType, InodeType, Type
<1>7. /\ inode' \in [Inode -> InodeType] /\ inode'[n] = files[f].inode
      /\ \A m \in Inode \ {n} : inode'[m] = inode[m]
  BY <1>1, <1>3, <1>4, <1>6 DEF Typed
<1>8. /\ files' \in [File -> OpenType \cup {NotUsed}] /\ files'[f] = NotUsed
      /\ \A g \in File \ {f} : files'[g] = files[g]
  BY <1>1, <1>3 DEF Typed
<1>9. Using' = Using \ {f} /\ \A g \in Using' : files'[g] = files[g]
  BY <1>8 DEF Using
<1>10. Typed'
  BY <1>1, <1>3, <1>7, <1>8 DEF Typed
<1>11. Dirs' = Dirs /\ Dirs \subseteq Inode \ {n}
  BY <1>1, <1>3, <1>4, <1>5, <1>7 DEF Dirs, Typed
<1>12. \A d \in Dirs : DirBlock(d)' = DirBlock(d) /\ Bare(d)' = Bare(d)
  BY <1>3, <1>7, <1>11 DEF DirBlock, Bare
<1>13. EntryMap' = EntryMap
  BY <1>3, <1>11, <1>12 DEF EntryMap, Entries
<1>14. BareOK'
  <2>1. \A m \in Inode \ inode_bitmap : Bare(m)' = Bare(m)
    BY <1>3, <1>4, <1>7 DEF Bare
  <2> QED
    BY <2>1, <1>1, <1>3, <1>11, <1>12 DEF BareOK
<1>15. OpenFiles'
  <2>1. ASSUME NEW g \in Using'
        PROVE  files'[g].inode_id \in inode_bitmap /\ inode'[files'[g].inode_id].type = "FILE"
    <3>1. g \in Using /\ files'[g] = files[g]
      BY <1>9
    <3>2. files[g].inode_id \in inode_bitmap /\ files[g].inode_id \in Inode
          /\ inode[files[g].inode_id].type = "FILE"
      BY <3>1, <1>1 DEF OpenFiles, Typed
    <3> QED
      BY <3>1, <3>2, <1>5, <1>7
  <2> QED
    BY <2>1, <1>1, <1>3, <1>9 DEF OpenFiles
<1>16. Kept'
  <2>1. \A m, a : Reads(m, a)' = Reads(m, a)
    BY <1>3 DEF Reads
  <2>2. ASSUME NEW m \in inode_bitmap \ shared, NEW g \in Using', files'[g].inode_id = m
        PROVE  Reads(m, files'[g].inode.addrs)
    BY <2>2, <1>1, <1>9 DEF Kept
  <2>3. ASSUME NEW m \in inode_bitmap \ shared, \A g \in Using' : files'[g].inode_id # m
        PROVE  Reads(m, inode'[m].addrs)
    <3>1. CASE m = n
      BY <3>1, <2>3, <1>1, <1>2, <1>3, <1>7 DEF Kept
    <3>2. CASE m # n
      <4>1. \A g \in Using : files[g].inode_id # m
        BY <3>2, <2>3, <1>2, <1>9
      <4>2. inode'[m] = inode[m]
        BY <3>2, <1>1, <1>7 DEF Typed
      <4> QED
        BY <4>1, <4>2, <1>1 DEF Kept
    <3> QED
      BY <3>1, <3>2
  <2> QED
    BY <2>1, <2>2, <2>3, <1>3 DEF Kept
<1>17. OwnedOK(block_bitmap, Holdings)'
  <2>1. PICK BB, H, G : BB = block_bitmap /\ H = Holdings /\ G = Holdings'
    OBVIOUS
  <2>2. \A m \in inode_bitmap : <<m, Addrs(inode'[m])>> \in Holdings
    <3>1. <<n, Addrs(inode'[n])>> \in Holdings
      <4>1. Addrs(inode'[n]) = files[f].inode.addrs
        BY <1>5, <1>7 DEF Addrs
      <4> QED
        BY <4>1, <1>2, <1>3 DEF Holdings
    <3>2. \A m \in inode_bitmap \ {n} : inode'[m] = inode[m]
      BY <1>1, <1>7 DEF Typed
    <3>3. \A m \in inode_bitmap : <<m, Addrs(inode[m])>> \in Holdings
      BY DEF Holdings
    <3> QED
      BY <3>1, <3>2, <3>3
  <2>3. G \subseteq H
    BY <2>1, <2>2, <1>3, <1>9 DEF Holdings
  <2>4. OwnedOK(BB, G)
    BY <2>1, <2>3, <1>1, OwnedLess
  <2> QED
    BY <2>1, <2>4, <1>3
<1>18. TreeOK(inode_bitmap, Dirs, EntryMap)'
  BY <1>1, <1>3, <1>11, <1>13
<1>19. CwdOK'
  <2>1. \A m \in Inode : inode[m].type = "DIR" => inode'[m] = inode[m]
    BY <1>4, <1>7
  <2> QED
    BY <2>1, <1>3, <1>11, CwdSame
<1> QED
  BY <1>10, <1>14, <1>15, <1>16, <1>17, <1>18, <1>19 DEF Sound

\* What find_data_block leaves behind: the file f has the block b at k, and it is the only
\* block that a file or directory can find there.
HasBlock(f, k, b) ==
  /\ files' \in [File -> OpenType \cup {NotUsed}] /\ Using' = Using
  /\ block_bitmap' \subseteq Data /\ block_bitmap \subseteq block_bitmap'
  /\ \A g \in Using : files'[g].inode_id = files[g].inode_id
  /\ \A g \in Using \ {f} : files'[g] = files[g]
  /\ \A j \in Index \ {k} : files'[f].inode.addrs[j] = files[f].inode.addrs[j]
  /\ files'[f].inode.addrs[k] = b /\ b # 0 /\ files[f].inode.addrs[k] \in {0, b}
  /\ \A n \in inode_bitmap \ Dirs, j \in Index :
       inode[n].addrs[j] = b => n = files[f].inode_id /\ j = k
  /\ \A g \in Using, j \in Index :
       files'[g].inode.addrs[j] = b => files[g].inode_id = files[f].inode_id /\ j = k
  /\ OwnedOK(block_bitmap', Holdings')

LEMMA FindBlock ==
  ASSUME Sound, NEW f \in Using, NEW k \in Index, NEW b \in Data, find_data_block(f, k, b),
         inode_bitmap' = inode_bitmap, inode' = inode
  PROVE  HasBlock(f, k, b)
<1>1. Typed /\ OpenFiles /\ OwnedOK(block_bitmap, Holdings)
  BY DEF Sound
<1>2. b # 0 /\ NumInode \notin Inode
  BY FsAssumption DEF Data, Inode
<1>3. /\ f \in File /\ files[f] \in OpenType /\ files[f].inode_id \in Inode
      /\ files[f].inode \in CopyType /\ files[f].inode.addrs \in AddrsType
  BY <1>1, OpenTyped
<1>4. PICK n, a, H, BB : n = files[f].inode_id /\ a = files[f].inode.addrs /\ H = Holdings /\ BB = block_bitmap
  OBVIOUS
<1>5. <<n, a>> \in H
  BY <1>4 DEF Holdings
<1>6. /\ files' \in [File -> OpenType \cup {NotUsed}] /\ Using' = Using
      /\ block_bitmap' \subseteq Data /\ block_bitmap \subseteq block_bitmap'
      /\ \A g \in Using : files'[g].inode_id = files[g].inode_id
      /\ \A g \in Using \ {f} : files'[g] = files[g]
      /\ \A j \in Index \ {k} : files'[f].inode.addrs[j] = a[j]
      /\ files'[f].inode.addrs[k] = b /\ a[k] \in {0, b}
      /\ OwnedOK(block_bitmap', Holdings')
  <2>1. CASE a[k] # 0
    <3>1. files' = files /\ block_bitmap' = block_bitmap /\ b = a[k]
      BY <2>1, <1>4 DEF find_data_block
    <3>2. Using' = Using /\ Holdings' = Holdings
      BY <3>1 DEF Using, Holdings
    <3> QED
      BY <3>1, <3>2, <1>1, <1>4 DEF Typed
  <2>2. CASE a[k] = 0
    <3>1. alloc_data_block(b) /\ files' = [files EXCEPT ![f].inode.addrs[k] = b]
      BY <2>2, <1>4 DEF find_data_block
    <3>2. b \in Data \ block_bitmap /\ block_bitmap' = block_bitmap \cup {b}
      BY <3>1, <1>1, AllocBlock DEF Typed
    <3>3. PICK a1 : a1 = [a EXCEPT ![k] = b]
      OBVIOUS
    <3>4. a1 \in AddrsType /\ a1[k] = b /\ \A j \in Index \ {k} : a1[j] = a[j]
      <4>1. b \in Nat
        BY FsAssumption DEF Data
      <4> QED
        BY <4>1, <3>3, <1>3, <1>4 DEF AddrsType
    <3>5. /\ files'[f].inode_id = n /\ files'[f].inode.addrs = a1 /\ files'[f] \in OpenType
          /\ \A g \in File \ {f} : files'[g] = files[g]
      BY <3>1, <3>3, <3>4, <1>1, <1>3, <1>4 DEF Typed, OpenType, CopyType
    <3>6. files' \in [File -> OpenType \cup {NotUsed}]
      <4>1. DOMAIN files' = File /\ files' = [g \in File |-> files'[g]]
        BY <3>1, <1>1 DEF Typed
      <4>2. \A g \in File : files'[g] \in OpenType \cup {NotUsed}
        BY <3>5, <1>1 DEF Typed
      <4> QED
        BY <4>1, <4>2
    <3>7. files'[f] # NotUsed
      BY <3>5, <1>2, <1>3, <1>4 DEF NotUsed
    <3>8. Using' = Using /\ Using \subseteq File
      BY <3>5, <3>7 DEF Using
    <3>9. PICK G : G = Holdings'
      OBVIOUS
    <3>10. G \subseteq H \cup {<<n, a1>>}
      <4>1. \A g \in Using \ {f} : files'[g] = files[g]
        BY <3>5, <3>8
      <4> QED
        BY <4>1, <3>5, <3>8, <3>9, <1>4 DEF Holdings
    <3>11. \A j \in Index : \/ a1[j] = 0
                            \/ a1[j] = b /\ j = k
                            \/ \E c \in H : c[1] = n /\ c[2][j] = a1[j]
      <4>1. PICK c0 \in H : c0[1] = n /\ c0[2] = a
        BY <1>5
      <4> QED
        BY <4>1, <3>4
    <3>12. OwnedOK(BB, H) /\ b \notin BB
      BY <1>1, <1>4, <3>2
    <3>13. OwnedOK(BB \cup {b}, H \cup {<<n, a1>>})
      BY <3>11, <3>12, OwnedMore
    <3>14. OwnedOK(BB \cup {b}, G)
      BY <3>10, <3>13, OwnedLess
    <3>15. OwnedOK(block_bitmap', Holdings')
      BY <3>2, <3>9, <3>14, <1>4
    <3>16. block_bitmap' \subseteq Data /\ block_bitmap \subseteq block_bitmap'
      BY <3>2, <1>1 DEF Typed
    <3>17. \A g \in Using : files'[g].inode_id = files[g].inode_id
      BY <3>5, <3>8, <1>4
    <3> QED
      BY <3>4, <3>5, <3>6, <3>8, <3>15, <3>16, <3>17, <2>2
  <2> QED
    BY <2>1, <2>2
<1>7. PICK c0 : c0 \in Holdings' /\ c0[1] = n /\ c0[2] = files'[f].inode.addrs
  <2>1. <<n, files'[f].inode.addrs>> \in Holdings'
    BY <1>4, <1>6 DEF Holdings
  <2> QED
    BY <2>1
<1>8. ASSUME NEW c \in Holdings', NEW j \in Index, c[2][j] = b
      PROVE  c[1] = n /\ j = k
  BY <1>2, <1>6, <1>7, <1>8 DEF OwnedOK
<1>9. \A m \in inode_bitmap \ Dirs, j \in Index : inode[m].addrs[j] = b => m = n /\ j = k
  <2>1. \A m \in inode_bitmap : <<m, Addrs(inode[m])>> \in Holdings'
    BY DEF Holdings
  <2>2. \A m \in inode_bitmap \ Dirs : Addrs(inode[m]) = inode[m].addrs
    BY DEF Addrs, Dirs
  <2> QED
    BY <2>1, <2>2, <1>8
<1>10. \A g \in Using, j \in Index :
         files'[g].inode.addrs[j] = b => files[g].inode_id = n /\ j = k
  <2>1. \A g \in Using : <<files[g].inode_id, files'[g].inode.addrs>> \in Holdings'
    BY <1>6 DEF Holdings
  <2> QED
    BY <2>1, <1>8
<1> QED
  BY <1>2, <1>4, <1>6, <1>9, <1>10 DEF HasBlock

\* read and write change nothing else that the invariant is about but what is written.
LEMMA AccessSound ==
  ASSUME Sound, NEW f \in Using, NEW k \in Index, NEW b \in Data, HasBlock(f, k, b),
         inode_bitmap' = inode_bitmap, inode' = inode, dir' = dir, shared' = shared,
         cur_dir_inode' = cur_dir_inode,
         content' \in [Data -> Value \cup {Unwritten}],
         written' \in [Inode -> [Index -> Value \cup {Unwritten}]],
         \A c \in Data \ {b} : content'[c] = content[c],
         \A n \in Inode, j \in Index : n # files[f].inode_id \/ j # k => written'[n][j] = written[n][j],
         \/ content'[b] = written'[files[f].inode_id][k]
         \/ content' = content /\ written' = written
  PROVE  Sound'
<1>1. Typed /\ BareOK /\ OpenFiles /\ Kept /\ OwnedOK(block_bitmap, Holdings)
      /\ TreeOK(inode_bitmap, Dirs, EntryMap)
  BY DEF Sound
<1>2. PICK n : n = files[f].inode_id
  OBVIOUS
<1>3. n \in inode_bitmap /\ n \in Inode /\ n \notin Dirs /\ inode_bitmap \subseteq Inode
  BY <1>1, <1>2 DEF OpenFiles, Typed, Dirs
<1>4. Dirs' = Dirs /\ EntryMap' = EntryMap /\ Using' = Using
  BY DEF Dirs, EntryMap, Entries, DirBlock, HasBlock
<1>5. Typed'
  BY <1>1 DEF Typed, HasBlock
<1>6. BareOK'
  <2>1. \A m \in Inode \ {n} : Bare(m)' = Bare(m)
    BY <1>2 DEF Bare
  <2>2. \A m : DirBlock(m)' = DirBlock(m)
    BY DEF DirBlock
  <2> QED
    BY <2>1, <2>2, <1>1, <1>3, <1>4 DEF BareOK, Dirs
<1>7. OpenFiles'
  BY <1>1, <1>4 DEF OpenFiles, HasBlock
<1>8. OwnedOK(block_bitmap, Holdings)'
  BY DEF HasBlock
<1>9. TreeOK(inode_bitmap, Dirs, EntryMap)'
  BY <1>1, <1>4
<1>10. ASSUME NEW m \in inode_bitmap \ shared, m # n, NEW a,
              \A j \in Index : a[j] \in Data \cup {0} /\ a[j] # b, Reads(m, a)
       PROVE  Reads(m, a)'
  <2> SUFFICES ASSUME NEW j \in Index, written'[m][j] # Unwritten
               PROVE  a[j] # 0 /\ content'[a[j]] = written'[m][j]
    BY DEF Reads
  <2>1. written'[m][j] = written[m][j]
    BY <1>2, <1>3, <1>10
  <2>2. a[j] # 0 /\ content[a[j]] = written[m][j] /\ a[j] \in Data \cup {0}
    BY <2>1, <1>10 DEF Reads
  <2> QED
    BY <2>1, <2>2, <1>10
<1>11. ASSUME n \notin shared
       PROVE  Reads(n, files[f].inode.addrs)'
  <2>1. PICK a, a1 : a = files[f].inode.addrs /\ a1 = files'[f].inode.addrs
    OBVIOUS
  <2>2. /\ \A j \in Index \ {k} : a1[j] = a[j] /\ a1[j] # b
        /\ a1[k] = b /\ b # 0 /\ a[k] \in {0, b}
    BY <2>1 DEF HasBlock
  <2>3. Reads(n, a) /\ \A j \in Index : a[j] \in Data \cup {0}
    BY <2>1, <1>1, <1>2, <1>3, <1>11, HeldBlocks DEF Kept
  <2>4. ASSUME NEW j \in Index, written'[n][j] # Unwritten
        PROVE  a1[j] # 0 /\ content'[a1[j]] = written'[n][j]
    <3>1. CASE j # k
      <4>1. written'[n][j] = written[n][j] /\ a1[j] = a[j] /\ a1[j] # b
        BY <3>1, <2>2, <1>2, <1>3
      <4>2. a[j] # 0 /\ content[a[j]] = written[n][j] /\ a[j] \in Data \cup {0}
        BY <4>1, <2>3, <2>4 DEF Reads
      <4> QED
        BY <4>1, <4>2
    <3>2. CASE j = k /\ content'[b] = written'[n][k]
      BY <3>2, <2>2
    <3>3. CASE j = k /\ content' = content /\ written' = written
      <4>1. a[k] # 0 /\ content[a[k]] = written[n][k]
        BY <3>3, <2>3, <2>4 DEF Reads
      <4> QED
        BY <4>1, <3>3, <2>2
    <3> QED
      BY <3>1, <3>2, <3>3, <1>2
  <2> QED
    BY <2>1, <2>4 DEF Reads
<1>12. Kept'
  <2>1. ASSUME NEW m \in inode_bitmap \ shared, NEW g \in Using, files'[g].inode_id = m
        PROVE  Reads(m, files[g].inode.addrs)'
    <3>1. files[g].inode_id = m
      BY <2>1 DEF HasBlock
    <3>2. CASE m = n
      <4>1. g = f
        BY <3>1, <3>2, <1>1, <1>2 DEF OpenFiles
      <4> QED
        BY <4>1, <3>2, <1>11
    <3>3. CASE m # n
      <4>1. g # f /\ files'[g] = files[g]
        BY <3>1, <3>3, <1>2 DEF HasBlock
      <4>2. PICK a : a = files[g].inode.addrs
        OBVIOUS
      <4>3. \A j \in Index : a[j] \in Data \cup {0} /\ a[j] # b
        BY <4>1, <4>2, <3>1, <3>3, <1>1, <1>2, HeldBlocks DEF HasBlock
      <4>4. Reads(m, a)
        BY <4>2, <3>1, <1>1 DEF Kept
      <4>5. Reads(m, a)'
        BY <4>3, <4>4, <3>3, <1>10
      <4> QED
        BY <4>1, <4>2, <4>5
    <3> QED
      BY <3>2, <3>3
  <2>2. ASSUME NEW m \in inode_bitmap \ shared, \A g \in Using : files'[g].inode_id # m
        PROVE  Reads(m, inode[m].addrs)'
    <3>1. \A g \in Using : files[g].inode_id # m
      BY <2>2 DEF HasBlock
    <3>2. m # n
      BY <3>1, <1>2
    <3>3. PICK a : a = inode[m].addrs
      OBVIOUS
    <3>4. CASE m \in Dirs
      <4>1. \A j \in Index : written'[m][j] = Unwritten
        BY <3>2, <3>4, <1>1, <1>2, <1>3 DEF BareOK, Bare
      <4> QED
        BY <4>1 DEF Reads
    <3>5. CASE m \notin Dirs
      <4>1. \A j \in Index : a[j] \in Data \cup {0} /\ a[j] # b
        BY <3>2, <3>3, <3>5, <1>1, <1>2, HeldBlocks DEF HasBlock, Dirs
      <4>2. Reads(m, a)
        BY <3>1, <3>3, <1>1 DEF Kept
      <4>3. Reads(m, a)'
        BY <3>2, <4>1, <4>2, <1>10
      <4> QED
        BY <3>3, <4>3
    <3> QED
      BY <3>4, <3>5
  <2> QED
    BY <2>1, <2>2, <1>4 DEF Kept
<1>13. CwdOK'
  BY <1>4, CwdSame DEF HasBlock
<1> QED
  BY <1>5, <1>6, <1>7, <1>8, <1>9, <1>12, <1>13 DEF Sound

LEMMA ReadSound ==
  ASSUME Sound, NEW f \in File, NEW k \in Index, read(f, k)
  PROVE  Sound'
<1>1. PICK b \in Data : find_data_block(f, k, b)
  BY DEF read
<1>2. /\ f \in Using /\ inode_bitmap' = inode_bitmap /\ inode' = inode /\ dir' = dir
      /\ content' = content /\ written' = written /\ shared' = shared
      /\ cur_dir_inode' = cur_dir_inode
  BY DEF read
<1>3. HasBlock(f, k, b)
  BY <1>1, <1>2, FindBlock
<1>4. content' \in [Data -> Value \cup {Unwritten}]
      /\ written' \in [Inode -> [Index -> Value \cup {Unwritten}]]
  BY <1>2 DEF Sound, Typed
<1> QED
  BY <1>2, <1>3, <1>4, AccessSound

LEMMA WriteSound ==
  ASSUME Sound, NEW f \in File, NEW k \in Index, NEW v \in Value, write(f, k, v)
  PROVE  Sound'
<1>1. PICK b \in Data : find_data_block(f, k, b) /\ content' = [content EXCEPT ![b] = v]
  BY DEF write
<1>2. /\ f \in Using /\ inode_bitmap' = inode_bitmap /\ inode' = inode /\ dir' = dir
      /\ written' = [written EXCEPT ![files[f].inode_id][k] = v] /\ shared' = shared
      /\ cur_dir_inode' = cur_dir_inode
  BY DEF write
<1>3. HasBlock(f, k, b)
  BY <1>1, <1>2, FindBlock
<1>4. Typed /\ files[f].inode_id \in Inode
  BY <1>2, OpenTyped DEF Sound
<1>5. /\ content' \in [Data -> Value \cup {Unwritten}] /\ content'[b] = v
      /\ \A c \in Data \ {b} : content'[c] = content[c]
  BY <1>1, <1>4 DEF Typed
<1>6. /\ written' \in [Inode -> [Index -> Value \cup {Unwritten}]]
      /\ written'[files[f].inode_id][k] = v
      /\ \A n \in Inode, j \in Index :
           n # files[f].inode_id \/ j # k => written'[n][j] = written[n][j]
  BY <1>2, <1>4 DEF Typed
<1> QED
  BY <1>2, <1>3, <1>5, <1>6, AccessSound

LEMMA StepSound ==
  ASSUME FsInv, [Next]_vars
  PROVE  FsInv'
<1>1. CASE UNCHANGED vars
  <2>1. (broken' = broken) /\ (Sound' = Sound)
    BY <1>1 DEF vars, Sound, Typed, BareOK, Bare, Dirs, DirBlock, OpenFiles, Using, Kept, Reads,
                Holdings, EntryMap, Entries, CwdOK, Gone
  <2> QED
    BY <2>1 DEF FsInv
<1>2. CASE Next
  <2> SUFFICES ASSUME ~broken'
               PROVE  Sound'
    BY DEF FsInv
  <2>1. Sound
    BY <1>2 DEF FsInv, Next
  <2>2. CASE \E name \in Name : do_mkdir(cur_dir_inode, name) \/ do_touch(cur_dir_inode, name)
    <3>1. cur_dir_inode \in Inode
      BY <2>1 DEF Sound, Typed
    <3> QED
      BY <2>1, <2>2, <3>1, MkdirSound, TouchSound
  <2>3. CASE \E n \in Inode : do_cd(n)
    BY <2>1, <2>3, CdSound
  <2>4. CASE \E n \in Inode \cup {NotFound} : do_rmdir(n)
    BY <2>1, <2>4, RmdirSound
  <2>5. ~do_find_lost
    BY DEF do_find_lost, Damage
  <2>6. CASE \E f \in File, n \in Inode : open(f, n)
    BY <2>1, <2>6, OpenSound
  <2>7. CASE \E f \in File, k \in Index : read(f, k) \/ \E v \in Value : write(f, k, v)
    BY <2>1, <2>7, ReadSound, WriteSound
  <2>8. CASE \E f \in File : close(f)
    BY <2>1, <2>8, CloseSound
  <2> QED
    BY <1>2, <2>2, <2>3, <2>4, <2>5, <2>6, <2>7, <2>8 DEF Next
<1> QED
  BY <1>1, <1>2
-----------------------------------------------------------------------------
LEMMA SoundBlocks ==
  ASSUME Sound
  PROVE  BlocksExclusive
<1>1. Typed /\ OwnedOK(block_bitmap, Holdings)
  BY DEF Sound
<1>2. ASSUME NEW n \in inode_bitmap, NEW c \in Copies(n)
      PROVE  <<n, Addrs(c)>> \in Holdings /\ DOMAIN Addrs(c) = Index
  <2>1. CASE c = inode[n]
    <3>1. inode[n] \in InodeType
      BY <1>1 DEF Typed
    <3>2. DOMAIN Addrs(c) = Index
      BY <3>1, <2>1 DEF InodeType, AddrsType, Addrs, NoAddrs
    <3> QED
      BY <3>2, <2>1 DEF Holdings
  <2>2. CASE c \in Opened(n)
    <3>1. PICK f \in Using : files[f].inode_id = n /\ c = files[f].inode
      BY <2>2 DEF Opened
    <3>2. c.addrs \in AddrsType /\ Addrs(c) = c.addrs
      BY <3>1, <1>1, OpenTyped DEF Addrs
    <3> QED
      BY <3>1, <3>2 DEF Holdings, AddrsType
  <2> QED
    BY <2>1, <2>2 DEF Copies
<1>3. ASSUME NEW n \in inode_bitmap, NEW x \in Blocks(n)
      PROVE  x # 0 /\ \E h \in Holdings, k \in Index : h[1] = n /\ h[2][k] = x
  <2>1. PICK c \in Copies(n) : x \in Range(Addrs(c)) /\ x # 0
    BY DEF Blocks
  <2>2. PICK k \in Index : Addrs(c)[k] = x
    BY <2>1, <1>2 DEF Range
  <2>3. PICK h \in Holdings : h[1] = n /\ h[2] = Addrs(c)
    BY <1>2
  <2> QED
    BY <2>1, <2>2, <2>3
<1>4. ASSUME NEW n \in inode_bitmap
      PROVE  Blocks(n) \subseteq block_bitmap
  BY <1>1, <1>3 DEF OwnedOK
<1>5. ASSUME NEW n \in inode_bitmap, NEW m \in inode_bitmap \ {n}
      PROVE  Blocks(n) \cap Blocks(m) = {}
  <2> SUFFICES ASSUME NEW x \in Blocks(n), x \in Blocks(m)
               PROVE  FALSE
    OBVIOUS
  <2>1. PICK h \in Holdings, k \in Index : h[1] = n /\ h[2][k] = x
    BY <1>3
  <2>2. PICK g \in Holdings, j \in Index : g[1] = m /\ g[2][j] = x
    BY <1>3
  <2>3. x # 0
    BY <1>3
  <2> QED
    BY <2>1, <2>2, <2>3, <1>1 DEF OwnedOK
<1>6. ASSUME NEW n \in inode_bitmap, NEW c \in Copies(n), NEW j \in Index, NEW k \in Index,
             Addrs(c)[j] = Addrs(c)[k], j # k
      PROVE  Addrs(c)[j] = 0
  <2>1. PICK h \in Holdings : h[2] = Addrs(c)
    BY <1>2
  <2> QED
    BY <2>1, <1>1, <1>6 DEF OwnedOK
<1> QED
  BY <1>4, <1>5, <1>6 DEF BlocksExclusive

LEMMA SoundTree ==
  ASSUME Sound
  PROVE  TreeSound
<1>1. PICK B, D, E : B = inode_bitmap /\ D = Dirs /\ E = EntryMap
  OBVIOUS
<1>2. TreeOK(B, D, E) /\ \A d \in D : Entries(d) = E[d]
  BY <1>1 DEF Sound, EntryMap
<1>3. \A d \in D : /\ Len(E[d]) \in Nat /\ Len(E[d]) <= MaxEntry /\ DOMAIN E[d] = 1..Len(E[d])
  BY <1>2, DirLen
<1>4. ASSUME NEW d \in Dirs
      PROVE  /\ Entries(d)[1] = Entry(".", d) /\ Entries(d)[2].inode_id \in Dirs
             /\ \A i, j \in DOMAIN Entries(d) : Entries(d)[i].name = Entries(d)[j].name => i = j
  BY <1>1, <1>2, <1>3 DEF TreeOK, DirOK
<1>5. ASSUME NEW p \in Places
      PROVE  p[1] \in D /\ p[2] \in 3..Len(E[p[1]]) /\ p = <<p[1], p[2]>>
  <2>1. p \in Dirs \X (3..MaxEntry) /\ p[2] <= Len(Entries(p[1]))
    BY DEF Places
  <2>2. p[1] \in D /\ p[2] \in 3..MaxEntry /\ p = <<p[1], p[2]>> /\ p[2] <= Len(E[p[1]])
    BY <2>1, <1>1, <1>2
  <2> QED
    BY <2>2, <1>3, FsAssumption
<1>6. ASSUME NEW d \in D, NEW i \in 3..Len(E[d])
      PROVE  <<d, i>> \in Places
  <2>1. i \in 3..MaxEntry /\ i <= Len(Entries(d))
    BY <1>2, <1>3, FsAssumption
  <2> QED
    BY <2>1, <1>1 DEF Places
<1>7. \A p \in Places : Entries(p[1])[p[2]].inode_id \in inode_bitmap
  BY <1>1, <1>2, <1>5 DEF TreeOK, EnteredOnce
<1>8. ASSUME NEW n \in inode_bitmap \ {Root}
      PROVE  Quantify(Places, LAMBDA p : Entries(p[1])[p[2]].inode_id = n) = 1
  <2> DEFINE S == {p \in Places : Entries(p[1])[p[2]].inode_id = n}
  <2>1. PICK d \in D : \E i \in 3..Len(E[d]) : E[d][i].inode_id = n
    BY <1>1, <1>2 DEF TreeOK, EnteredOnce
  <2>2. PICK i \in 3..Len(E[d]) : E[d][i].inode_id = n
    BY <2>1
  <2>3. <<d, i>> \in S
    BY <2>2, <1>2, <1>6
  <2>4. ASSUME NEW p \in S
        PROVE  p = <<d, i>>
    <3>1. p[1] \in D /\ p[2] \in 3..Len(E[p[1]]) /\ p = <<p[1], p[2]>>
      BY <1>5
    <3>2. E[p[1]][p[2]].inode_id = n
      BY <3>1, <1>2
    <3>3. PICK x, y : x = p[1] /\ y = p[2]
      OBVIOUS
    <3>4. x \in D /\ y \in 3..Len(E[x]) /\ E[x][y].inode_id = E[d][i].inode_id
      BY <3>1, <3>2, <3>3, <2>2
    <3>5. x = d /\ y = i
      BY <3>4, <2>2, <1>2 DEF TreeOK, EnteredOnce
    <3> QED
      BY <3>1, <3>3, <3>5
  <2>5. S = {<<d, i>>}
    BY <2>3, <2>4
  <2>6. Cardinality(S) = 1
    BY <2>5, FS_Singleton
  <2> QED
    BY <2>6 DEF Quantify
<1> QED
  BY <1>4, <1>7, <1>8 DEF TreeSound

LEMMA SoundKept ==
  ASSUME Sound, ~broken
  PROVE  WritesKept
<1> SUFFICES ASSUME NEW n \in inode_bitmap \ shared, NEW k \in Index, written[n][k] # Unwritten,
                    NEW c, c = IF Opened(n) = {} THEN inode[n] ELSE CHOOSE o \in Opened(n) : TRUE
             PROVE  c.addrs[k] # 0 /\ content[c.addrs[k]] = written[n][k]
  BY DEF WritesKept
<1>1. CASE Opened(n) = {}
  <2>1. \A f \in Using : files[f].inode_id # n
    BY <1>1 DEF Opened
  <2>2. Reads(n, inode[n].addrs)
    BY <2>1 DEF Sound, Kept
  <2> QED
    BY <1>1, <2>2 DEF Reads
<1>2. CASE Opened(n) # {}
  <2>1. c \in Opened(n)
    BY <1>2
  <2>2. PICK f \in Using : files[f].inode_id = n /\ c = files[f].inode
    BY <2>1 DEF Opened
  <2>3. Reads(n, c.addrs)
    BY <2>2 DEF Sound, Kept
  <2> QED
    BY <2>3 DEF Reads
<1> QED
  BY <1>1, <1>2

LEMMA SoundTypes ==
  ASSUME Sound
  PROVE  TypeOK
<1>1. Typed
  BY DEF Sound
<1>2. \A n \in Inode : inode[n].type \in Type /\ inode[n].addrs \in [Index -> Nat]
  BY <1>1 DEF Typed, InodeType, AddrsType
<1>3. \A f \in Using : files[f].inode_id \in Inode
  BY <1>1, OpenTyped
<1> QED
  BY <1>1, <1>2, <1>3 DEF Typed, TypeOK

\* The inductive invariant holds in every state.
LEMMA FsInvariant == Spec => []FsInv
<1>1. Init => FsInv
  BY InitSound DEF FsInv
<1>2. FsInv /\ [Next]_vars => FsInv'
  BY StepSound
<1> QED
  BY <1>1, <1>2, PTL DEF Spec

\* Until an operation does what fs.c gets wrong, every block belongs to one file or directory
\* and is marked as used, and the directories form a tree, for any number of inodes, blocks,
\* names and open files, and whatever the disk held before.  What it gets wrong is do_touch of
\* an inode with old addresses; do_mkdir and do_touch in a current directory that was removed,
\* and paths from there once a file has its block; and do_rmdir of the root, of a file, of
\* what does not exist, of a directory removed before or one with entries, of an entry that
\* is not the last, and of an inode that is not the first of its block.
THEOREM FsStaysConsistent == Spec => []FsConsistent
<1>1. FsInv => FsConsistent
  BY SoundTypes, SoundBlocks, SoundTree DEF FsInv, FsConsistent
<1> QED
  BY <1>1, FsInvariant, PTL

\* Until then a file that was never open twice at the same time reads as it was written,
\* whatever is done to other files, to directories and to the current directory, removed or
\* not, and however often it is closed and opened.
THEOREM FsKeepsWrites == Spec => []WritesKept
<1>1. FsInv => WritesKept
  <2>1. CASE broken
    BY <2>1 DEF WritesKept
  <2>2. CASE ~broken
    BY <2>2, SoundKept DEF FsInv
  <2> QED
    BY <2>1, <2>2
<1> QED
  BY <1>1, FsInvariant, PTL
-----------------------------------------------------------------------------
\* The inodes of the first block, which init_file_system clears.
Cleared == {n \in Inode : n < INODES_PER_BLOCK}

\* A step that removes no directory and takes no inode outside of the first block.
NextCleared ==
  /\ Next /\ ~\E n \in Inode \cup {NotFound} : do_rmdir(n)
  /\ inode_bitmap' \subseteq Cleared

\* No free inode of the first block has an address, so that do_touch may leave them as
\* they are.
Clean ==
  /\ ~broken /\ Sound /\ cur_dir_inode \in Dirs
  /\ \A n \in Cleared \ inode_bitmap : inode[n].addrs = NoAddrs

LEMMA StepClean ==
  ASSUME Clean, [NextCleared]_vars
  PROVE  Clean'
<1>1. FsInv'
  BY StepSound DEF Clean, FsInv, NextCleared
<1>2. CASE UNCHANGED vars
  BY <1>1, <1>2 DEF vars, Clean, FsInv, Dirs
<1>3. CASE NextCleared
  <2> DEFINE Free == \A n \in Cleared \ inode_bitmap' : inode'[n].addrs = NoAddrs
  <2> SUFFICES ~broken' /\ cur_dir_inode' \in Dirs' /\ Free
    BY <1>1 DEF Clean, FsInv
  <2>1. /\ Sound /\ ~broken /\ cur_dir_inode \in Dirs
        /\ \A n \in Cleared \ inode_bitmap : inode[n].addrs = NoAddrs
    BY DEF Clean
  <2>2. inode \in [Inode -> InodeType] /\ inode_bitmap \subseteq Inode /\ cur_dir_inode \in Inode
    BY <2>1 DEF Sound, Typed
  <2>3. ASSUME NEW fa, fa = cur_dir_inode, NEW name \in Name, do_mkdir(fa, name) \/ do_touch(fa, name)
        PROVE  ~broken' /\ cur_dir_inode' \in Dirs' /\ Free
    <3>1. fa \in Dirs /\ NewEntry(fa, name)
      BY <2>1, <2>3 DEF do_mkdir, do_touch
    <3>2. PICK n \in Inode \ inode_bitmap : n = alloc_inode
      BY <2>1, <3>1, NewNode
    <3>3. /\ inode_bitmap' = inode_bitmap \cup {n} /\ cur_dir_inode' = cur_dir_inode
          /\ \A m \in Inode \ {n} : inode'[m] = inode[m]
      BY <2>2, <2>3, <3>2 DEF do_mkdir, do_touch
    <3>4. inode[n].addrs = NoAddrs /\ Free
      BY <1>3, <2>1, <3>2, <3>3 DEF NextCleared, Cleared
    <3>5. cur_dir_inode' \in Dirs'
      BY <2>1, <2>2, <3>2, <3>3 DEF Dirs
    <3>6. CASE do_mkdir(fa, name)
      <4>1. broken' = (fa \notin Dirs)
        BY <3>6, Zenon DEF do_mkdir
      <4> QED
        BY <3>1, <3>4, <3>5, <4>1
    <3>7. CASE do_touch(fa, name)
      <4>1. broken' = (fa \notin Dirs \/ inode[n].addrs # NoAddrs)
        BY <3>2, <3>7, Zenon DEF do_touch
      <4> QED
        BY <3>1, <3>4, <3>5, <4>1
    <3> QED
      BY <2>3, <3>6, <3>7
  <2>4. ASSUME broken' = broken, inode_bitmap' = inode_bitmap, inode' = inode,
               cur_dir_inode' = cur_dir_inode
        PROVE  ~broken' /\ cur_dir_inode' \in Dirs' /\ Free
    BY <2>1, <2>4 DEF Dirs
  <2>5. ASSUME NEW f \in File, NEW n \in Inode, open(f, n)
        PROVE  ~broken' /\ cur_dir_inode' \in Dirs' /\ Free
    BY <2>4, <2>5 DEF open
  <2>6. ASSUME NEW f \in File, NEW k \in Index, read(f, k) \/ \E v \in Value : write(f, k, v)
        PROVE  ~broken' /\ cur_dir_inode' \in Dirs' /\ Free
    <3>1. /\ broken' = broken /\ inode_bitmap' = inode_bitmap /\ inode' = inode
          /\ cur_dir_inode' = cur_dir_inode
      BY <2>6 DEF read, write
    <3> QED
      BY <2>4, <3>1
  <2>7. ASSUME NEW f \in File, close(f)
        PROVE  ~broken' /\ cur_dir_inode' \in Dirs' /\ Free
    <3>1. /\ f \in Using /\ files[f].inode_id \in inode_bitmap
          /\ inode[files[f].inode_id].type = "FILE"
      BY <2>1, <2>7 DEF close, Sound, OpenFiles
    <3>2. cur_dir_inode # files[f].inode_id
      BY <2>1, <3>1 DEF Dirs
    <3>3. /\ broken' = broken /\ inode_bitmap' = inode_bitmap /\ cur_dir_inode' = cur_dir_inode
          /\ \A m \in Inode \ {files[f].inode_id} : inode'[m] = inode[m]
      BY <2>2, <2>7 DEF close
    <3>4. Free
      BY <2>1, <3>1, <3>3 DEF Cleared
    <3>5. cur_dir_inode' \in Dirs'
      BY <2>1, <2>2, <3>2, <3>3 DEF Dirs
    <3> QED
      BY <2>1, <3>3, <3>4, <3>5
  <2>8. ASSUME NEW n \in Inode, do_cd(n)
        PROVE  ~broken' /\ cur_dir_inode' \in Dirs' /\ Free
    <3>1. Gone({})
      BY DEF Gone
    <3>2. n \in Found /\ inode[n].type = "DIR"
      BY <2>8 DEF do_cd
    <3>3. n \in Dirs
      BY <2>1, <3>1, <3>2, FoundNode DEF Dirs
    <3> QED
      BY <2>1, <2>8, <3>3 DEF do_cd, Dirs
  <2>9. ~do_find_lost
    <3>1. Climbed \subseteq Dirs
      <4>1. Dirs \in SUBSET Inode /\ Dirs \cap Ghosts = {}
        BY <2>2 DEF Dirs, Ghosts
      <4> QED
        BY <2>1, <4>1, Zenon DEF Climbed
    <3> QED
      BY <3>1 DEF do_find_lost, Lost
  <2> QED
    BY <1>3, <2>3, <2>5, <2>6, <2>7, <2>8, <2>9 DEF NextCleared, Next
<1> QED
  BY <1>2, <1>3

\* It takes do_rmdir or an inode behind the first block to damage a file system: as long as
\* no directory is removed and the first block has inodes enough (init_file_system clears
\* no other), every block has one owner, the directories form a tree and files read as
\* written, and no operation does what the other theorems exclude.
THEOREM FsUndamaged ==
  Init /\ [][NextCleared]_vars => [](~broken /\ BlocksExclusive /\ TreeSound /\ WritesKept)
<1>1. ASSUME Init
      PROVE  Clean
  <2>1. Sound /\ ~broken /\ cur_dir_inode \in Dirs
    <3>1. Sound /\ ~broken /\ cur_dir_inode = Root
      BY <1>1, InitSound DEF Init
    <3> QED
      BY <3>1 DEF Sound, TreeOK
  <2>2. ASSUME NEW n \in Cleared \ inode_bitmap
        PROVE  inode[n].addrs = NoAddrs
    <3>1. n # Root /\ n \in Inode /\ n < INODES_PER_BLOCK
      BY <1>1 DEF Init, Cleared
    <3> QED
      BY <1>1, <3>1 DEF Init
  <2> QED
    BY <2>1, <2>2 DEF Clean
<1>2. Clean /\ [NextCleared]_vars => Clean'
  BY StepClean
<1>3. Clean => ~broken /\ BlocksExclusive /\ TreeSound /\ WritesKept
  BY SoundBlocks, SoundTree, SoundKept DEF Clean
<1> QED
  BY <1>1, <1>2, <1>3, PTL
=============================================================================
