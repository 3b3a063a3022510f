-------------------------------- MODULE Fs ---------------------------------
(***************************************************************************)
(* The file system of fs/fs.c: directories, inodes, bitmaps and the table  *)
(* of open files, each with a copy of its inode.                           *)
(*                                                                         *)
(* Blocks are read and written directly: that the cache between loses      *)
(* nothing is the subject of BlockCache, as is the order of the accesses.  *)
(* An inode has direct addresses only.  Every operation is a system call,  *)
(* with interrupts off, and one step.                                      *)
(*                                                                         *)
(* What the code gets wrong it does here as well, and broken is set.       *)
(* From then on the variables do not say what the disk holds.              *)
(***************************************************************************)
EXTENDS Naturals, Sequences, SequencesExt, FiniteSetsExt

CONSTANTS
  NumInode,          \* bound: inodes
  INODES_PER_BLOCK,
  NumBlock,          \* bound: data blocks, counted from 1
  NumAddr,           \* bound: addresses of an inode
  MaxEntry,          \* bound: entries of a directory, fewer than DENTRY_PER_BLOCK
  Name,              \* names of files and directories
  Value,             \* contents of a block of a file
  File,              \* slots of the table of open files
  OldInode           \* what the disk held before it was formatted, where inodes are now

Inode == 0..(NumInode - 1)
Data  == 1..NumBlock        \* 0 is no address
Index == 0..(NumAddr - 1)
Root  == 0
Type  == {"NONE", "FILE", "DIR"}
Unwritten == "unwritten"

ASSUME FsAssumption ==
  /\ NumInode \in Nat \ {0} /\ INODES_PER_BLOCK \in Nat \ {0}
  /\ NumBlock \in Nat \ {0} /\ NumAddr \in Nat \ {0}
  /\ MaxEntry \in Nat /\ MaxEntry > 1
  /\ OldInode \subseteq [type : Type, addrs : [Index -> Nat]]

VARIABLES
  inode_bitmap,  \* the inodes in use
  block_bitmap,  \* the data blocks in use
  inode,         \* the inodes: type and addrs
  dir,           \* the entries in each block, as a directory
  content,       \* the content of each block, as a part of a file
  files,         \* the open files: inode_id and the copy of the inode
  cur_dir_inode, \* the current directory, one for all processes
  written,       \* ghost: what was last written to each block of each file
  shared,        \* ghost: the files that were open twice at the same time
  broken         \* ghost: an operation did what damages the file system

vars == <<inode_bitmap, block_bitmap, inode, dir, content, files, cur_dir_inode,
          written, shared, broken>>

Entry(name, n) == [name |-> name, inode_id |-> n]
NotUsed == [inode_id |-> NumInode, inode |-> [type |-> "NONE", addrs |-> <<>>]]
Using   == {f \in File : files[f] # NotUsed}
NoAddrs == [k \in Index |-> 0]

\* init_file_system clears the first block of inodes; the others keep what the disk held.
Init ==
  /\ inode_bitmap = {Root} /\ block_bitmap = {1}
  /\ \E old \in [Inode -> OldInode] :
       inode = [n \in Inode |->
         IF n = Root THEN [type |-> "DIR", addrs |-> [NoAddrs EXCEPT ![0] = 1]]
         ELSE IF n < INODES_PER_BLOCK THEN [type |-> "NONE", addrs |-> NoAddrs]
         ELSE old[n]]
  /\ dir = [b \in Data |-> IF b = 1 THEN <<Entry(".", Root), Entry("..", Root)>> ELSE <<>>]
  /\ content = [b \in Data |-> Unwritten]
  /\ files = [f \in File |-> NotUsed] /\ cur_dir_inode = Root
  /\ written = [n \in Inode |-> [k \in Index |-> Unwritten]]
  /\ shared = {} /\ broken = FALSE
-----------------------------------------------------------------------------
\* The first one that is free.  Bound: there is one; the code does not check it.
alloc_inode == Min(Inode \ inode_bitmap)

\* The block is not marked as used.
alloc_data_block_fault(b) == b = Min(Data \ block_bitmap) /\ block_bitmap' = block_bitmap

\* b is allocated.
alloc_data_block(b) ==
  /\ Data # block_bitmap
  /\ b = Min(Data \ block_bitmap)
  /\ block_bitmap' = block_bitmap \cup {b}

DirBlock(n) == inode[n].addrs[0]
Entries(n)  == dir[DirBlock(n)]
Dirs        == {n \in inode_bitmap : inode[n].type = "DIR"}
HasName(n, name) == \E e \in Range(Entries(n)) : e.name = name

\* The directories that were removed and whose block is free: their entries can still be read.
\* An inode with old data may look like one, but no path leads to it.
Ghosts == {d \in Inode \ inode_bitmap :
             /\ inode[d].type = "DIR" /\ DirBlock(d) \in Data \ block_bitmap
             /\ Len(Entries(d)) > 1}

\* The current directory and, as long as they are ghosts, what their ".." leads to.
Climbed ==
  {d \in Inode : \A S \in SUBSET Inode :
     (cur_dir_inode \in S /\ \A e \in S \cap Ghosts : Entries(e)[2].inode_id \in S) => d \in S}

\* A path passes a directory that was removed, and a file has its block by now.
Lost == \E d \in Climbed \ Dirs : DirBlock(d) \in block_bitmap

\* What do_find returns for the paths there are, from the root or the current directory.
Found ==
  {Root, cur_dir_inode}
    \cup {e.inode_id : e \in UNION {Range(Entries(d)) : d \in Dirs \cup (Climbed \cap Ghosts)}}

NotFound == NumInode        \* -1

\* What happens to the disk, and to memory, depends on data that has another meaning.
Damage ==
  /\ broken' = TRUE
  /\ UNCHANGED <<inode_bitmap, block_bitmap, inode, dir, content, files, cur_dir_inode,
                 written, shared>>

\* do_find takes what a file contains for the entries of a directory, and do_cd, open or
\* do_rmdir goes on with any number.
do_find_lost == Lost /\ Damage

do_cd(n) ==
  /\ n \in Found /\ inode[n].type = "DIR"
  /\ cur_dir_inode' = n
  /\ UNCHANGED <<inode_bitmap, block_bitmap, inode, dir, content, files, written, shared, broken>>

\* A name is entered once only, after the last entry.
NewEntry(fa, name) ==
  /\ ~HasName(fa, name)
  /\ Len(Entries(fa)) < MaxEntry
  /\ inode_bitmap # Inode

\* The shell passes cur_dir_inode.  The entry is lost when that was removed, and so is the
\* file its block may belong to.
do_mkdir(fa, name) ==
  LET n == alloc_inode
  IN  /\ NewEntry(fa, name)
      /\ inode_bitmap' = inode_bitmap \cup {n}
      /\ \E b \in Data :
           /\ alloc_data_block(b)
           /\ inode' = [inode EXCEPT ![n].type = "DIR", ![n].addrs[0] = b]
           /\ dir' = [dir EXCEPT ![DirBlock(fa)] = Append(@, Entry(name, n)),
                                 ![b] = <<Entry(".", n), Entry("..", fa)>>]
      /\ broken' = (fa \notin Dirs)
      /\ UNCHANGED <<content, files, cur_dir_inode, written, shared>>

\* The addresses of the inode are left as they are.
do_touch(fa, name) ==
  LET n == alloc_inode
  IN  /\ NewEntry(fa, name)
      /\ inode_bitmap' = inode_bitmap \cup {n}
      /\ inode' = [inode EXCEPT ![n].type = "FILE"]
      /\ dir' = [dir EXCEPT ![DirBlock(fa)] = Append(@, Entry(name, n))]
      /\ broken' = (fa \notin Dirs \/ inode[n].addrs # NoAddrs)
      /\ UNCHANGED <<block_bitmap, content, files, cur_dir_inode, written, shared>>

\* The entry of n goes when it is the last.  Else the bytes from last_dir_id on are copied
\* to byte dir_id, a shift by their distance: "." gets characters of ".." into its inode_id,
\* ".." loses as many; and the last entry is cleared.
Removed(entries, n) ==
  LET dir_id      == Max({i \in DOMAIN entries : entries[i].inode_id = n})
      last_dir_id == Len(entries)
  IN  IF dir_id = last_dir_id THEN Front(entries)
      ELSE [Front(entries) EXCEPT ![1].inode_id = NumInode,
                                  ![2].name = IF last_dir_id = dir_id + 1 THEN "." ELSE ""]

\* The block that is freed is the one of the first inode in the inode's block, and what a
\* directory still has in it is lost.  The root is an entry of itself.  The shell passes
\* what do_find has found, or -1, whatever it is: of a file, data is taken for its "..", and
\* a directory that was removed has no entry any more, so that dir_id is not initialized.
do_rmdir(n) ==
  LET fa    == Entries(n)[2].inode_id
      first == n - (n % INODES_PER_BLOCK)
  IN  /\ n \in Found \cup {NotFound}
      /\ IF n \notin Dirs THEN Damage
         ELSE /\ dir' = [dir EXCEPT ![DirBlock(fa)] = Removed(@, n)]
              /\ inode_bitmap' = inode_bitmap \ {n}
              /\ block_bitmap' = block_bitmap \ {DirBlock(first)}
              /\ broken' = \/ n = Root \/ first # n \/ Len(Entries(n)) > 2
                           \/ Last(Entries(fa)).inode_id # n
              /\ UNCHANGED <<inode, content, files, cur_dir_inode, written, shared>>

\* Files only, as the programs do.
open(f, n) ==
  /\ f \notin Using
  /\ n \in Found /\ inode[n].type = "FILE"
  /\ files' = [files EXCEPT ![f] = [inode_id |-> n, inode |-> inode[n]]]
  /\ shared' = shared \cup ({n} \cap {files[g].inode_id : g \in Using})
  /\ UNCHANGED <<inode_bitmap, block_bitmap, inode, dir, content, cur_dir_inode, written, broken>>

\* Block k of the file is b.  It is allocated when there is none, for a read as well.
find_data_block(f, k, b) ==
  IF files[f].inode.addrs[k] # 0
  THEN b = files[f].inode.addrs[k] /\ UNCHANGED <<files, block_bitmap>>
  ELSE /\ alloc_data_block(b)
       /\ files' = [files EXCEPT ![f].inode.addrs[k] = b]

write(f, k, v) ==
  /\ f \in Using
  /\ \E b \in Data : find_data_block(f, k, b) /\ content' = [content EXCEPT ![b] = v]
  /\ written' = [written EXCEPT ![files[f].inode_id][k] = v]
  /\ UNCHANGED <<inode_bitmap, inode, dir, cur_dir_inode, shared, broken>>

read(f, k) ==
  /\ f \in Using
  /\ \E b \in Data : find_data_block(f, k, b)
  /\ UNCHANGED <<inode_bitmap, inode, dir, content, cur_dir_inode, written, shared, broken>>

\* The inode is not written back.
close_fault(f) ==
  /\ f \in Using
  /\ files' = [files EXCEPT ![f] = NotUsed]
  /\ UNCHANGED <<inode_bitmap, block_bitmap, inode, dir, content, cur_dir_inode,
                 written, shared, broken>>

close(f) ==
  /\ f \in Using
  /\ inode' = [inode EXCEPT ![files[f].inode_id] = files[f].inode]
  /\ files' = [files EXCEPT ![f] = NotUsed]
  /\ UNCHANGED <<inode_bitmap, block_bitmap, dir, content, cur_dir_inode, written, shared, broken>>

\* Bound: nothing is done with a file system that is damaged.
Next ==
  /\ ~broken
  /\ \/ \E name \in Name : do_mkdir(cur_dir_inode, name) \/ do_touch(cur_dir_inode, name)
     \/ \E n \in Inode : do_cd(n)
     \/ \E n \in Inode \cup {NotFound} : do_rmdir(n)
     \/ do_find_lost
     \/ \E f \in File, n \in Inode : open(f, n)
     \/ \E f \in File, k \in Index : read(f, k) \/ \E v \in Value : write(f, k, v)
     \/ \E f \in File : close(f)

Spec == Init /\ [][Next]_vars
-----------------------------------------------------------------------------
TypeOK ==
  /\ inode_bitmap \subseteq Inode /\ block_bitmap \subseteq Data
  /\ \A n \in Inode : inode[n].type \in Type /\ inode[n].addrs \in [Index -> Nat]
  /\ content \in [Data -> Value \cup {Unwritten}]
  /\ \A f \in Using : files[f].inode_id \in Inode
  /\ cur_dir_inode \in Inode

\* The copies of an inode in open files, and the inode on the disk.
Opened(n) == {files[f].inode : f \in {g \in Using : files[g].inode_id = n}}
Copies(n) == {inode[n]} \cup Opened(n)

\* The addresses that are used: the first one only of a directory.
Addrs(c)  == IF c.type = "DIR" THEN [NoAddrs EXCEPT ![0] = c.addrs[0]] ELSE c.addrs
Blocks(n) == (UNION {Range(Addrs(c)) : c \in Copies(n)}) \ {0}

\* No block belongs to two files or directories or twice to one, and all are marked as used,
\* those too that only the copy of an inode in an open file knows of.
BlocksExclusive ==
  \A n \in inode_bitmap :
    /\ Blocks(n) \subseteq block_bitmap
    /\ \A m \in inode_bitmap \ {n} : Blocks(n) \cap Blocks(m) = {}
    /\ \A c \in Copies(n) : \A j, k \in Index :
         Addrs(c)[j] = Addrs(c)[k] /\ j # k => Addrs(c)[j] = 0

Places == {p \in Dirs \X (3..MaxEntry) : p[2] <= Len(Entries(p[1]))}

\* Every directory begins with itself and its parent, names are distinct, and every inode in
\* use but the root is entered in one directory, under one name.
TreeSound ==
  /\ \A d \in Dirs :
       /\ Entries(d)[1] = Entry(".", d) /\ Entries(d)[2].inode_id \in Dirs
       /\ \A i, j \in DOMAIN Entries(d) : Entries(d)[i].name = Entries(d)[j].name => i = j
  /\ \A p \in Places : Entries(p[1])[p[2]].inode_id \in inode_bitmap
  /\ \A n \in inode_bitmap \ {Root} :
       Quantify(Places, LAMBDA p : Entries(p[1])[p[2]].inode_id = n) = 1

\* What a check of the file system would verify between any two operations, as long as no
\* operation has done what fs.c gets wrong; and the state is well typed.
FsConsistent == ~broken => TypeOK /\ BlocksExclusive /\ TreeSound

\* A block of a file reads as it was last written, through a file that stays open or one
\* that is opened later, provided that the file was never open twice at the same time: then
\* the last close decides whose blocks remain.
WritesKept ==
  ~broken => \A n \in inode_bitmap \ shared, k \in Index :
    written[n][k] # Unwritten =>
      LET c == IF Opened(n) = {} THEN inode[n] ELSE CHOOSE o \in Opened(n) : TRUE
      IN  c.addrs[k] # 0 /\ content[c.addrs[k]] = written[n][k]
=============================================================================
