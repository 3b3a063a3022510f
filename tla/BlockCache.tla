----------------------------- MODULE BlockCache -----------------------------
(***************************************************************************)
(* The buffer cache of the file system (fs/fs.c) and the way the file      *)
(* system operations use it.                                               *)
(*                                                                         *)
(* An operation is the sequence of its cache calls and of its accesses to  *)
(* the blocks it holds: block_get returns a pointer to a buffer's page,    *)
(* the operation reads and writes through the pointer, and block_commit    *)
(* gives it back.  Operations run in the kernel, one at a time.  Which     *)
(* blocks they use is decided by directories and inodes, which are not     *)
(* part of this module: any block of the right kind will do.               *)
(*                                                                         *)
(* A block's content is its own number and a version, so that content      *)
(* which ends up in the wrong block, or is lost, shows.  The page of a     *)
(* buffer is freed and allocated again when the buffer is replaced, and    *)
(* alloc_page returns the page freed last: a pointer keeps naming the same *)
(* buffer, whatever block it holds by then.                                *)
(*                                                                         *)
(* cnt_dirty_buff is left out: nothing reads it.                           *)
(*                                                                         *)
(* A definition named X_fault is not part of the model: it is X with a     *)
(* plausible programming error, kept to show that a property detects it.   *)
(***************************************************************************)
EXTENDS Integers, Sequences

CONSTANTS NumBuff,        \* DISK_BUFF_SIZE
          InodeBlock,     \* blocks of the inode array
          DataBlock,      \* data blocks: directories, files, address blocks
          InodeBitmap, BlockBitmap,   \* one block each
          Ops             \* the operations that are called

Buff  == 0..(NumBuff - 1)
Block == InodeBlock \cup DataBlock \cup {InodeBitmap, BlockBitmap}
None  == "none"                        \* disk_buff[i] is NULL
NoBuff == -1                           \* the operation has no pointer to the block

AllOps == {"init", "ls", "mkdir", "touch", "find", "cd", "open", "rmdir",
           "close", "read", "write", "indirect", "stale", "double"}

\* The areas of a partition do not overlap.
ASSUME CacheAssumption ==
  /\ NumBuff \in Nat \ {0} /\ Ops \subseteq AllOps /\ None \notin Block
  /\ InodeBlock \cap DataBlock = {} /\ InodeBitmap # BlockBitmap
  /\ {InodeBitmap, BlockBitmap} \cap (InodeBlock \cup DataBlock) = {}

VARIABLES
  block_id,     \* disk_buff_block_id, None where disk_buff is NULL
  page,         \* what the buffers contain
  using,        \* disk_buff_using
  dirty,        \* disk_buff_dirty
  id_next,      \* id_next_new_buff
  disk,         \* what the disk contains
  fs_mounted,   \* fs_mounted
  todo,         \* the rest of the operation that runs
  held,         \* the pointers it has: the buffer where it got a block
  latest        \* history: the version last written to each block

vars == <<block_id, page, using, dirty, id_next, disk, fs_mounted, todo, held, latest>>

Content(b, v) == [of |-> b, version |-> v]
Blank == Content(None, 0)

Init ==
  /\ block_id = [i \in Buff |-> None]
  /\ page = [i \in Buff |-> Blank]
  /\ using = [i \in Buff |-> FALSE] /\ dirty = [i \in Buff |-> FALSE]
  /\ id_next = 0
  /\ disk = [b \in Block |-> Content(b, 0)]
  /\ fs_mounted = FALSE
  /\ todo = <<>>
  /\ held = [b \in Block |-> NoBuff]
  /\ latest = [b \in Block |-> 0]
-----------------------------------------------------------------------------
(***************************************************************************)
(* The steps of an operation: block_get with do_read 1, block_get with     *)
(* do_read 0 and filling the block, reading, writing, block_commit with    *)
(* do_write 0 and 1.                                                       *)
(***************************************************************************)
Get(b)    == [do |-> "get", b |-> b]
Fill(b)   == [do |-> "fill", b |-> b]
Use(b)    == [do |-> "use", b |-> b]
Put(b)    == [do |-> "put", b |-> b]
Commit(b) == [do |-> "commit", b |-> b]
Dirty(b)  == [do |-> "dirty", b |-> b]

alloc_inode      == <<Get(InodeBitmap), Put(InodeBitmap), Dirty(InodeBitmap)>>
free_inode       == <<Get(InodeBitmap), Put(InodeBitmap), Dirty(InodeBitmap)>>
alloc_data_block == <<Get(BlockBitmap), Put(BlockBitmap), Dirty(BlockBitmap)>>
free_data_block  == <<Get(BlockBitmap), Put(BlockBitmap), Dirty(BlockBitmap)>>

init_file_system(i, d) ==
  <<Fill(InodeBitmap), Dirty(InodeBitmap), Fill(BlockBitmap), Dirty(BlockBitmap),
    Fill(i), Dirty(i), Fill(d), Dirty(d)>>

\* Find a name in the directory d with the inode in i.
Lookup(i, d) == <<Get(i), Use(i), Get(d), Use(d)>>

\* The last name of a path, or a name that do_mkdir and do_touch find to exist: the
\* blocks are not committed.  The inode may turn out not to be a directory.  Earlier
\* names of a path have the steps of do_ls.
do_find(i, d) == {Lookup(i, d), <<Get(i), Use(i)>>}

do_ls(i, d) == Lookup(i, d) \o <<Commit(i), Commit(d)>>

\* The new inode is in block ni, the new directory in nd.
do_mkdir(i, d, ni, nd) ==
  Lookup(i, d) \o alloc_inode
  \o <<Put(d), Dirty(d), Commit(i), Get(ni), Put(ni)>> \o alloc_data_block
  \o <<Put(ni), Dirty(ni), Use(ni), Fill(nd), Dirty(nd)>>

do_touch(i, d, ni) ==
  Lookup(i, d) \o alloc_inode
  \o <<Put(d), Dirty(d), Get(ni), Put(ni), Dirty(ni), Commit(i)>>

\* The inode that was found is read.
do_find_dir(i, d, ni) == {f \o <<Get(ni), Use(ni), Commit(ni)>> : f \in do_find(i, d)}
do_cd(i, d, ni)       == do_find_dir(i, d, ni)
open(i, d, ni)        == {Lookup(i, d) \o <<Get(ni), Use(ni), Commit(ni)>>}

\* The directory d with the inode in i is removed from its parent.
do_rmdir(i, d, pi, pd) ==
  Lookup(i, d) \o Lookup(pi, pd)
  \o <<Put(pd), Commit(i), Commit(d), Commit(pi), Dirty(pd)>>
  \o free_inode \o <<Use(i)>> \o free_data_block

close(i) == <<Get(i), Put(i), Dirty(i)>>

\* find_data_block may need a new block, even to read.
read(d)     == <<Get(d), Use(d), Commit(d)>>
read_new(d) == alloc_data_block \o read(d)

\* A whole block, or a part of one.
write(d)     == {<<Get(d), Put(d), Dirty(d)>>, <<Fill(d), Dirty(d)>>}
write_new(d) == {alloc_data_block \o w : w \in write(d)}

\* find_data_block with an address block a: an old or a new block, an old or a new
\* address in it.
find_data_block_indirect(a) ==
  {<<Get(a), Use(a), Commit(a)>>,
   <<Get(a), Use(a)>> \o alloc_data_block \o <<Put(a), Dirty(a)>>,
   alloc_data_block \o <<Fill(a)>> \o alloc_data_block \o <<Put(a), Dirty(a)>>}

\* Only the first bytes of a new address block are cleared: what is left in its page may
\* be taken for an address, and the block is committed as not written.
find_data_block_stale(a) == alloc_data_block \o <<Fill(a), Commit(a)>>

\* The same with an address block e of data blocks below the address block a.
find_data_block_double(a, e) ==
  LET below(old, commit) ==
        {old \o <<commit, Commit(e)>>,
         old \o alloc_data_block \o <<Put(e), commit, Dirty(e)>>}
  IN  {first \o second :
         first  \in {<<Get(a), Use(a)>>, alloc_data_block \o <<Fill(a)>>},
         second \in below(<<Get(e), Use(e)>>, Commit(a))
                   \cup below(alloc_data_block \o <<Put(a), Fill(e)>>, Dirty(a))}

Scripts(op, i, j, d, e) ==
  CASE op = "init"     -> {init_file_system(i, d)}
    [] op = "ls"       -> {do_ls(i, d)}
    [] op = "mkdir"    -> {do_mkdir(i, d, j, e)}
    [] op = "touch"    -> {do_touch(i, d, j)}
    [] op = "find"     -> do_find(i, d)
    [] op = "cd"       -> do_cd(i, d, j)
    [] op = "open"     -> open(i, d, j)
    [] op = "rmdir"    -> {do_rmdir(i, d, j, e)}
    [] op = "close"    -> {close(i)}
    [] op = "read"     -> {read(d), read_new(d)}
    [] op = "write"    -> write(d) \cup write_new(d)
    [] op = "indirect" -> find_data_block_indirect(d)
    [] op = "stale"    -> {find_data_block_stale(d)}
    [] op = "double"   -> find_data_block_double(d, e)

\* Only open checks that a file system is mounted: no program uses one that is not.
Begin(op) ==
  /\ todo = <<>>
  /\ op = "init" <=> ~fs_mounted
  /\ \E i, j \in InodeBlock, d, e \in DataBlock :
       /\ op \in {"mkdir", "rmdir", "double"} => d # e
       /\ todo' \in Scripts(op, i, j, d, e)
  /\ fs_mounted' = TRUE
  /\ held' = [b \in Block |-> NoBuff]
  /\ UNCHANGED <<block_id, page, using, dirty, id_next, disk, latest>>
-----------------------------------------------------------------------------
(***************************************************************************)
(* The cache.                                                              *)
(***************************************************************************)
Loaded(b) == {i \in Buff : block_id[i] = b}

\* The buffer a block is loaded into: the first from id_next that is not in use.  (The
\* fault takes the buffer at id_next in any case.)
Free(k) == ~using[(id_next + k) % NumBuff]
Victim_fault == id_next
Victim  == (id_next + CHOOSE k \in Buff : Free(k) /\ \A l \in Buff : l < k => ~Free(l))
           % NumBuff

\* The buffer is replaced without writing it back.
WriteBack_fault(i) == disk

\* The disk after buffer i is written back, if it has to be.
WriteBack(i) == IF block_id[i] # None /\ dirty[i]
                THEN [disk EXCEPT ![block_id[i]] = page[i]] ELSE disk

Hit(b, i) ==
  /\ using' = [using EXCEPT ![i] = TRUE]
  /\ held' = [held EXCEPT ![b] = i]
  /\ UNCHANGED <<block_id, dirty, id_next, disk>>

\* The new buffer is not marked as in use, and id_next moves on by one only.
Miss(b, i, do_read) ==
  /\ disk' = WriteBack(i)
  /\ block_id' = [block_id EXCEPT ![i] = b]
  /\ dirty' = [dirty EXCEPT ![i] = ~do_read]
  /\ id_next' = (id_next + 1) % NumBuff
  /\ held' = [held EXCEPT ![b] = i]
  /\ UNCHANGED using

\* With every buffer in use block_get does not return.
block_get(b, do_read) ==
  \/ \E i \in Loaded(b) : Hit(b, i)
  \/ Loaded(b) = {} /\ (\E i \in Buff : ~using[i]) /\ Miss(b, Victim, do_read)

\* b is written through a pointer to buffer i: the content of b ends up there.
NewVersion(b) == 1 - latest[b]
Write(b, i) ==
  /\ latest' = [latest EXCEPT ![b] = NewVersion(b)]
  /\ page' = [page EXCEPT ![i] = Content(b, NewVersion(b))]

\* The changes of a block are forgotten.
block_commit_fault(i, do_write) ==
  /\ using' = [using EXCEPT ![i] = FALSE]
  /\ UNCHANGED <<block_id, page, dirty, id_next, disk, held, latest>>

\* The buffer is found by its page, and no longer in use.
block_commit(i, do_write) ==
  /\ dirty' = IF do_write THEN [dirty EXCEPT ![i] = TRUE] ELSE dirty
  /\ using' = [using EXCEPT ![i] = FALSE]
  /\ UNCHANGED <<block_id, page, id_next, disk, held, latest>>

Step ==
  /\ todo # <<>>
  /\ todo' = Tail(todo)
  /\ UNCHANGED fs_mounted
  /\ LET s == Head(todo)
         b == s.b
     IN  \/ /\ s.do = "get"
            /\ block_get(b, TRUE)
            /\ page' = IF Loaded(b) = {} THEN [page EXCEPT ![Victim] = disk'[b]] ELSE page
            /\ UNCHANGED latest
         \/ /\ s.do = "fill"
            /\ block_get(b, FALSE)
            /\ Write(b, held'[b])
         \/ /\ s.do = "use"
            /\ UNCHANGED <<block_id, page, using, dirty, id_next, disk, held, latest>>
         \/ /\ s.do = "put"
            /\ Write(b, held[b])
            /\ UNCHANGED <<block_id, using, dirty, id_next, disk, held>>
         \/ s.do = "commit" /\ block_commit(held[b], FALSE)
         \/ s.do = "dirty"  /\ block_commit(held[b], TRUE)

mount_file_system ==
  /\ todo = <<>> /\ ~fs_mounted
  /\ fs_mounted' = TRUE
  /\ UNCHANGED <<block_id, page, using, dirty, id_next, disk, todo, held, latest>>

\* Every buffer that is dirty is written.
block_sink ==
  /\ disk' = [b \in Block |-> IF \E i \in Loaded(b) : dirty[i]
                              THEN page[CHOOSE i \in Loaded(b) : dirty[i]] ELSE disk[b]]
  /\ dirty' = [i \in Buff |-> FALSE]

unmount_file_system ==
  /\ todo = <<>> /\ fs_mounted
  /\ block_sink
  /\ fs_mounted' = FALSE
  /\ UNCHANGED <<block_id, page, using, id_next, todo, held, latest>>

Next == (\E op \in Ops : Begin(op)) \/ Step \/ mount_file_system \/ unmount_file_system

Spec == Init /\ [][Next]_vars
-----------------------------------------------------------------------------
Contents == [of : Block \cup {None}, version : 0..1]

TypeOK ==
  /\ block_id \in [Buff -> Block \cup {None}]
  /\ page \in [Buff -> Contents] /\ disk \in [Block -> Contents]
  /\ using \in [Buff -> BOOLEAN] /\ dirty \in [Buff -> BOOLEAN]
  /\ id_next \in Buff
  /\ fs_mounted \in BOOLEAN
  /\ todo \in Seq([do : {"get", "fill", "use", "put", "commit", "dirty"}, b : Block])
  /\ held \in [Block -> Buff \cup {NoBuff}]
  /\ latest \in [Block -> 0..1]

\* What the cache and the disk together hold of a block.
Current(b) == IF Loaded(b) = {} THEN disk[b] ELSE page[CHOOSE i \in Loaded(b) : TRUE]

\* A block reads as it was last written, wherever it is: replacing a buffer loses no
\* change, no block is in two buffers, and no block gets the content of another; and
\* the state is well typed.
CacheCoherent ==
  /\ TypeOK
  /\ \A b \in Block : /\ \A i, j \in Loaded(b) : i = j
                      /\ Current(b) = Content(b, latest[b])

\* What was written before unmounting is on the disk.
UnmountDurable == ~fs_mounted => \A b \in Block : disk[b] = Content(b, latest[b])

\* When an operation reads or writes a block through a pointer, or commits it, the
\* buffer still holds that block.
HeldBlockLoaded ==
  todo # <<>> /\ Head(todo).do \notin {"get", "fill"}
    => LET b == Head(todo).b IN held[b] \in Loaded(b)
=============================================================================
