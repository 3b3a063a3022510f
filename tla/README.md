# A verification project for the UCAS OS lab kernel

This directory holds TLA+ models of the teaching kernel in this repository (MIPS,
one processor), the TLC configurations that check them, and proofs checked by TLAPS.
`PROJECT.json` maps every definition to the lines it models and lists runs, mutants,
findings, hazards and theorems.

```
tlc -workers 2 -config Sched.cfg MCSched           # one run
tlapm SchedProofs.tla                              # one module of proofs
```

## The system

The machine has one processor. An exception sets EXL and the kernel runs with
interrupts off until `eret`, so a system call or an interrupt handler is atomic up to
the point where `do_scheduler` switches processes. Concurrency therefore comes from
three sources: user code is preempted anywhere by the timer, a kernel routine blocks
in the middle (`do_block`, `do_sleep`, `do_waitpid`, `do_condition_wait`), and a
process is killed wherever it is. The network driver adds a fourth: it runs in user mode,
beside another process and beside the device.

| Component | State | Operations | Interacts with |
|---|---|---|---|
| Scheduler and processes (`kernel/sched/sched.c`, `kernel/irq/irq.c`, `init/main.c`) | `pcb_list`, `current_running`, `next_pid`, kernel stacks, ready, sleep and waitpid queue | spawn, exit, kill, sleep, yield, waitpid, timer interrupt | queues, locks and address spaces, through `free_proc` |
| Mutex locks (`kernel/locking/lock.c`) | `status`, `block_queue`, `locks_got` of each process | init, acquire, release | blocks and unblocks processes; `free_proc` releases the locks of the dead |
| Process queues (`kernel/sched/queue.c`) | doubly linked lists through the pcbs | init, push, dequeue, remove | walked by `check_sleeping` and `free_proc` while members move |
| Clock (`kernel/sched/time.c`) | `time_elapsed`, `last_cp0_count` | `update_time_elapsed` | read for every sleep |
| Exceptions, context switches, system calls (`entry.S`, `syscall.S`, `irq.c`, `syscall.c`) | frames on the kernel stacks, `kernel_sp`, `user_sp`, registers, the system call table | save, dispatch, switch, return, first start of a process | everything passes through them |
| Condition variables (`ipc/cond.c`) and mailboxes (`libs/mailbox.c`) | name table, ring buffers, a mutex and two conditions each | open, close, send, receive | locks, blocking, death of users |
| Barriers (`ipc/barrier.c`) | `goal`, `now`, a queue | init, wait | used by preemptible tasks that share the initialization |
| Virtual memory (`mm/memory.c`, `entry.S`) | page allocators, directories, tables, TLB, ASID | refill, invalid exception, map, free | spawn, death, context switch |
| Buffer cache and file system (`fs/fs.c`) | buffers with block number, in-use and dirty flags; bitmaps, inodes, directories on disk | `block_get`, `block_commit`, `block_sink`; mount, mkdir, touch, open, read, write, close, ... | SD card; pages of the kernel allocator |
| Screen (`drivers/screen.c`) | `new_screen`, `old_screen`, cursor; a cursor in each pcb | write, scroll, clear, move, refresh | timer interrupt, context switch, terminal |
| Network driver (`drivers/mac.c`) | two rings of descriptors, registers of the device | `do_net_send`, `do_net_recv` | DMA engine; the other process using the driver |
| Formatted output, boot loader, shell | | | not modelled, see the end |

What is hard here: a process dies at the worst moment (waiting, just handed a lock,
at a barrier, with a mailbox open); a list changes while it is walked; a wakeup
passes by; resources that are freed in different places must stay in step (slots,
stacks, pids, frames, TLB entries); counters wrap; a cached block is replaced while
somebody still points to it; a context is restored from a stack that others have used
meanwhile; two processes write back old values of a shared register; an inode has several
copies. `PROJECT.json` lists these at their lines.

## Modules

| Module | Models | Used by |
|---|---|---|
| `QueueOps` | queues as sequences: remove one member, keep some | all modules with queues of processes |
| `PcbQueue` | `queue.c` pointer by pointer, and the walks that move members | refines `FifoQueues` |
| `FifoQueues` | what the queues promise: FIFO sequences with removal | |
| `Sched` | processes, scheduling, mutex locks | `MCSched` instantiates it and compares the queue operators with a reference |
| `Timer` | the clock and the count register | `Trap` extends it |
| `Abi` | system call numbers, wrappers, table; offsets of a saved context | `Trap` dispatches through it |
| `Trap` | exceptions, system calls, context switches, starting a process | `MCTrap` instantiates it and evaluates the agreement of the tables |
| `Mailbox` | mailboxes, with the mutex and the conditions in them | refines `ByteStreams`; `MCMailbox` instantiates it |
| `ByteStreams` | what a mailbox promises: a bounded stream of bytes | |
| `Barrier` | barriers and the tasks of `test_barrier.c` | |
| `VM` | allocators, page tables, TLB, address spaces | |
| `BlockCache` | buffer cache under the cache calls of each file operation | |
| `Fs` | directories, inodes, bitmaps, open files | on the disk that `BlockCache` provides; `MCFs` adds the symmetry |
| `Console` | the screen and the cursors | `MCConsole` instantiates it |
| `Net` | the network driver and its device | |
| `QueueOpsProofs` | lemmas about the queue operators | the proofs below |
| `SchedProofs`, `WaitProofs`, `VMProofs`, `TrapProofs`, `CacheProofs`, `FsProofs`, `DriverProofs` | proofs about `Sched`; `PcbQueue`, `Mailbox` and `Barrier`; `VM`; `Trap` and `Timer`; `BlockCache`; `Fs`; `Net` and `Console` | |

Definitions have the names of the functions they model. Where one module of proofs covers
several components, their specifications have names of their own (`PcbSpec`, `BarrierSpec`,
`ScreenSpec`, and so on; `KillTask` is `do_kill` in `Barrier`). A definition `X_fault` is `X`
with a plausible programming error; it is not part of the specification and serves to
show that a property is sensitive to it.

**Sched.** One variable per field of `pcb_t`, indexed by slot; queues are sequences of
slots (`PcbQueue` justifies that). Each system call is an action; the routines that only
move processes take and return the record `[queue, status, in_queue]`, so that a call is
the composition the code is (`do_sleep` = `Push`, `check_sleeping`, `Dispatch`). The
loop in `free_proc` that releases locks is unrolled (`FreeLock`, `FreeDone`, variable
`freeing`), because `do_mutex_lock_release` changes the very records it walks over when a process
exits; nothing else runs meanwhile. Undefined behaviour (an empty `ready_queue`, no free
stack, `kill 0`) sets `panic`, after which nothing happens. `holders` and `tainted` are
ghosts: who is between acquire and release, and whether `free_proc` has released a lock
for a process that did not hold it.

**Mailbox.** A mailbox is a record with the fields of `mailbox_t`; the queues of its lock
and its conditions hold the waiting processes. A call runs to its end or to `do_block`;
`Woken` is the rest of `do_condition_wait` and the loop around it. `sent` is a history of
the bytes not received yet; the refinement compares it with what the ring buffer gives.

**Barrier.** `TestInit`, `SetInit` and `do_barrier_init` are separate steps: the tasks
are preemptible between them. `raced` records that the barrier was used before it was
initialized (again).

**VM.** Frames are numbered in allocation order. `TLBexception_handler` is the assembly
refill handler, which copies page table entries even if they are invalid;
`TLB_Invalid_handler` then allocates. `tlbwr` chooses any entry.

`TLB_Invalid_handler` finds the entry with `tlbp`, since the processor raises the invalid
exception only where one matches; the other branch, `tlbwr`, is the one refill takes.

**BlockCache.** A file operation is a sequence of `block_get`, reads and writes through
the pointer, and `block_commit`; which blocks it touches is arbitrary among the blocks of
the right kind. Operations are called while a file system is mounted, `init_file_system` while
none is: only `open` and the mount functions check that. Contents are a block number and a version bit. A pointer names a buffer,
because the page that is freed when a buffer is replaced is the page allocated next.

**Trap.** A context is abstracted to `v0`, `a0`, "the rest" (`s`) and `ra`; a kernel stack is
an array of frames. One action per routine of `entry.S` and `irq.c`; `mode` is where the
kernel is, and returning from `do_scheduler` goes to the `ra` found in the restored frame.
Which process is picked is left open (`Sched` decides it). `user` and `asked` are ghosts: the
context a program believes in and the call it waits for. `NestedException` is a TLB exception
on a pointer of the program while the kernel runs with EXL set: `exception_handler_entry`
then saves its frame over the user's. The model stops once that returns (`nested`); `ContextIntact`
excludes what follows, which is a limitation of the code and not a result of the model.

**Console.** The screen buffers are functions from cells to characters, `terminal` is what
the serial line has been sent. Characters also get there behind `old_screen`: what `main` prints
after `init_screen`, and the system call `SERIAL_WRITE` and `printk` of processes (`port_write_ch`:
a character anywhere, or one that scrolls the terminal). `stray` is a ghost, the cells
that were changed that way and not sent since; `Bypassed` bounds it. `do_scheduler` saves and restores the cursor; `mine` is a
ghost, the place where each process left it. Programs move the cursor inside of the screen.

**Net.** `do_net_send` and `do_net_recv` do the same things on their own ring and share one
set of actions with the direction as parameter. Every register access is a step, since both
run in user mode; a read-modify-write is two. The device (external) works on a ring in order
while it owns the descriptors, and waits for a poll demand when it does not. Sizes of
buffers are not part of the model (see Findings).

**Fs.** The disk as the file system sees it: each call is one step on inodes, bitmaps,
directory blocks and file blocks. Arguments are what the shell passes: `do_mkdir` and `do_touch`
get `cur_dir_inode`, whatever has become of it; `do_cd`, `open` and `do_rmdir` get what a path leads
to (`Found`), and `do_rmdir` also -1. Inodes behind the first block hold anything when the file
system is made (`OldInode`), since `init_file_system` clears only that block. What the code
gets wrong is done as the code does it and sets `broken`, after which nothing more is explored:

- `do_touch` in an inode with old addresses, left by what the disk held or by a directory;
- `do_mkdir` and `do_touch` in a current directory that was removed: the entry, and a file that
  has the block by now, are lost;
- a path that passes a removed directory whose block is in use again (`do_find_lost`);
- `do_rmdir` of the root, of a directory with entries, of an entry that is not the last
  (`fs.c:719`), of an inode that is not the first of its block (`fs.c:729`); and of a file, a
  directory removed before or a name that does not exist (`Damage`), where data is taken for what
  it is not, or a variable is not initialized.

`FsConsistent` says that there is no other way to damage the file system. Climbing out of
a removed directory by `..` whose block is still free is not one of them (`Ghosts`, `Climbed`).
`shared` records files that were open twice at the same time: the last `close` then writes its
own copy of the inode.

## Runs

| Run | Shows | Bounds |
|---|---|---|
| `sched` | queues, stacks, pids, waiters consistent; the shell keeps the ready queue non-empty; nobody waits for a free lock; exclusion unless `tainted`; FIFO hand-over | all calls but sleep; 3 slots and the boot slot, 4 pids (so slots and stacks run out and are used again), one mutex, one entry of `locks_got` |
| `sched_liveness` | ready processes run, self-killed ones are freed, sleepers wake; queues consistent with sleepers | spawn, exit, kill, sleep; 3 slots, 3 pids, clock modulo 3, sleeps of 0 and 1, two interrupts per unit |
| `pcb_queue` | the linked lists implement `FifoQueues`; a walk moves exactly the selected members | 4 items, 2 queues: removal at head, middle, tail and of the only one |
| `mailbox` | no lost wakeup, no standoff of messages up to half the size, users counted, byte stream | 3 processes (symmetric), ring of 3 bytes, messages of 1 and 2 bytes, one death |
| `barrier` | nobody passes early, everybody passes | 3 tasks, 4 rounds, 2 deaths |
| `virtual_memory` | no memory shared, TLB coherent and unique, pages lost only when the free list is full | 3 processes, 2 alive, 2 tables of one page pair, 2 TLB entries, free list of 4 |
| `block_cache` | no change lost, no blocks mixed up, unmount writes everything | 3 buffers for 5 blocks, so that hits, misses and write-backs mix |
| `trap` | programs get their context back; the clock loses one cycle per wrap and nothing else; the tables agree | 2 processes, programs of 3 instructions, 6 library functions, count register modulo 4 |
| `console` | each process keeps its cursor; the terminal follows the screen, where nothing has bypassed it | 2 processes (symmetric), 2 x 3 cells, 4 texts with line feed, backspace and carriage return; one cell, in the line that is scrolled, changed behind `old_screen` at boot or later, any number of times |
| `net` | packets of a call are printed once and in order; descriptors handed over are used | rings of 3, 2 packets, 2 calls in each direction |
| `fs` | blocks have one owner, the tree is a tree; what was written is read | 4 inodes in blocks of 3, 4 data blocks, 2 addresses, 2 names, 2 values, 2 open files (symmetric); the fourth inode is empty or an old directory with addresses |
| `block_cache_all` | violation, see Findings | the same as `block_cache` with all operations |

The longest runs, `sched`, `console`, `mailbox`, `fs` and `block_cache`, take one or two minutes
each with 0.4 to 5 million states.
The bounds are chosen so that each kind of event happens more than once: a slot, stack,
frame, descriptor ring or mailbox is used again, a counter wraps, a queue has a head, a middle
and a tail, the screen scrolls. In `sched` one process is the shell, which takes no locks, so
that the mutex has one owner and one waiter at a time; the theorems about it hold for any
number.
The clock of `Sched` counts timer intervals modulo the range of `uint32_t`, so the wrap of
`sleep_until` is part of every run with sleeps. Deadlock is not checked where the bounds
(pids, rounds, kills, cycles, calls, blocks) end a behaviour, where processes may all wait, and
in `trap`, where an unknown exception halts the machine.
`block_cache`, `pcb_queue` and `console` check it: `block_get` never finds every buffer in
use, and a walk always ends. In `block_cache_all` the system can stop: operations that return
early leave buffers in use (`fs.c:374`), and once all are, `block_get` loops forever.

**Clients.** Programs make any system call at any time, with these restrictions, which are
how the programs in `test/` use the kernel: the shell only spawns and kills and never
blocks; a process releases only a mutex it holds and initializes none in use; it uses a
mailbox between opening and closing it; it moves the cursor inside of the screen; it opens files, not
directories, and uses the file system while it is mounted. `ShellKeepsReady`, the lock
properties, `OpenMailboxIsCounted`, `CursorPerProcess`, the properties of `Fs` and `UnmountDurable`
depend on them.

**Fairness.** `Sched`: the timer interrupts a running process, and the kernel finishes what
it has started. No process is assumed to make a system call. The hardware timer, which
`irq_timer` rearms each time, justifies it. `Barrier`: each task that can run does, which
is `ReadyRuns` of `Sched`. `Net`: both processes are scheduled (`ReadyRuns` again), packets
keep arriving, and the device does what its registers say; without packets `do_net_recv`
waits, as it should.

**What the properties leave out, on purpose.** `SleepersWake` excludes the last value of
the 32-bit clock: the comparison in `check_sleeping` is strict, and such a sleeper never
wakes. `WaitersHaveTarget` excludes pid 0, which every free slot has. `NoEarlyPass` and
`Passes` exclude initialization races of the test program, and `Passes` deaths, after
which the others wait forever. `TlbCoherent` is shown for fewer processes than address
space identifiers. `block_cache` runs the operations that hold at most one block across a
miss of another, and no stale address block (`find_data_block_stale`). In `Timer` the
register always advances between two updates; the code would take an equal reading for
a whole period. `ContextIntact` and `SavedContextIntact` exclude executions after an exception
in the kernel. `Progress` excludes a direction that the other direction's call has switched
off: `dma_control_init` stops both (`mac.c:387`), and a register written back with an old value
loses a bit (`mac.c:445`, `447`); `do_net_recv` may then wait forever. `FsConsistent` and
`WritesKept` exclude a broken file system and files opened twice, as described above.
`TerminalFollows` excludes stray cells: such a character stays until the screen is cleared or
the cell changes. No run has a crash: nothing in the code recovers from one, and what is in
the cache only (`fs.c:145`) is lost.

## Findings

`HeldBlockLoaded` (`block_cache_all`): a buffer loaded by a miss is not marked as in use
(`fs.c:96`-`124`), so a later miss of the same operation can replace it; for example
`do_mkdir`, whose parent inode block is a hit at `id_next_new_buff` and whose directory
block and inode bitmap are misses. This does not depend on the number of buffers.

More defects were met while modelling and have no run of their own:

- A hand-over records the mutex with the releaser (`lock.c:56`). When the releaser exits,
  `free_proc` releases the mutex again, under its new owner, and a third process can acquire
  it: mutual exclusion holds only until then (`tainted`). The same misplaced record leaves
  a mutex locked for good when a process dies that got it by hand-over.
- `do_net_recv` ignores the size it is given (`mac.c:425` "size means the total size of recv
  buffer") and lays the buffers of the descriptors out 128 bytes apart (`mac.c:436`).
  `test_mac.c:154` passes 32 bytes for each packet, and its buffer has 1024 bytes: from the
  ninth packet on, the device stores behind its end. `PrintedInOrder` is about the order only.
- `do_mbox_open` takes the first unused box it meets (`mailbox.c:38`) although the name may
  be open further along: a name can have two mailboxes.
- `init_syscall` stores `do_find_dir`, `seek` and `get_timer` behind the end of `syscall`, which
  has `NUM_SYSCALLS` = 64 entries (`SyscallsBeyondTable` in `MCTrap`).

## Proofs

All theorems hold for every value of the constants that satisfies the named assumptions of the
modules: any number of slots, locks, queues, processes, mailboxes, tasks, frames, buffers, TLB
entries and cells, any set of system calls, messages and texts. Assumptions that say something
about the kernel: processes and tasks are finite in number, 0 is no process, addresses are not
`NULL`, the counter is updated at least once per wrap (`TimerAssumption`), no more processes are
started than there are address space identifiers (`VMAssumption`), a call of the network
driver uses at most one ring of descriptors (`NetAssumption`), and the areas of a partition do
not overlap (`CacheAssumption`). Each inductive invariant was checked by TLC on the run's
instance before it was proved.

- `QueueOpsProofs`: `Keep` and `Without` return queues without repetitions with exactly
  the members wanted, in their order; appending, concatenating and taking the tail preserve
  that.
- `SchedProofs`: type correctness, `QueuesConsistent`, `OneRunner`, `StackPerProcess`,
  `PidsUnique`, `WaitersHaveTarget` and `ShellKeepsReady`.
  The inductive invariant `SchedInv` conjoins them with what connects them. None is
  inductive alone: that `Unlink` leaves no dangling member needs `in_queue` to be exact for
  the victim; that a free slot has a free stack needs the stronger fact that slot and stack
  are always allocated together (slot `p` uses stack `p`, since both are the lowest free
  one), except while `free_proc` takes a process apart, whose stack is already free; that the
  ready queue is not empty needs the shell to be running or in it. The state that kernel
  routines pass along is covered by one predicate on run states (`RunOK`), with one lemma per
  routine (`PushOK`, `WakeOK`, `UnlinkOK`, `DispatchOK`, ...); then one lemma per action.
  For the locks, `NoWaiterOnFreeLock`, `ExclusionUntilTainted` and `NoBarging` follow from
  `SchedInv` and `LockInv`. Most actions do not touch locks (`LockFrame`, `FrameStep`);
  acquire, release, init and the release loop of `free_proc` have a lemma each.
- `WaitProofs`: of the queues, `Representation`, `ScanMovesSelected`, and that `PcbQueue` implements
  `FifoQueues`. What the routines do is proved of a memory and the lists it represents
  (`Represents`), one lemma per routine; `queue_dequeue` removes the head. `PcbInv` adds where a
  walk is: with `k - 1` members passed, the queue that is walked has those of them that stay
  and all that are ahead, and the other one has got those that move.
  Of the mailboxes, `NoLostWakeup`, `NoStandoff`, `OpenMailboxIsCounted` and that
  `Mailbox` implements `ByteStreams`. `MailboxInv` says that between two steps the mutex of a
  mailbox is free, that its ring has the bytes of `sent` from `start` to `end` (the indices
  modulo `MaxLength`), that everybody in the queue of a condition is in a call that must
  still wait, and that `user_cnt` is between the number of users and that number plus the
  dead. Of the barrier, `NoEarlyPass`: without a race there is a number of complete rounds, and
  `now` counts the tasks that have arrived once more, the dead among them included (`Round`).
- `VMProofs`: `MemoryExclusive`, `TlbCoherent`, `TlbUnique` and `LostOnlyWhenFull`. The three
  allocators (page directories, page tables, frames) are used alike; `Owned` says what holds
  of one, that nothing below `next` is both free and in use and that `next` counts what was ever in
  use, and its preservation is proved once for allocating and once for freeing. `TlbInv` is about
  the entries of all live processes, since a switch makes any of them current.
- `TrapProofs`: `ContextIntact` and `SavedContextIntact`, by the place where the kernel is: `TrapInv`
  says, for each of them, in which frames of the running process its context is, and for
  all other processes that they were switched out after a call or a timer interrupt or have never
  run. `TimeLag` and `TimeMonotonic` of the clock, with the invariant that, between a tick and
  its update, the difference the update is going to add is exactly what is missing and at most
  the longest interval; and that `Trap` implements the specification of the clock
  (`TrapClock`), so that both hold in `Trap`.
- `CacheProofs`: `CacheCoherent`, `UnmountDurable` and `HeldBlockLoaded`, for two buffers or more and
  operations out of `Bracketed`, the ones of the run `block_cache`; for the others the third is
  false (Findings). An operation is a path through stages (`Stage`, `Move`): the blocks it holds, those
  of them it will commit as written, and whether it may get another one. `StageOK` is what a stage
  means for the buffers: those of held blocks are in use, or the only one was loaded last,
  just before `id_next_new_buff`, so that the next miss takes another. `CacheOK` says where the
  last version of a block is. Each step is proved once, and each operation is shown to be a path.
- `FsProofs`: `FsConsistent`, type correctness included, and `WritesKept`. Both have `~broken` as a
  condition, and so has the inductive invariant `FsInv`: while the file system is not damaged, `Sound`
  holds. What has to be added to `FsConsistent`: `..` names the directory that holds the entry, because
  `do_rmdir` finds the entry to remove by it, and an empty directory is no other one's parent
  (`TreeOK`); a directory has a block, and only files were ever written (`BareOK`); a block is held by one
  index of one inode, counting the inode on the disk and every copy in a file descriptor, since a block
  allocated by `write` is in the copy alone until `close`, and of a directory only the first
  address, since `do_mkdir` leaves the others as they were (`OwnedOK` of `Holdings`); an open file is
  in use and, unless shared, open once (`OpenFiles`); each copy leads to what was written
  (`Kept`); and the current directory is one, or was removed together with what its `..` leads to,
  up to a directory, so that no path from there finds an inode that is not in use except of such a
  directory (`CwdOK`, `Gone`). What the tree loses and gains is proved of functions and sets, apart from the
  actions (`TreeAdd`, `TreeAddDir`, `TreeRemove`); then there is one lemma per operation.
  `FsUndamaged` says which operations may damage anything: as long as no directory is removed and
  only inodes of the block that `init_file_system` clears are in use, `broken` stays false and all of
  it holds unconditionally.
- `DriverProofs`: `PrintedInOrder` of `Net`: what the device has and has not returned is a run of
  descriptors that begins where it stands, at each statement of `do_net_recv` (`RecvAt`).
  `CursorPerProcess` and `TerminalFollows` of `Console` (`ScreenInv`), for any cells that are changed
  behind `old_screen`, at boot or later: a character may take the
  cursor one place too far, and `Wrap` brings it back. That a text of any length does is an
  induction over its length; since the induction theorems of the library cannot be applied
  here, it is done with the least counterexample (`Least`, `Induction`).

Only model-checked: the liveness properties (`ReadyRuns`, `ExitedReaped`, `SleepersWake`, `Passes`,
`Progress`), which are outside of the prover's reach; and the comparison of the queue operators
with `SelectSeq` in `MCSched` and the agreement of the tables in `MCTrap`, which are
evaluations.

## Not modelled

Of the file system: several partitions, byte offsets inside of a block, and `cat`. A path is the
inode it leads to. `Fs` has direct addresses only; address blocks are in `BlockCache`, which
checks the order of the accesses and not what the addresses are. A directory that is full: the
code writes behind its block.
Of the network driver: the interrupt handlers, whose bodies are empty (`TODO`); `do_init_mac`,
which `main.c` does not call; functions that only print registers.
Spin locks (no process uses them), binary semaphores (a mutex behind a hash), counting
semaphores (empty functions) and `do_condition_signal` (no caller).
Formatted output (`printk.c` is a third-party printf without state) and string functions; the
boot loader, the image tool and the user programs. The SD card (a binary library) is a disk
that keeps what is written.

## Plan

Modelled so far, in this order: queues, scheduler and locks; clock; mailboxes; barriers; virtual
memory; buffer cache; exceptions and system calls; screen; network driver; file system. Proved:
every invariant and every action property that a run checks, and the refinements. For the buffer
cache that means the operations in `Bracketed`, and this set cannot be enlarged: with four buffers,
TLC finds one of the three invariants of the cache violated as soon as any one of the other
operations (`mkdir`, `touch`, `find`, `cd`, `open`, `rmdir`, `stale`, `double`) is added to it.

What could be added: a second partition, whose blocks the cache confuses with those of the first
(`fs.c:163`), and address blocks in `Fs`.
