-------------------------------- MODULE Abi --------------------------------
(***************************************************************************)
(* The numbers two parts of the program have to agree on: the system call  *)
(* numbers of include/sys/syscall.h, used by the wrappers of               *)
(* kernel/syscall/syscall.c on one side and by init_syscall (init/main.c)  *)
(* on the other; and the layout of a saved context, written down in        *)
(* arch/mips/include/regs.h for the assembler and in include/os/sched.h    *)
(* for the compiler.                                                       *)
(***************************************************************************)
EXTENDS Integers, Sequences

NUM_SYSCALLS == 64

SYSCALL ==
  [SPAWN |-> 0, EXIT |-> 1, SLEEP |-> 2, KILL |-> 3, WAITPID |-> 4, PS |-> 5,
   GETPID |-> 6, YIELD |-> 7, WRITE |-> 20, READ |-> 21, CURSOR |-> 22,
   REFLUSH |-> 23, SERIAL_READ |-> 24, SERIAL_WRITE |-> 25,
   READ_SHELL_BUFF |-> 26, SCREEN_CLEAR |-> 27, MUTEX_LOCK_INIT |-> 30,
   MUTEX_LOCK_ACQUIRE |-> 31, MUTEX_LOCK_RELEASE |-> 32, CONDITION_INIT |-> 33,
   CONDITION_WAIT |-> 34, CONDITION_SIGNAL |-> 35, CONDITION_BROADCAST |-> 36,
   SEMAPHORE_INIT |-> 37, SEMAPHORE_UP |-> 38, SEMAPHORE_DOWN |-> 39,
   BARRIER_INIT |-> 40, BARRIER_WAIT |-> 41, BINSEM_OP |-> 42, BINSEM_GET |-> 43,
   MAILBOX_OPEN |-> 44, MAILBOX_CLOSE |-> 45, MAILBOX_SEND |-> 46,
   MAILBOX_RECV |-> 47, FS_MOUNT |-> 48, FS_UNMOUNT |-> 49, FS_INIT |-> 50,
   FS_MKDIR |-> 51, FS_RMDIR |-> 52, FS_LS |-> 53, FS_CD |-> 54, FS_TOUCH |-> 55,
   FS_SINK |-> 56, FS_OPEN |-> 57, FS_WRITE |-> 58, FS_CAT |-> 59, FS_READ |-> 60,
   FS_CLOSE |-> 61, FS_INFO |-> 62, FS_FIND_FILE |-> 63, FS_FIND_DIR |-> 64,
   FS_SEEK |-> 65, GET_TIMER |-> 70, WAIT_RECV_PACKAGE |-> 75, NET_RECV |-> 76,
   NET_SEND |-> 77, INIT_MAC |-> 78]

\* The number each library function passes to invoke_syscall.  (semaphore_*,
\* sys_read_shell_buff and the network functions are empty.)
Invokes ==
  [sys_spawn |-> SYSCALL.SPAWN, sys_exit |-> SYSCALL.EXIT, sys_sleep |-> SYSCALL.SLEEP,
   sys_kill |-> SYSCALL.KILL, sys_waitpid |-> SYSCALL.WAITPID,
   sys_getpid |-> SYSCALL.GETPID, sys_yield |-> SYSCALL.YIELD,
   sys_write |-> SYSCALL.WRITE, sys_reflush |-> SYSCALL.REFLUSH,
   sys_serial_read |-> SYSCALL.SERIAL_READ, sys_serial_write |-> SYSCALL.SERIAL_WRITE,
   sys_move_cursor |-> SYSCALL.CURSOR, mutex_lock_init |-> SYSCALL.MUTEX_LOCK_INIT,
   mutex_lock_acquire |-> SYSCALL.MUTEX_LOCK_ACQUIRE,
   mutex_lock_release |-> SYSCALL.MUTEX_LOCK_RELEASE,
   condition_init |-> SYSCALL.CONDITION_INIT, condition_wait |-> SYSCALL.CONDITION_WAIT,
   condition_signal |-> SYSCALL.CONDITION_SIGNAL,
   condition_broadcast |-> SYSCALL.CONDITION_BROADCAST,
   barrier_init |-> SYSCALL.BARRIER_INIT, barrier_wait |-> SYSCALL.BARRIER_WAIT,
   binsem_get |-> SYSCALL.BINSEM_GET, binsem_op |-> SYSCALL.BINSEM_OP,
   mbox_open |-> SYSCALL.MAILBOX_OPEN, mbox_close |-> SYSCALL.MAILBOX_CLOSE,
   mbox_send |-> SYSCALL.MAILBOX_SEND, mbox_recv |-> SYSCALL.MAILBOX_RECV,
   sys_process_show |-> SYSCALL.PS, sys_screen_clear |-> SYSCALL.SCREEN_CLEAR,
   sys_init_file_system |-> SYSCALL.FS_INIT, sys_mount_file_system |-> SYSCALL.FS_MOUNT,
   sys_unmount_file_system |-> SYSCALL.FS_UNMOUNT,
   sys_print_file_system_info |-> SYSCALL.FS_INFO, sys_sink |-> SYSCALL.FS_SINK,
   sys_rmdir |-> SYSCALL.FS_RMDIR, sys_find |-> SYSCALL.FS_FIND_FILE,
   sys_find_dir |-> SYSCALL.FS_FIND_DIR, sys_cd |-> SYSCALL.FS_CD,
   sys_mkdir |-> SYSCALL.FS_MKDIR, sys_touch |-> SYSCALL.FS_TOUCH,
   sys_ls |-> SYSCALL.FS_LS, sys_fopen |-> SYSCALL.FS_OPEN,
   sys_fwrite |-> SYSCALL.FS_WRITE, sys_fread |-> SYSCALL.FS_READ,
   sys_fseek |-> SYSCALL.FS_SEEK, sys_fclose |-> SYSCALL.FS_CLOSE,
   sys_cat |-> SYSCALL.FS_CAT, sys_get_timer |-> SYSCALL.GET_TIMER]

\* The function init_syscall stores under each number.
Installed ==
  [SPAWN |-> "do_spawn", EXIT |-> "do_exit", SLEEP |-> "do_sleep", KILL |-> "do_kill",
   WAITPID |-> "do_waitpid", PS |-> "do_process_show", GETPID |-> "do_getpid",
   YIELD |-> "do_scheduler", WRITE |-> "screen_write", CURSOR |-> "screen_move_cursor",
   REFLUSH |-> "screen_reflush", SCREEN_CLEAR |-> "screen_clear",
   SERIAL_READ |-> "port_read_ch", SERIAL_WRITE |-> "port_write_ch",
   MUTEX_LOCK_INIT |-> "do_mutex_lock_init",
   MUTEX_LOCK_ACQUIRE |-> "do_mutex_lock_acquire",
   MUTEX_LOCK_RELEASE |-> "do_mutex_lock_release",
   CONDITION_INIT |-> "do_condition_init", CONDITION_WAIT |-> "do_condition_wait",
   CONDITION_SIGNAL |-> "do_condition_signal",
   CONDITION_BROADCAST |-> "do_condition_broadcast",
   BARRIER_INIT |-> "do_barrier_init", BARRIER_WAIT |-> "do_barrier_wait",
   BINSEM_GET |-> "do_binsem_get", BINSEM_OP |-> "do_binsem_op",
   MAILBOX_OPEN |-> "do_mbox_open", MAILBOX_CLOSE |-> "do_mbox_close",
   MAILBOX_SEND |-> "do_mbox_send", MAILBOX_RECV |-> "do_mbox_recv",
   GET_TIMER |-> "get_timer", FS_INIT |-> "init_file_system",
   FS_MOUNT |-> "mount_file_system", FS_UNMOUNT |-> "unmount_file_system",
   FS_INFO |-> "print_file_system_info", FS_SINK |-> "block_sink",
   FS_RMDIR |-> "do_rmdir", FS_FIND_FILE |-> "do_find", FS_FIND_DIR |-> "do_find_dir",
   FS_CD |-> "do_cd", FS_MKDIR |-> "do_mkdir", FS_TOUCH |-> "do_touch",
   FS_LS |-> "do_ls", FS_OPEN |-> "open", FS_WRITE |-> "write", FS_READ |-> "read",
   FS_CLOSE |-> "close", FS_SEEK |-> "seek", FS_CAT |-> "cat"]

\* syscall[fn] after init_syscall, for the numbers something was stored under.
Numbers == {SYSCALL[k] : k \in DOMAIN Installed}
syscall == [fn \in Numbers |-> Installed[CHOOSE k \in DOMAIN Installed : SYSCALL[k] = fn]]
-----------------------------------------------------------------------------
\* OFFSET_REGi and the offsets after the registers, in bytes.
OFFSET_REG(i) == 8 * i
OFFSET ==
  [STATUS |-> 256, CAUSE |-> 264, HI |-> 272, LO |-> 280, BADVADDR |-> 288,
   EPC |-> 296, PC |-> 304, SIZE |-> 312]

\* regs_context_t: the register array and then one word each.
regs_context == <<"STATUS", "CAUSE", "HI", "LO", "BADVADDR", "EPC", "PC">>
sizeof_reg == 8
=============================================================================
