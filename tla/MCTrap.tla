------------------------------- MODULE MCTrap -------------------------------
(***************************************************************************)
(* Trap for TLC, with the agreement of the tables of Abi.                  *)
(***************************************************************************)
EXTENDS Trap

\* Every library function passes a number that init_syscall has stored a function
\* under, no two functions under the same number, and no two library functions use
\* the same one.
ASSUME SyscallsInstalled ==
  /\ \A c \in DOMAIN Invokes : Invokes[c] \in Numbers
  /\ \A j, k \in DOMAIN Installed : SYSCALL[j] = SYSCALL[k] => j = k
  /\ \A c, e \in DOMAIN Invokes : Invokes[c] = Invokes[e] => c = e

\* Three of the functions are stored beyond the end of the table.
ASSUME SyscallsBeyondTable ==
  {syscall[fn] : fn \in {fn \in Numbers : fn >= NUM_SYSCALLS}} =
    {"do_find_dir", "seek", "get_timer"}

\* entry.S and the C code find every register of a saved context in the same place:
\* a field of regs_context_t starts after the 32 registers and the fields before it.
ASSUME LayoutsAgree ==
  /\ \A i \in 1..Len(regs_context) :
       OFFSET[regs_context[i]] = OFFSET_REG(32) + sizeof_reg * (i - 1)
  /\ OFFSET.SIZE = OFFSET_REG(32) + sizeof_reg * Len(regs_context)
=============================================================================
