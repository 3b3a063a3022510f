------------------------------- MODULE Timer -------------------------------
(***************************************************************************)
(* The clock of kernel/sched/time.c.  update_time_elapsed, called by the   *)
(* timer interrupt, reads the free-running 32-bit CP0 count register and   *)
(* adds what it has advanced since the last call to the 64-bit counter     *)
(* time_elapsed, from which get_timer and every sleep is computed.         *)
(***************************************************************************)
EXTENDS Integers

CONSTANTS CountMod,     \* 2^32: the count register wraps around at this value
          MaxInterval,  \* most cycles between two timer interrupts
          MaxCycles     \* bound on the cycles of a behaviour

ASSUME TimerAssumption ==
  /\ CountMod \in Nat /\ MaxInterval \in Nat /\ MaxCycles \in Nat
  /\ MaxInterval < CountMod

VARIABLES cp0_count,        \* the hardware counter
          last_cp0_count,   \* its value at the last update
          time_elapsed,     \* uint64_t, never wraps in practice
          cycles,           \* ghost: the cycles since power on
          wraps             \* ghost: how often cp0_count wrapped around

clock == <<cp0_count, last_cp0_count, time_elapsed, cycles, wraps>>

ClockInit ==
  /\ cp0_count = 0
  /\ last_cp0_count = 0
  /\ time_elapsed = 0
  /\ cycles = 0
  /\ wraps = 0

\* The counter advances by d cycles until the next timer interrupt.
Tick(d) ==
  /\ cycles + d <= MaxCycles
  /\ cp0_count = last_cp0_count
  /\ cycles' = cycles + d
  /\ IF cp0_count + d < CountMod
     THEN cp0_count' = cp0_count + d /\ wraps' = wraps
     ELSE cp0_count' = cp0_count + d - CountMod /\ wraps' = wraps + 1
  /\ UNCHANGED <<last_cp0_count, time_elapsed>>

\* update_time_elapsed with a programming error, not part of the model: the
\* wrap-around is ignored.
update_time_elapsed_fault ==
  /\ cp0_count # last_cp0_count
  /\ time_elapsed' = time_elapsed + cp0_count - last_cp0_count
  /\ last_cp0_count' = cp0_count
  /\ UNCHANGED <<cp0_count, cycles, wraps>>

\* The timer interrupt calls it once.  In the second case 0xffffffff, one less than
\* CountMod, is added.
update_time_elapsed ==
  /\ cp0_count # last_cp0_count
  /\ time_elapsed' =
       IF cp0_count > last_cp0_count
       THEN time_elapsed + cp0_count - last_cp0_count
       ELSE time_elapsed + (CountMod - 1) + cp0_count - last_cp0_count
  /\ last_cp0_count' = cp0_count
  /\ UNCHANGED <<cp0_count, cycles, wraps>>

ClockNext == (\E d \in 1..MaxInterval : Tick(d)) \/ update_time_elapsed

ClockSpec == ClockInit /\ [][ClockNext]_clock
-----------------------------------------------------------------------------
ClockTypeOK ==
  /\ cp0_count \in 0..(CountMod - 1)
  /\ last_cp0_count \in 0..(CountMod - 1)
  /\ time_elapsed \in Nat
  /\ cycles \in Nat
  /\ wraps \in Nat

Updated == cp0_count = last_cp0_count

\* The clock loses exactly one cycle every time the count register wraps around,
\* and nothing else: a wrap between two updates is never missed.
TimeLag == Updated => time_elapsed + wraps = cycles

\* Time does not run backwards, and an update never adds more than the longest
\* interval between two interrupts.
TimeMonotonic ==
  [][time_elapsed' >= time_elapsed /\ time_elapsed' - time_elapsed <= MaxInterval]_clock
=============================================================================
