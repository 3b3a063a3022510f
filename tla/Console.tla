------------------------------ MODULE Console ------------------------------
(***************************************************************************)
(* The screen: drivers/screen.c, with the cursor that do_scheduler saves   *)
(* and restores for every process (save_cursor and restore_cursor of       *)
(* kernel/sched/sched.c).                                                  *)
(*                                                                         *)
(* Processes write into new_screen by system calls.  The timer interrupt,  *)
(* or a process that asks for it, sends what differs from old_screen to    *)
(* the terminal on the serial line.  Characters also reach the terminal    *)
(* behind its back: printk, and the system call SERIAL_WRITE.  All of it   *)
(* runs in the kernel with interrupts off, so every call is one step.      *)
(***************************************************************************)
EXTENDS Integers, Sequences

CONSTANTS SCREEN_WIDTH, SCREEN_HEIGHT,
          Proc,     \* slots of pcb_list
          Text,     \* the strings processes write
          Bypassed  \* bound: the cells of the terminal that are changed behind old_screen

ASSUME ScreenAssumption ==
  /\ SCREEN_WIDTH \in Nat \ {0} /\ SCREEN_HEIGHT \in Nat \ {0}
  /\ 0 \notin Proc
  /\ Bypassed \subseteq 0..(SCREEN_HEIGHT * SCREEN_WIDTH - 1)
  /\ Text \subseteq Seq({"a", "LF", "BS", "CR"})

VARIABLES
  screen,           \* [x, y, new, old]: screen_cursor_x, _y, new_screen, old_screen
  terminal,         \* what the other end of the serial line shows
  stray,            \* ghost: cells changed behind old_screen and not sent since
  current_running,  \* a process, or Boot
  alive,            \* the processes
  cursor,           \* pcb_t.cursor_x, cursor_y
  mine              \* ghost: where each process believes its cursor is

screenVars == <<screen, terminal, stray, current_running, alive, cursor, mine>>

Boot   == 0
Cell   == 0..(SCREEN_HEIGHT * SCREEN_WIDTH - 1)
Blank  == " "
NUL    == "NUL"
Origin == <<0, 0>>
InScreen(c) == c[1] \in 0..(SCREEN_WIDTH - 1) /\ c[2] \in 0..(SCREEN_HEIGHT - 1)
CursorOf(s) == <<s.x, s.y>>
-----------------------------------------------------------------------------
(***************************************************************************)
(* The operations on the screen.                                           *)
(***************************************************************************)
Line(c) == c \div SCREEN_WIDTH

\* One line up, the last line becomes empty, and all is to be sent again.
screen_scroll(s, line1, line2) ==
  [s EXCEPT !.old = [c \in Cell |-> IF Line(c) \in line1..line2 THEN NUL ELSE @[c]],
            !.new = [c \in Cell |-> IF Line(c) \notin line1..line2 THEN @[c]
                                    ELSE IF Line(c) = line2 THEN Blank
                                    ELSE @[c + SCREEN_WIDTH]]]

NewLine(s)   == [s EXCEPT !.x = 0, !.y = @ + 1]
Backspace(s) == IF s.x > 0
                THEN [s EXCEPT !.x = @ - 1, !.new[s.y * SCREEN_WIDTH + s.x - 1] = Blank]
                ELSE s
Put(s, ch) == [s EXCEPT !.x = @ + 1, !.new[s.y * SCREEN_WIDTH + s.x] = ch]

\* At the end of a line the cursor goes to the next one; below the last line only the
\* lower half of the screen is scrolled.
Wrap(s) ==
  LET u == [s EXCEPT !.x = IF @ < 0 THEN 0 ELSE @, !.y = IF @ < 0 THEN 0 ELSE @]
      t == IF u.x >= SCREEN_WIDTH THEN NewLine(u) ELSE u
  IN  IF t.y >= SCREEN_HEIGHT
      THEN [screen_scroll(t, SCREEN_HEIGHT \div 2 + 1, SCREEN_HEIGHT - 1)
              EXCEPT !.x = 0, !.y = SCREEN_HEIGHT - 1]
      ELSE t

screen_write_ch(s, ch) ==
  Wrap(CASE ch \in {"LF", "CR"} -> NewLine(s)
         [] ch = "BS"           -> Backspace(s)
         [] OTHER               -> Put(s, ch))

\* The text is written character by character: after[n] is the screen after n of them.
screen_write(s, text) ==
  LET after[n \in 0..Len(text)] ==
        IF n = 0 THEN s ELSE screen_write_ch(after[n - 1], text[n])
  IN  after[Len(text)]

\* Every cell is taken for sent.
Sent_fault(s) == terminal

\* The cells that differ are sent.
Differing(s) == {c \in Cell : s.new[c] # s.old[c]}
Sent(s) == [c \in Cell |-> IF c \in Differing(s) THEN s.new[c] ELSE terminal[c]]

\* screen_reflush(s): the terminal is sent s, and the screen becomes Flushed(s).
Reflush(s) == terminal' = Sent(s) /\ stray' = stray \ Differing(s)
Flushed(s) == [s EXCEPT !.old = s.new]

Cleared == [x |-> 0, y |-> 0, new |-> [c \in Cell |-> Blank], old |-> [c \in Cell |-> NUL]]

\* init_screen, start_tasks and what main prints after each of them, which old_screen does
\* not know of.
ScreenInit ==
  /\ screen = Flushed(Cleared)
  /\ stray \in SUBSET Bypassed
  /\ terminal = [c \in Cell |-> IF c \in stray THEN "a" ELSE Blank]
  /\ current_running = Boot
  /\ \E p \in Proc : alive = {p}
  /\ cursor = [p \in Proc \cup {Boot} |-> Origin]
  /\ mine = [p \in Proc |-> Origin]
-----------------------------------------------------------------------------
Running == current_running # Boot

\* ghost: the running process has moved its cursor.
Moved == mine' = [mine EXCEPT ![current_running] = CursorOf(screen')]

Write(text) ==
  /\ Running
  /\ screen' = screen_write(screen, text)
  /\ Moved
  /\ UNCHANGED <<terminal, stray, current_running, alive, cursor>>

screen_move_cursor(x, y) ==
  /\ Running
  /\ screen' = [screen EXCEPT !.x = x, !.y = y]
  /\ Moved
  /\ UNCHANGED <<terminal, stray, current_running, alive, cursor>>

\* Both arguments are ignored.
screen_clear(line1, line2) ==
  /\ Running
  /\ Reflush(Cleared)
  /\ screen' = Flushed(Cleared)
  /\ Moved
  /\ UNCHANGED <<current_running, alive, cursor>>

screen_reflush ==
  /\ Running
  /\ Reflush(screen)
  /\ screen' = Flushed(screen)
  /\ UNCHANGED <<current_running, alive, cursor, mine>>

\* The system call SERIAL_WRITE, or printk of a process: the terminal shows the character
\* where its own cursor is, or moves everything one line up.
port_write_ch ==
  /\ Running
  /\ \/ \E c \in Cell : terminal' = [terminal EXCEPT ![c] = "a"]
     \/ terminal' = [c \in Cell |-> IF Line(c) = SCREEN_HEIGHT - 1 THEN Blank
                                    ELSE terminal[c + SCREEN_WIDTH]]
  /\ stray' = stray \cup {c \in Cell : terminal'[c] # terminal[c]}
  /\ stray' \subseteq Bypassed
  /\ UNCHANGED <<screen, current_running, alive, cursor, mine>>

\* The cursor is loaded from the process that is switched away.
do_scheduler_fault(s) ==
  /\ cursor' = [cursor EXCEPT ![current_running] = CursorOf(s)]
  /\ \E p \in alive' : current_running' = p
  /\ screen' = [s EXCEPT !.x = cursor'[current_running][1], !.y = cursor'[current_running][2]]

\* save_cursor, scheduler, restore_cursor.
do_scheduler(s) ==
  /\ cursor' = [cursor EXCEPT ![current_running] = CursorOf(s)]
  /\ \E p \in alive' : current_running' = p
  /\ screen' = [s EXCEPT !.x = cursor'[current_running'][1], !.y = cursor'[current_running'][2]]

\* do_scheduler called at boot, by sys_yield or by a call that blocks.
Switch ==
  /\ UNCHANGED <<alive, terminal, stray, mine>>
  /\ do_scheduler(screen)

irq_timer ==
  /\ Running
  /\ UNCHANGED <<alive, mine>>
  /\ Reflush(screen)
  /\ do_scheduler(Flushed(screen))

\* set_pcb puts the cursor of a new process into the corner.
do_spawn(p) ==
  /\ Running /\ p \notin alive
  /\ alive' = alive \cup {p}
  /\ cursor' = [cursor EXCEPT ![p] = Origin]
  /\ mine' = [mine EXCEPT ![p] = Origin]
  /\ UNCHANGED <<screen, terminal, stray, current_running>>

do_exit ==
  /\ Running /\ alive # {current_running}
  /\ alive' = alive \ {current_running}
  /\ do_scheduler(screen)
  /\ UNCHANGED <<terminal, stray, mine>>

do_kill(p) ==
  /\ Running /\ p \in alive \ {current_running}
  /\ alive' = alive \ {p}
  /\ UNCHANGED <<screen, terminal, stray, current_running, cursor, mine>>

ScreenNext ==
  \/ \E text \in Text : Write(text)
  \/ \E x \in 0..(SCREEN_WIDTH - 1), y \in 0..(SCREEN_HEIGHT - 1) : screen_move_cursor(x, y)
  \/ screen_clear(0, 0)
  \/ screen_reflush
  \/ port_write_ch
  \/ Switch
  \/ irq_timer
  \/ \E p \in Proc : do_spawn(p) \/ do_kill(p)
  \/ do_exit

ScreenSpec == ScreenInit /\ [][ScreenNext]_screenVars
-----------------------------------------------------------------------------
Char == {"a", Blank, NUL}

ScreenTypeOK ==
  /\ screen.new \in [Cell -> Char \ {NUL}] /\ screen.old \in [Cell -> Char]
  /\ terminal \in [Cell -> Char \ {NUL}] /\ stray \subseteq Cell
  /\ alive \subseteq Proc /\ current_running \in alive \cup {Boot}

\* No cursor, the screen's or one saved in a process, is outside of the screen:
\* screen_write_ch indexes new_screen with it unchecked.
CursorInScreen ==
  /\ InScreen(CursorOf(screen))
  /\ \A p \in Proc \cup {Boot} : InScreen(cursor[p])

\* Every process writes where it left its cursor, whatever others did between two of its
\* system calls (entry.S, do_scheduler: save_cursor and restore_cursor), and always inside
\* of the screen; and the state is well typed.
CursorPerProcess ==
  /\ ScreenTypeOK
  /\ CursorInScreen
  /\ \A p \in alive : mine[p] = IF p = current_running THEN CursorOf(screen) ELSE cursor[p]

\* old_screen is what the terminal shows, except for cells to be sent in any case, and for
\* those that were written behind its back and have not been sent since: else screen_reflush,
\* which sends differences only, would leave a wrong character for good.
TerminalFollows == \A c \in Cell \ stray : screen.old[c] \in {NUL, terminal[c]}
=============================================================================
