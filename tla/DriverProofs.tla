---------------------------- MODULE DriverProofs ----------------------------
(***************************************************************************)
(* The drivers.  do_net_recv prints the packets of its own call in the     *)
(* order in which they came, for rings of every length and calls of every  *)
(* size, whatever do_net_send and the device do meanwhile (module Net).    *)
(* Every process keeps its own cursor, inside of the screen, and the       *)
(* terminal follows, for screens of every size and any texts (Console).    *)
(***************************************************************************)
EXTENDS Net, Console, WellFoundedInduction, TLAPS

Pc == {"idle", "control", "force", "forced", "enable", "enabled", "base", "start",
       "started", "own", "poll", "wait"}

\* The control state of the processes.
ControlOK == /\ pc \in [Dir -> Pc] /\ data \in [Dir -> SUBSET Dir] /\ stored \in Nat
             /\ printed \in Seq(Packet)

\* What do_net_recv has given to the device and the device has not returned is a run
\* of descriptors that begins at the device's own one: the number of packets stored in
\* this call tells where.  given is how many descriptors the call has handed over.
Given(given) == /\ stored <= given
                /\ \A k \in Desc : own["rx"][k] <=> stored <= k /\ k < given
                /\ cur["rx"] = IF stored = NUM_DMA_DESC THEN 0 ELSE stored
                /\ \A k \in Desc : k < stored => buffer[k] = <<call["rx"], k + 1>>

\* At each statement of do_net_recv.
RecvAt ==
  LET at == pc["rx"]
  IN  /\ at \notin {"own", "poll", "wait"} => i["rx"] = 0 /\ \A k \in Desc : ~own["rx"][k]
      /\ at \notin {"idle", "wait"} => printed = <<>>
      /\ at \notin {"idle", "own", "poll", "wait"} => stored = 0
      /\ at \in {"start", "started"} => cur["rx"] = 0
      /\ at = "own" => Given(i["rx"])
      /\ at \in {"poll", "wait"} => Given(Num)
      /\ at = "wait" => Len(printed) = i["rx"]

\* A loop variable or a ring index steps to the next value or back to zero.
LEMMA RingWrap == ASSUME NEW n \in Nat \ {0}, NEW x \in 0..(n - 1)
              PROVE  (x + 1) % n = IF x + 1 = n THEN 0 ELSE x + 1
<1>1. CASE x + 1 = n
  BY <1>1
<1>2. CASE x + 1 # n
  BY <1>2
<1> QED
  BY <1>1, <1>2

LEMMA PacketPair == \A a, b \in Nat : <<a, b>> \in Packet
  BY DEF Packet

NetInv == PrintedInOrder /\ ControlOK /\ RecvAt

LEMMA InitNetInv == Init => NetInv
  BY NetAssumption DEF Init, NetInv, PrintedInOrder, TypeOK, ControlOK, RecvAt,
     Given, Pc, Packet, None, Dir, Desc


USE DEF device
\* The part of the state that do_net_recv and the receive ring work on.
rx == <<pc["rx"], i["rx"], call["rx"], own["rx"], cur["rx"], stored, buffer, printed>>

LEMMA Elsewhere == NetInv /\ rx' = rx /\ TypeOK' /\ ControlOK' => NetInv'
  BY DEF rx, NetInv, PrintedInOrder, RecvAt, Given

LEMMA Typing == TypeOK /\ ControlOK /\ [Next]_vars => TypeOK' /\ ControlOK'
<1> SUFFICES ASSUME TypeOK, ControlOK, [Next]_vars
             PROVE  TypeOK' /\ ControlOK'
  OBVIOUS
<1> USE NetAssumption DEF TypeOK, ControlOK
<1>1. ASSUME NEW d \in Dir, desc_init(d)
      PROVE  TypeOK' /\ ControlOK'
  <2>1. own' \in [Dir -> [Desc -> BOOLEAN]]
    BY <1>1 DEF desc_init
  <2>3. printed' \in Seq(Packet) /\ stored' \in Nat
    <3>1. \/ printed' = <<>> /\ stored' = 0
          \/ printed' = printed /\ stored' = stored
      BY <1>1 DEF desc_init
    <3>2. CASE printed' = <<>> /\ stored' = 0
      BY <3>2
    <3>3. CASE printed' = printed /\ stored' = stored
      BY <3>3
    <3> QED
      BY <3>1, <3>2, <3>3
  <2>2. call' \in [Dir -> 0..MaxCalls]
    BY <1>1 DEF desc_init
  <2> QED
    BY <1>1, <2>1, <2>2, <2>3 DEF desc_init, Goto, Pc
<1>2. ASSUME NEW d \in Dir, dma_control_init(d)
      PROVE  TypeOK' /\ ControlOK'
  BY <1>2 DEF dma_control_init, Goto, Pc
<1>3. ASSUME NEW d \in Dir, mii_dul_force(d)
      PROVE  TypeOK' /\ ControlOK'
  BY <1>3 DEF mii_dul_force, Read, WriteConfig, Goto, Pc
<1>4. ASSUME NEW d \in Dir, enable(d)
      PROVE  TypeOK' /\ ControlOK'
  BY <1>4 DEF enable, Read, WriteConfig, Goto, Pc
<1>5. ASSUME NEW d \in Dir, base(d)
      PROVE  TypeOK' /\ ControlOK'
  BY <1>5 DEF base, Goto, Pc, Desc
<1>6. ASSUME NEW d \in Dir, start(d)
      PROVE  TypeOK' /\ ControlOK'
  BY <1>6 DEF start, Read, Goto, Pc
<1>7. ASSUME NEW d \in Dir, give(d)
      PROVE  TypeOK' /\ ControlOK'
  <2>1. i' \in [Dir -> 0..(Num - 1)]
    BY <1>7, RingWrap DEF give, Loop
  <2>2. i[d] \in Desc
    BY DEF Desc
  <2>3. own' \in [Dir -> [Desc -> BOOLEAN]]
    BY <1>7, <2>2 DEF give
  <2> QED
    BY <1>7, <2>1, <2>3 DEF give, Loop, Pc
<1>8. ASSUME NEW d \in Dir, poll(d)
      PROVE  TypeOK' /\ ControlOK'
  BY <1>8, RingWrap DEF poll, Loop, Pc
<1>9. CASE print
  <2>1. i' \in [Dir -> 0..(Num - 1)]
    BY <1>9, RingWrap DEF print, Loop, Dir
  <2>2. i["rx"] \in Desc
    BY DEF Desc, Dir
  <2>3. printed' \in Seq(Packet)
    BY <1>9, <2>2 DEF print
  <2> QED
    BY <1>9, <2>1, <2>3 DEF print, Loop, Pc
<1>10. ASSUME NEW d \in Dir, Transfer(d)
      PROVE  TypeOK' /\ ControlOK'
  <2>1. cur' \in [Dir -> Desc]
    BY <1>10, RingWrap DEF Transfer, Desc
  <2>2. own' \in [Dir -> [Desc -> BOOLEAN]]
    BY <1>10 DEF Transfer
  <2>3. stored' \in Nat /\ buffer' \in [Desc -> Packet]
    <3>1. CASE d = "rx"
      <4>1. call[d] \in Nat /\ stored + 1 \in Nat
        OBVIOUS
      <4>2. <<call[d], stored + 1>> \in Packet
        BY <4>1, PacketPair
      <4>3. stored' = stored + 1 /\ buffer' = [buffer EXCEPT ![cur[d]] = <<call[d], stored + 1>>]
        BY <1>10, <3>1 DEF Transfer
      <4> QED
        BY <4>1, <4>2, <4>3
    <3>2. CASE d # "rx"
      BY <1>10, <3>2 DEF Transfer
    <3> QED
      BY <3>1, <3>2
  <2> QED
    BY <1>10, <2>1, <2>2, <2>3 DEF Transfer
<1>11. ASSUME NEW d \in Dir, Suspend(d)
      PROVE  TypeOK' /\ ControlOK'
  BY <1>11 DEF Suspend
<1>12. CASE UNCHANGED vars
  BY <1>12 DEF vars
<1> QED
  BY <1>1, <1>2, <1>3, <1>4, <1>5, <1>6, <1>7, <1>8, <1>9, <1>10, <1>11, <1>12
  DEF Next, do_net_send, do_net_recv, do_net, Dir

LEMMA NextNetInv == NetInv /\ [Next]_vars => NetInv'
<1> SUFFICES ASSUME NetInv, [Next]_vars
             PROVE  NetInv'
  OBVIOUS
<1>t. TypeOK /\ ControlOK /\ TypeOK' /\ ControlOK'
  BY Typing DEF NetInv, PrintedInOrder
<1>r. "rx" \in Dir
  BY DEF Dir
<1> USE NetAssumption, <1>t, <1>r DEF TypeOK, ControlOK
<1>1. CASE desc_init("rx")
  <2>1. stored' = 0 /\ printed' = <<>> /\ pc'["rx"] = "control" /\ i' = i /\ buffer' = buffer
    BY <1>1 DEF desc_init, Goto
  <2>2. \A k \in Desc : ~own'["rx"][k]
    BY <1>1 DEF desc_init
  <2>3. i["rx"] = 0
    BY <1>1 DEF NetInv, RecvAt, desc_init, Goto
  <2> QED
    BY <2>1, <2>2, <2>3 DEF NetInv, PrintedInOrder, RecvAt
<1>2. CASE dma_control_init("rx")
  BY <1>2 DEF dma_control_init, Goto, NetInv, PrintedInOrder, RecvAt
<1>3. CASE mii_dul_force("rx") \/ enable("rx")
  BY <1>3 DEF mii_dul_force, enable, Read, WriteConfig, Goto, NetInv, PrintedInOrder,
     RecvAt
<1>5. CASE base("rx")
  BY <1>5 DEF base, Goto, NetInv, PrintedInOrder, RecvAt
<1>6. CASE start("rx")
  <2>1. /\ UNCHANGED <<i, call, own, cur, stored, buffer, printed>>
        /\ \/ pc["rx"] = "start" /\ pc'["rx"] = "started"
           \/ pc["rx"] = "started" /\ pc'["rx"] = "own"
    BY <1>6 DEF start, Read, Goto
  <2>2. RecvAt'
    <3>1. /\ i["rx"] = 0 /\ printed = <<>> /\ stored = 0 /\ cur["rx"] = 0
          /\ \A k \in Desc : ~own["rx"][k]
      BY <2>1 DEF NetInv, RecvAt
    <3>2. Given(i["rx"])
      BY <3>1 DEF Given, Desc
    <3> QED
      BY <2>1, <3>1, <3>2 DEF RecvAt, Given
  <2> QED
    BY <2>1, <2>2 DEF NetInv, PrintedInOrder
<1>7. CASE give("rx")
  <2>1. RecvAt'
    <3>1. /\ pc["rx"] = "own" /\ UNCHANGED <<cur, stored, buffer, printed, call>>
          /\ i["rx"] \in Desc
          /\ own'["rx"] = [own["rx"] EXCEPT ![i["rx"]] = TRUE]
      BY <1>7 DEF give, Loop, Desc
    <3>2. Given(i["rx"]) /\ printed = <<>>
      BY <3>1 DEF NetInv, RecvAt
    <3>3. stored <= i["rx"] + 1
          /\ \A k \in Desc : own'["rx"][k] <=> stored <= k /\ k < i["rx"] + 1
      BY <3>1, <3>2 DEF Given, Desc
    <3>5. CASE i["rx"] + 1 = Num
      BY <1>7, <3>1, <3>2, <3>3, <3>5 DEF give, Loop, RecvAt, Given
    <3>6. CASE i["rx"] + 1 # Num
      BY <1>7, RingWrap, <3>1, <3>2, <3>3, <3>6 DEF give, Loop, RecvAt, Given
    <3> QED
      BY <3>5, <3>6
  <2> QED
    BY <1>7, <2>1 DEF give, NetInv, PrintedInOrder
<1>8. CASE poll("rx")
  BY <1>8, RingWrap DEF poll, Loop, NetInv, PrintedInOrder, RecvAt, Given
<1>9. CASE print
  <2>1. /\ pc["rx"] = "wait" /\ Len(printed) = i["rx"] /\ Given(Num) /\ i["rx"] \in Desc
        /\ UNCHANGED <<cur, stored, buffer, call, own>>
        /\ printed' = Append(printed, buffer[i["rx"]])
    BY <1>9 DEF print, Loop, NetInv, RecvAt, Desc
  <2>2. buffer[i["rx"]] = <<call["rx"], i["rx"] + 1>>
    BY <1>9, <2>1 DEF print, Given, Desc
  <2>3. \A k \in DOMAIN printed' : printed'[k] = <<call'["rx"], k>>
    BY <2>1, <2>2 DEF NetInv, PrintedInOrder
  <2>4. RecvAt'
    <3>1. Given(Num)'
      BY <2>1 DEF Given
    <3>2. Len(printed') = i["rx"] + 1
      BY <2>1
    <3>3. CASE i["rx"] + 1 = Num
      <4>1. \A k \in Desc : ~own["rx"][k]
        BY <1>9, <2>1, <3>3 DEF print, Given, Desc
      <4>2. pc'["rx"] = "idle" /\ i'["rx"] = 0
        BY <1>9, <3>3, RingWrap DEF print, Loop
      <4> QED
        BY <2>1, <4>1, <4>2 DEF RecvAt
    <3>4. CASE i["rx"] + 1 # Num
      <4>1. pc'["rx"] = "wait" /\ i'["rx"] = i["rx"] + 1
        BY <1>9, <3>4, RingWrap DEF print, Loop
      <4> QED
        BY <3>1, <3>2, <4>1 DEF RecvAt
    <3> QED
      BY <3>3, <3>4
  <2> QED
    BY <2>1, <2>3, <2>4 DEF NetInv, PrintedInOrder
<1>10. CASE Transfer("rx")
  <2> DEFINE g == IF pc["rx"] = "own" THEN i["rx"] ELSE Num
  <2>1. /\ own["rx"][cur["rx"]] /\ cur["rx"] \in Desc
        /\ own'["rx"] = [own["rx"] EXCEPT ![cur["rx"]] = FALSE]
        /\ cur'["rx"] = IF cur["rx"] + 1 = NUM_DMA_DESC THEN 0 ELSE cur["rx"] + 1
        /\ stored' = stored + 1
        /\ buffer' = [buffer EXCEPT ![cur["rx"]] = <<call["rx"], stored + 1>>]
        /\ UNCHANGED <<pc, i, call, printed>>
    BY <1>10, RingWrap DEF Transfer, Desc
  <2>2. pc["rx"] \in {"own", "poll", "wait"} /\ Given(g) /\ g \in 0..Num
    BY <2>1 DEF NetInv, RecvAt
  <2> HIDE DEF g
  <2>3. cur["rx"] = stored /\ stored < g
    BY <2>1, <2>2 DEF Given, Desc
  <2>4. \A k \in Desc : own'["rx"][k] <=> stored + 1 <= k /\ k < g
    BY <2>1, <2>2, <2>3 DEF Given, Desc
  <2>5. \A k \in Desc : k < stored + 1 => buffer'[k] = <<call["rx"], k + 1>>
    BY <2>1, <2>2, <2>3 DEF Given, Desc
  <2>6. cur'["rx"] = IF stored' = NUM_DMA_DESC THEN 0 ELSE stored'
    BY <2>1, <2>3
  <2>7. Given(g)'
    BY <2>1, <2>2, <2>3, <2>4, <2>5, <2>6 DEF Given, g
  <2>8. RecvAt'
    BY <2>1, <2>2, <2>7 DEF g, RecvAt, NetInv
  <2> QED
    BY <2>1, <2>8 DEF NetInv, PrintedInOrder
<1>11. ASSUME NEW d \in Dir, Suspend(d)
       PROVE  NetInv'
  BY <1>11, Elsewhere DEF Suspend, rx
<1>12. ASSUME do_net("tx") \/ Transfer("tx")
       PROVE  NetInv'
  <2>1. rx' = rx
    BY <1>12 DEF do_net, desc_init, dma_control_init, mii_dul_force, enable, base, start, give,
       poll, Read, WriteConfig, Goto, Loop, Transfer, rx, Dir
  <2> QED
    BY <2>1, Elsewhere
<1>13. CASE UNCHANGED vars
  BY <1>13, Elsewhere DEF vars, rx
<1> QED
  BY <1>1, <1>2, <1>3, <1>5, <1>6, <1>7, <1>8, <1>9, <1>10, <1>11, <1>12, <1>13
  DEF Next, do_net_send, do_net_recv, do_net, Dir

\* do_net_recv prints the packets of this call in the order in which they came, none
\* twice, none of an earlier call and none before it is complete: for every length of the
\* ring, number of packets and number of calls, and every interleaving with do_net_send and
\* the device.
THEOREM NetOrder == Spec => []PrintedInOrder
<1>1. NetInv => PrintedInOrder
  BY DEF NetInv
<1> QED
  BY <1>1, InitNetInv, NextNetInv, PTL DEF Spec
-----------------------------------------------------------------------------
(***************************************************************************)
(* The screen.                                                             *)
(***************************************************************************)

\* Induction, for the loop of screen_write: a set of natural numbers that is not empty
\* has a least one.
LEMMA Least ==
  ASSUME NEW T \in SUBSET Nat, T # {}
  PROVE  \E m \in T : \A k \in T : m <= k
<1>1. PICK m \in T : \A k \in T : <<k, m>> \notin OpToRel(<, Nat)
  BY WFMin, NatLessThanWellFounded, Zenon
<1>2. \A k \in T : ~(k < m)
  BY <1>1, Zenon DEF OpToRel
<1> QED
  BY <1>2

LEMMA Induction ==
  ASSUME NEW P \in SUBSET Nat, 0 \in P, \A n \in P : n + 1 \in P
  PROVE  P = Nat
<1> SUFFICES ASSUME Nat \ P # {}
             PROVE  FALSE
  OBVIOUS
<1>1. PICK m \in Nat \ P : \A k \in Nat \ P : m <= k
  BY Least
<1>2. m # 0 /\ m - 1 \in Nat /\ ~(m <= m - 1) /\ (m - 1) + 1 = m
  OBVIOUS
<1>3. m - 1 \in P
  BY <1>1, <1>2
<1> QED
  BY <1>2, <1>3

Width  == 0..(SCREEN_WIDTH - 1)
Height == 0..(SCREEN_HEIGHT - 1)
Key    == {"a", "LF", "BS", "CR"}

\* The screens: the cursor is inside.
Screens == [x : Width, y : Height, new : [Cell -> Char \ {NUL}], old : [Cell -> Char]]

\* Those that may be sent by differences to a terminal that shows t, save for the cells w,
\* which were written behind old_screen.
Follows(t, w) == {s \in Screens : \A c \in Cell \ w : s.old[c] \in {NUL, t[c]}}

\* The same with the cursor one place too far, to the right or below.
Loose == [x : 0..SCREEN_WIDTH, y : 0..SCREEN_HEIGHT,
          new : [Cell -> Char \ {NUL}], old : [Cell -> Char]]

\* The cell below one that is not in the last line.
LEMMA CellBelow ==
  ASSUME NEW c \in Cell, Line(c) # SCREEN_HEIGHT - 1, Line(c) <= SCREEN_HEIGHT - 1
  PROVE  c + SCREEN_WIDTH \in Cell
<1>1. PICK w \in Nat \ {0}, h \in Nat \ {0} : w = SCREEN_WIDTH /\ h = SCREEN_HEIGHT
  BY ScreenAssumption
<1>2. c \in Nat /\ c \in 0..(h * w - 1)
  BY <1>1 DEF Cell
<1>3. PICK d \in Int : d = c \div w
  BY <1>1, <1>2
<1>4. w * d <= c /\ c < w * d + w
  BY <1>1, <1>2, <1>3
<1>5. d <= h - 2
  BY <1>1, <1>3 DEF Line
<1>6. w * d <= w * (h - 2)
  BY <1>1, <1>5
<1>7. w * (h - 2) + w + w = h * w
  BY <1>1
<1>8. c + w < h * w
  BY <1>2, <1>4, <1>6, <1>7
<1> QED
  BY <1>1, <1>2, <1>8 DEF Cell

LEMMA CellBelowLast ==
  ASSUME NEW c \in Cell, Line(c) # SCREEN_HEIGHT - 1
  PROVE  c + SCREEN_WIDTH \in Cell
<1>1. PICK w \in Nat \ {0}, h \in Nat \ {0} : w = SCREEN_WIDTH /\ h = SCREEN_HEIGHT
  BY ScreenAssumption
<1>2. c \in Nat /\ c < h * w
  BY <1>1 DEF Cell
<1>3. PICK d \in Int : d = c \div w
  BY <1>1, <1>2
<1>4. w * d <= c
  BY <1>1, <1>2, <1>3
<1>5. ASSUME d >= h
      PROVE  FALSE
  <2>1. w * d >= w * h
    BY <1>1, <1>5
  <2>2. w * h = h * w
    BY <1>1
  <2> QED
    BY <1>1, <1>2, <1>4, <2>1, <2>2
<1>6. Line(c) <= SCREEN_HEIGHT - 1
  BY <1>1, <1>3, <1>5 DEF Line
<1> QED
  BY <1>6, CellBelow

LEMMA ScrollScreens ==
  ASSUME NEW s \in Loose, NEW line1 \in Int
  PROVE  LET u == screen_scroll(s, line1, SCREEN_HEIGHT - 1)
         IN  /\ u \in Loose /\ u.x = s.x /\ u.y = s.y
             /\ \A c \in Cell : u.old[c] \in {NUL, s.old[c]}
<1> DEFINE line2 == SCREEN_HEIGHT - 1
           o == [c \in Cell |-> IF Line(c) \in line1..line2 THEN NUL ELSE s.old[c]]
           n == [c \in Cell |-> IF Line(c) \notin line1..line2 THEN s.new[c]
                                ELSE IF Line(c) = line2 THEN Blank
                                ELSE s.new[c + SCREEN_WIDTH]]
           u == screen_scroll(s, line1, line2)
<1>1. o \in [Cell -> Char]
  BY DEF Loose, Char
<1>2. n \in [Cell -> Char \ {NUL}]
  <2>1. ASSUME NEW c \in Cell
        PROVE  n[c] \in Char \ {NUL}
    <3>1. CASE Line(c) \notin line1..line2
      BY <3>1 DEF Loose
    <3>2. CASE Line(c) \in line1..line2 /\ Line(c) = line2
      BY <3>2 DEF Char, Blank, NUL
    <3>3. CASE Line(c) \in line1..line2 /\ Line(c) # line2
      <4>1. c + SCREEN_WIDTH \in Cell
        BY <3>3, CellBelow, ScreenAssumption
      <4> QED
        BY <3>3, <4>1 DEF Loose
    <3> QED
      BY <3>1, <3>2, <3>3
  <2> QED
    BY <2>1
<1>3. u = [s EXCEPT !.old = o, !.new = n]
  BY DEF screen_scroll
<1> HIDE DEF o, n, u
<1>4. u \in Loose /\ u.x = s.x /\ u.y = s.y /\ u.old = o
  BY <1>1, <1>2, <1>3 DEF Loose
<1> QED
  BY <1>4 DEF o, u

\* What is to be sent stays so.
Wide(t, w) == {s \in Loose : \A c \in Cell \ w : s.old[c] \in {NUL, t[c]}}

LEMMA ScreenSize == SCREEN_WIDTH \in Nat \ {0} /\ SCREEN_HEIGHT \in Nat \ {0}
  BY ScreenAssumption

LEMMA NewLineWide ==
  ASSUME NEW t, NEW w, NEW s \in Wide(t, w), s.y < SCREEN_HEIGHT
  PROVE  NewLine(s) \in Wide(t, w) /\ NewLine(s).x = 0
<1>1. PICK y \in 0..SCREEN_HEIGHT : y = s.y
  BY DEF Wide, Loose
<1>2. y + 1 \in 0..SCREEN_HEIGHT /\ 0 \in 0..SCREEN_WIDTH
  BY <1>1, ScreenSize
<1> DEFINE u == NewLine(s)
<1>3. u = [s EXCEPT !.x = 0, !.y = y + 1]
  BY <1>1 DEF NewLine
<1> HIDE DEF u
<1>4. u \in Loose /\ u.x = 0 /\ u.old = s.old
  BY <1>2, <1>3 DEF Wide, Loose
<1> QED
  BY <1>4 DEF Wide, u

LEMMA WrapFollows ==
  ASSUME NEW t, NEW w, NEW s \in Wide(t, w), s.x = SCREEN_WIDTH => s.y < SCREEN_HEIGHT
  PROVE  Wrap(s) \in Follows(t, w)
<1> DEFINE u == [s EXCEPT !.x = IF @ < 0 THEN 0 ELSE @, !.y = IF @ < 0 THEN 0 ELSE @]
           v == IF u.x >= SCREEN_WIDTH THEN NewLine(u) ELSE u
           r == screen_scroll(v, SCREEN_HEIGHT \div 2 + 1, SCREEN_HEIGHT - 1)
<1>0. s \in Loose /\ s.x \in 0..SCREEN_WIDTH /\ s.y \in 0..SCREEN_HEIGHT
  BY DEF Wide, Loose
<1>1. u = s
  <2>1. ~(s.x < 0) /\ ~(s.y < 0)
    BY <1>0, ScreenSize
  <2>2. u = [s EXCEPT !.x = s.x, !.y = s.y]
    BY <2>1
  <2> QED
    BY <1>0, <2>2 DEF Loose
<1>2. v \in Wide(t, w) /\ v.x \in Width
  <2>1. CASE s.x >= SCREEN_WIDTH
    <3>1. s.x = SCREEN_WIDTH
      BY <1>0, <2>1, ScreenSize
    <3>2. NewLine(s) \in Wide(t, w) /\ NewLine(s).x = 0
      BY <3>1, NewLineWide
    <3>3. 0 \in Width
      BY ScreenSize DEF Width
    <3> QED
      BY <1>1, <2>1, <3>2, <3>3
  <2>2. CASE ~(s.x >= SCREEN_WIDTH)
    BY <1>0, <1>1, <2>2, ScreenSize DEF Width
  <2> QED
    BY <2>1, <2>2
<1>3. Wrap(s) = IF v.y >= SCREEN_HEIGHT
                THEN [r EXCEPT !.x = 0, !.y = SCREEN_HEIGHT - 1] ELSE v
  BY DEF Wrap
<1> HIDE DEF u, v
<1>4. v \in Loose /\ v.y \in 0..SCREEN_HEIGHT
  BY <1>2 DEF Wide, Loose
<1>5. CASE v.y >= SCREEN_HEIGHT
  <2>1. SCREEN_HEIGHT \div 2 + 1 \in Int
    BY ScreenSize
  <2>2. r \in Loose /\ \A c \in Cell : r.old[c] \in {NUL, v.old[c]}
    BY <1>4, <2>1, ScrollScreens
  <2> HIDE DEF r
  <2> DEFINE a == [r EXCEPT !.x = 0, !.y = SCREEN_HEIGHT - 1]
  <2>3. 0 \in Width /\ SCREEN_HEIGHT - 1 \in Height
    BY ScreenSize DEF Width, Height
  <2>4. a \in Screens /\ a.old = r.old
    BY <2>2, <2>3 DEF Loose, Screens
  <2> HIDE DEF a
  <2>5. a \in Follows(t, w)
    BY <1>2, <2>2, <2>4 DEF Wide, Follows
  <2> QED
    BY <1>3, <1>5, <2>5 DEF a
<1>6. CASE ~(v.y >= SCREEN_HEIGHT)
  <2>1. v.y \in Height
    BY <1>4, <1>6, ScreenSize DEF Height
  <2>2. v \in Screens
    BY <1>2, <1>4, <2>1 DEF Loose, Screens
  <2> QED
    BY <1>2, <1>3, <1>6, <2>2 DEF Wide, Follows
<1> QED
  BY <1>5, <1>6

\* A character is written: the cursor ends up inside of the screen.
LEMMA CharFollows ==
  ASSUME NEW t, NEW w, NEW s \in Follows(t, w), NEW ch \in Key
  PROVE  screen_write_ch(s, ch) \in Follows(t, w)
<1>0. /\ s \in Screens /\ s.x \in Width /\ s.y \in Height
      /\ s.new \in [Cell -> Char \ {NUL}] /\ s.old \in [Cell -> Char]
      /\ \A c \in Cell \ w : s.old[c] \in {NUL, t[c]}
  BY DEF Follows, Screens
<1>1. Width \subseteq 0..SCREEN_WIDTH /\ Height \subseteq 0..SCREEN_HEIGHT
  BY ScreenSize DEF Width, Height
<1>2. s \in Wide(t, w) /\ s.y < SCREEN_HEIGHT /\ s.x # SCREEN_WIDTH
  BY <1>0, <1>1, ScreenSize DEF Wide, Loose, Screens, Width, Height
<1>3. CASE ch \in {"LF", "CR"}
  <2>1. NewLine(s) \in Wide(t, w) /\ NewLine(s).x = 0
    BY <1>2, NewLineWide
  <2>2. NewLine(s).x # SCREEN_WIDTH
    BY <2>1, ScreenSize
  <2> QED
    BY <1>3, <2>1, <2>2, WrapFollows DEF screen_write_ch
<1>4. CASE ch = "BS"
  <2>1. Backspace(s) \in Wide(t, w) /\ Backspace(s).x # SCREEN_WIDTH
    <3>1. CASE s.x > 0
      <4> DEFINE k == s.y * SCREEN_WIDTH + s.x - 1
                 n == [s.new EXCEPT ![k] = Blank]
                 u == [s EXCEPT !.x = s.x - 1, !.new = n]
      <4>1. Backspace(s) = u
        BY <3>1 DEF Backspace
      <4>2. n \in [Cell -> Char \ {NUL}]
        BY <1>0 DEF Char, Blank, NUL
      <4>3. s.x - 1 \in 0..SCREEN_WIDTH /\ s.x - 1 # SCREEN_WIDTH
        BY <1>0, <3>1, ScreenSize DEF Width
      <4> HIDE DEF n
      <4>4. u \in Loose /\ u.x = s.x - 1 /\ u.old = s.old
        BY <1>2, <4>2, <4>3 DEF Wide, Loose
      <4> HIDE DEF u
      <4> QED
        BY <1>0, <4>1, <4>3, <4>4 DEF Wide
    <3>2. CASE ~(s.x > 0)
      BY <1>2, <3>2 DEF Backspace
    <3> QED
      BY <3>1, <3>2
  <2> QED
    BY <1>4, <2>1, WrapFollows DEF screen_write_ch
<1>5. CASE ch = "a"
  <2>1. Put(s, ch) \in Wide(t, w) /\ Put(s, ch).y = s.y
    <3> DEFINE k == s.y * SCREEN_WIDTH + s.x
               n == [s.new EXCEPT ![k] = ch]
               u == [s EXCEPT !.x = s.x + 1, !.new = n]
    <3>1. Put(s, ch) = u
      BY DEF Put
    <3>2. n \in [Cell -> Char \ {NUL}]
      BY <1>0, <1>5 DEF Char, NUL
    <3>3. s.x + 1 \in 0..SCREEN_WIDTH
      BY <1>0, ScreenSize DEF Width
    <3> HIDE DEF n
    <3>4. u \in Loose /\ u.y = s.y /\ u.old = s.old
      BY <1>2, <3>2, <3>3 DEF Wide, Loose
    <3> HIDE DEF u
    <3> QED
      BY <1>0, <3>1, <3>4 DEF Wide
  <2>2. screen_write_ch(s, ch) = Wrap(Put(s, ch))
    BY <1>5 DEF screen_write_ch
  <2> QED
    BY <1>2, <2>1, <2>2, WrapFollows
<1> QED
  BY <1>3, <1>4, <1>5 DEF Key

\* A text is written: after its first n characters the screen is after[n], by induction
\* over n; that there is such a function is shown first.
LEMMA WriteFollows ==
  ASSUME NEW t, NEW w, NEW s \in Follows(t, w), NEW text \in Seq(Key)
  PROVE  screen_write(s, text) \in Follows(t, w)
<1> DEFINE N == Len(text)
           S == Follows(t, w)
           Run(n, h) == /\ h \in [0..n -> S] /\ h[0] = s
                        /\ \A k \in 1..n : h[k] = screen_write_ch(h[k - 1], text[k])
           P == {n \in Nat : n > N \/ \E h \in [0..n -> S] : Run(n, h)}
<1>0. N \in Nat /\ \A k \in 1..N : text[k] \in Key
  OBVIOUS
<1>c. \A u \in S, ch \in Key : screen_write_ch(u, ch) \in S
  BY CharFollows
<1> HIDE DEF N, S
<1>s. s \in S
  BY DEF S
<1>1. 0 \in P
  <2>1. Run(0, [k \in 0..0 |-> s])
    BY <1>s
  <2> QED
    BY <2>1
<1>2. ASSUME NEW n \in P
      PROVE  n + 1 \in P
  <2>1. CASE n + 1 > N
    BY <2>1
  <2>2. CASE ~(n + 1 > N)
    <3>0. n \in Nat /\ ~(n > N)
      BY <1>0, <2>2
    <3>1. PICK h \in [0..n -> S] : Run(n, h)
      <4> HIDE DEF Run
      <4> QED
        BY <3>0
    <3>2. n \in Nat /\ n \in 0..n /\ n + 1 \in Nat /\ n + 1 \in 1..N
      BY <1>0, <2>2
    <3> DEFINE next == screen_write_ch(h[n], text[n + 1])
               g == [k \in 0..(n + 1) |-> IF k = n + 1 THEN next ELSE h[k]]
    <3>3. next \in S
      BY <1>0, <1>c, <3>1, <3>2
    <3> HIDE DEF next
    <3>4. g \in [0..(n + 1) -> S]
      BY <3>1, <3>2, <3>3
    <3>5. g[0] = s
      BY <3>1, <3>2
    <3>6. ASSUME NEW k \in 1..(n + 1)
          PROVE  g[k] = screen_write_ch(g[k - 1], text[k])
      <4>1. CASE k = n + 1
        <5>1. k \in 0..(n + 1) /\ k - 1 = n /\ n # n + 1 /\ n \in 0..(n + 1)
          BY <3>2, <4>1
        <5> QED
          BY <4>1, <5>1 DEF next
      <4>2. CASE k # n + 1
        <5>1. /\ k \in 1..n /\ k \in 0..(n + 1) /\ k - 1 \in 0..(n + 1)
              /\ k - 1 # n + 1
          BY <3>2, <4>2
        <5> QED
          BY <3>1, <4>2, <5>1
      <4> QED
        BY <4>1, <4>2
    <3> HIDE DEF g
    <3>7. Run(n + 1, g)
      BY <3>4, <3>5, <3>6
    <3> HIDE DEF Run
    <3> QED
      BY <3>2, <3>4, <3>7
  <2> QED
    BY <2>1, <2>2
<1>3. P = Nat
  <2>1. P \in SUBSET Nat
    OBVIOUS
  <2> HIDE DEF P
  <2> QED
    BY <1>1, <1>2, <2>1, Induction
<1>4. PICK h \in [0..N -> S] : Run(N, h)
  BY <1>0, <1>3
<1> DEFINE after == CHOOSE f : f = [n \in 0..N |-> IF n = 0 THEN s ELSE
                                      screen_write_ch(f[n - 1], text[n])]
<1>5. h = [n \in 0..N |-> IF n = 0 THEN s ELSE screen_write_ch(h[n - 1], text[n])]
  <2>1. \A n \in 0..N : h[n] = IF n = 0 THEN s ELSE screen_write_ch(h[n - 1], text[n])
    BY <1>0, <1>4
  <2> QED
    BY <2>1, <1>4
<1>6. after = [n \in 0..N |-> IF n = 0 THEN s ELSE screen_write_ch(after[n - 1], text[n])]
  BY <1>5
<1>7. screen_write(s, text) = after[N]
  BY DEF screen_write, N
<1> HIDE DEF after, P
<1> DEFINE Q == {n \in Nat : n <= N => after[n] \in S}
<1>8. 0 \in Q
  <2>1. after[0] = s
    BY <1>0, <1>6
  <2> QED
    BY <1>s, <2>1
<1>9. ASSUME NEW n \in Q
      PROVE  n + 1 \in Q
  <2>1. CASE n + 1 <= N
    <3>1. n \in Nat /\ n + 1 \in 0..N /\ n + 1 \in 1..N /\ n + 1 # 0 /\ (n + 1) - 1 = n
      BY <1>0, <2>1
    <3>2. after[n] \in S
      BY <1>0, <2>1
    <3>3. after[n + 1] = screen_write_ch(after[n], text[n + 1])
      BY <1>6, <3>1
    <3>4. after[n + 1] \in S
      BY <1>0, <1>c, <3>1, <3>2, <3>3
    <3> QED
      BY <3>1, <3>4
  <2>2. CASE ~(n + 1 <= N)
    BY <2>2
  <2> QED
    BY <2>1, <2>2
<1>10. Q = Nat
  <2>1. Q \in SUBSET Nat
    OBVIOUS
  <2> HIDE DEF Q
  <2> QED
    BY <1>8, <1>9, <2>1, Induction
<1>11. after[N] \in S
  BY <1>0, <1>10
<1> QED
  BY <1>7, <1>11 DEF S

\* Every process that is not running has its own cursor saved, every cursor is inside of
\* the screen, and old_screen is what the terminal shows.
OwnCursor == \A p \in alive : mine[p] = IF p = current_running THEN CursorOf(screen)
                                        ELSE cursor[p]
Cursors   == /\ cursor \in [Proc \cup {Boot} -> Width \X Height]
             /\ mine \in [Proc -> Width \X Height]
Terminals == [Cell -> Char \ {NUL}]
ScreenInv == /\ terminal \in Terminals /\ stray \subseteq Cell
             /\ screen \in Follows(terminal, stray)
             /\ alive \subseteq Proc /\ current_running \in alive \cup {Boot}
             /\ Cursors /\ OwnCursor

\* A cell that was empty in old_screen, or is not what the terminal shows, is sent.
LEMMA SentFollows ==
  ASSUME NEW s \in Follows(terminal, stray), terminal \in Terminals
  PROVE  /\ Sent(s) \in Terminals /\ Flushed(s) \in Follows(Sent(s), stray \ Differing(s))
         /\ CursorOf(Flushed(s)) = CursorOf(s)
<1>0. /\ s \in Screens /\ s.new \in [Cell -> Char \ {NUL}] /\ s.old \in [Cell -> Char]
      /\ \A c \in Cell \ stray : s.old[c] \in {NUL, terminal[c]}
  BY DEF Follows, Screens
<1>1. Sent(s) \in Terminals
  BY <1>0 DEF Sent, Terminals
<1>2. \A c \in Cell \ (stray \ Differing(s)) : Sent(s)[c] = s.new[c]
  BY <1>0 DEF Sent, Differing
<1>3. PICK r \in Screens : r = Flushed(s)
  BY <1>0 DEF Flushed, Screens, Char
<1>4. r.old = s.new /\ r.x = s.x /\ r.y = s.y
  BY <1>0, <1>3 DEF Flushed, Screens
<1> QED
  BY <1>1, <1>2, <1>3, <1>4 DEF Follows, CursorOf

LEMMA ClearedFollows ==
  ASSUME NEW t, NEW w
  PROVE  Cleared \in Follows(t, w) /\ CursorOf(Cleared) = Origin /\ Origin \in Width \X Height
<1>1. 0 \in Width /\ 0 \in Height
  BY ScreenSize DEF Width, Height
<1>2. Blank \in Char \ {NUL} /\ NUL \in Char
  BY DEF Char, Blank, NUL
<1>3. Cleared \in Screens
  BY <1>1, <1>2 DEF Cleared, Screens
<1>4. \A c \in Cell : Cleared.old[c] = NUL
  BY DEF Cleared
<1> QED
  BY <1>1, <1>3, <1>4 DEF Follows, CursorOf, Origin, Cleared

LEMMA CursorInside ==
  ASSUME NEW t, NEW w, NEW s \in Follows(t, w)
  PROVE  CursorOf(s) \in Width \X Height
  BY DEF Follows, Screens, CursorOf

\* The cursor is moved, on a screen that may be sent by differences.
Placed(s, x, y) == [s EXCEPT !.x = x, !.y = y]

LEMMA MoveFollows ==
  ASSUME NEW t, NEW w, NEW s \in Follows(t, w), NEW x \in Width, NEW y \in Height
  PROVE  Placed(s, x, y) \in Follows(t, w) /\ CursorOf(Placed(s, x, y)) = <<x, y>>
<1>1. s \in Screens /\ \A c \in Cell \ w : s.old[c] \in {NUL, t[c]}
  BY DEF Follows
<1>2. PICK r \in Screens : r = Placed(s, x, y)
  BY <1>1 DEF Screens, Placed
<1>3. r.old = s.old /\ r.x = x /\ r.y = y
  BY <1>1, <1>2 DEF Screens, Placed
<1> QED
  BY <1>1, <1>2, <1>3 DEF Follows, CursorOf

\* What the running process does to the screen moves its own cursor only.
LEMMA MovedOwn ==
  ASSUME ScreenInv, Running, Moved, terminal' \in Terminals, stray' \subseteq Cell,
         screen' \in Follows(terminal', stray'), UNCHANGED <<current_running, alive, cursor>>
  PROVE  ScreenInv'
<1>1. CursorOf(screen') \in Width \X Height
  BY CursorInside
<1>2. current_running \in alive /\ current_running \in Proc
  BY DEF ScreenInv, Running
<1>3. PICK u \in Width \X Height : u = CursorOf(screen')
  BY <1>1
<1>4. mine' = [mine EXCEPT ![current_running] = u]
  BY <1>3 DEF Moved
<1>5. Cursors'
  BY <1>4 DEF ScreenInv, Cursors
<1>6. OwnCursor'
  BY <1>2, <1>3, <1>4 DEF ScreenInv, Cursors, OwnCursor, CursorOf
<1> QED
  BY <1>5, <1>6 DEF ScreenInv

\* do_scheduler saves the cursor of the process that is switched away and restores the
\* one of the process that is chosen.
LEMMA Scheduled ==
  ASSUME ScreenInv, NEW s \in Follows(terminal', stray'), CursorOf(s) = CursorOf(screen),
         do_scheduler(s), alive' \subseteq alive, mine' = mine, terminal' \in Terminals,
         stray' \subseteq Cell
  PROVE  ScreenInv'
<1>1. CursorOf(s) \in Width \X Height
  BY CursorInside
<1>2. current_running \in Proc \cup {Boot} /\ alive' \subseteq Proc
  BY DEF ScreenInv
<1>3. cursor' = [cursor EXCEPT ![current_running] = CursorOf(s)]
  BY DEF do_scheduler
<1>4. Cursors'
  BY <1>1, <1>2, <1>3 DEF ScreenInv, Cursors
<1>5. current_running' \in alive'
  BY DEF do_scheduler
<1>6. \A p \in alive' : cursor'[p] = mine[p]
  <2> SUFFICES ASSUME NEW p \in alive'
               PROVE  cursor'[p] = mine[p]
    OBVIOUS
  <2>1. p \in alive /\ p \in Proc \cup {Boot}
    BY <1>2
  <2> QED
    BY <1>3, <2>1 DEF ScreenInv, OwnCursor, Cursors
<1>7. PICK u \in Width \X Height : u = cursor'[current_running']
  BY <1>2, <1>4, <1>5 DEF Cursors
<1>8. PICK x \in Width, y \in Height : u = <<x, y>>
  BY <1>7
<1>9. screen' = [s EXCEPT !.x = x, !.y = y]
  <2>1. cursor'[current_running'][1] = x /\ cursor'[current_running'][2] = y
    BY <1>7, <1>8
  <2>2. screen' = [s EXCEPT !.x = cursor'[current_running'][1],
                            !.y = cursor'[current_running'][2]]
    BY DEF do_scheduler
  <2> QED
    BY <2>1, <2>2
<1>10. screen' \in Follows(terminal', stray') /\ CursorOf(screen') = u
  <2>1. screen' = Placed(s, x, y)
    BY <1>9 DEF Placed
  <2> QED
    BY <1>8, <2>1, MoveFollows
<1>11. CursorOf(screen)' = u
  BY <1>10 DEF CursorOf
<1>12. OwnCursor'
  BY <1>6, <1>7, <1>11 DEF OwnCursor
<1> QED
  BY <1>2, <1>4, <1>5, <1>10, <1>12 DEF ScreenInv

LEMMA InitScreen == ScreenInit => ScreenInv
<1> SUFFICES ASSUME ScreenInit
             PROVE  ScreenInv
  OBVIOUS
<1>1. terminal \in Terminals /\ stray \subseteq Cell
  BY ScreenAssumption DEF ScreenInit, Terminals, Char, Blank, NUL, Cell
<1>2. screen \in Follows(terminal, stray)
  <2>1. Cleared \in Screens /\ Cleared.new \in [Cell -> Char]
    <3>1. Cleared \in Screens
      BY ClearedFollows DEF Follows
    <3> QED
      BY <3>1 DEF Screens
  <2>2. screen \in Screens /\ screen.old = Cleared.new
    BY <2>1 DEF ScreenInit, Flushed, Screens
  <2>3. \A c \in Cell \ stray : Cleared.new[c] = terminal[c]
    BY DEF ScreenInit, Cleared
  <2> QED
    BY <2>2, <2>3 DEF Follows
<1>3. Origin \in Width \X Height
  BY ClearedFollows
<1>4. Cursors
  BY <1>3 DEF ScreenInit, Cursors
<1>5. OwnCursor
  BY ScreenAssumption DEF ScreenInit, OwnCursor, Boot
<1> QED
  BY <1>1, <1>2, <1>4, <1>5 DEF ScreenInit, ScreenInv

LEMMA NextScreen == ScreenInv /\ [ScreenNext]_screenVars => ScreenInv'
<1> SUFFICES ASSUME ScreenInv, [ScreenNext]_screenVars
             PROVE  ScreenInv'
  OBVIOUS
<1>0. terminal \in Terminals /\ screen \in Follows(terminal, stray) /\ stray \subseteq Cell
  BY DEF ScreenInv
<1>1. ASSUME NEW text \in Text, Write(text)
      PROVE  ScreenInv'
  <2>1. text \in Seq(Key)
    BY ScreenAssumption DEF Key
  <2>2. screen' \in Follows(terminal', stray')
    BY <1>0, <1>1, <2>1, WriteFollows DEF Write
  <2> QED
    BY <1>0, <1>1, <2>2, MovedOwn DEF Write
<1>2. ASSUME NEW x \in 0..(SCREEN_WIDTH - 1), NEW y \in 0..(SCREEN_HEIGHT - 1),
             screen_move_cursor(x, y)
      PROVE  ScreenInv'
  <2>1. screen' \in Follows(terminal', stray')
    BY <1>0, <1>2, MoveFollows DEF screen_move_cursor, Placed, Width, Height
  <2> QED
    BY <1>0, <1>2, <2>1, MovedOwn DEF screen_move_cursor
<1>3. CASE screen_clear(0, 0)
  <2>1. Cleared \in Follows(terminal, stray)
    BY ClearedFollows
  <2>2. terminal' \in Terminals /\ screen' \in Follows(terminal', stray')
    BY <1>0, <1>3, <2>1, SentFollows DEF screen_clear, Reflush
  <2> QED
    BY <1>0, <1>3, <2>2, MovedOwn DEF screen_clear, Reflush
<1>4. CASE screen_reflush
  <2>1. terminal' \in Terminals /\ screen' \in Follows(terminal', stray')
    BY <1>0, <1>4, SentFollows DEF screen_reflush, Reflush
  <2>2. CursorOf(screen') = CursorOf(screen)
    BY <1>0, <1>4, SentFollows DEF screen_reflush
  <2>3. CursorOf(screen)' = CursorOf(screen)
    BY <2>2 DEF CursorOf
  <2> QED
    BY <1>0, <1>4, <2>1, <2>3 DEF screen_reflush, Reflush, ScreenInv, Cursors, OwnCursor
<1>5. CASE Switch
  BY <1>0, <1>5, Scheduled DEF Switch
<1>6. CASE irq_timer
  <2>1. terminal' \in Terminals /\ Flushed(screen) \in Follows(terminal', stray')
    BY <1>0, <1>6, SentFollows DEF irq_timer, Reflush
  <2>2. CursorOf(Flushed(screen)) = CursorOf(screen)
    BY <1>0, SentFollows
  <2> QED
    BY <1>0, <1>6, <2>1, <2>2, Scheduled DEF irq_timer, Reflush
<1>7. ASSUME NEW p \in Proc, do_spawn(p)
      PROVE  ScreenInv'
  <2>1. Origin \in Width \X Height
    BY ClearedFollows
  <2>2. Cursors'
    BY <1>7, <2>1 DEF do_spawn, ScreenInv, Cursors
  <2>3. current_running \in alive /\ p # current_running
    BY <1>7 DEF do_spawn, ScreenInv, Running
  <2>4. OwnCursor'
    BY <1>7, <2>3 DEF do_spawn, ScreenInv, Cursors, OwnCursor, CursorOf
  <2> QED
    BY <1>7, <2>2, <2>4 DEF do_spawn, ScreenInv
<1>8. ASSUME NEW p \in Proc, do_kill(p)
      PROVE  ScreenInv'
  BY <1>8 DEF do_kill, ScreenInv, Cursors, OwnCursor, CursorOf
<1>9. CASE do_exit
  BY <1>0, <1>9, Scheduled DEF do_exit
<1>10. CASE port_write_ch
  <2>1. /\ screen' = screen /\ current_running' = current_running /\ alive' = alive
        /\ cursor' = cursor /\ mine' = mine
    BY <1>10 DEF port_write_ch
  <2>2. "a" \in Char \ {NUL} /\ Blank \in Char \ {NUL}
    BY DEF Char, Blank, NUL
  <2>3. terminal' \in Terminals
    <3>1. ASSUME NEW c \in Cell, terminal' = [terminal EXCEPT ![c] = "a"]
          PROVE  terminal' \in Terminals
      BY <1>0, <2>2, <3>1 DEF Terminals
    <3>2. ASSUME terminal' = [c \in Cell |-> IF Line(c) = SCREEN_HEIGHT - 1 THEN Blank
                                             ELSE terminal[c + SCREEN_WIDTH]]
          PROVE  terminal' \in Terminals
      <4>1. ASSUME NEW c \in Cell, Line(c) # SCREEN_HEIGHT - 1
            PROVE  c + SCREEN_WIDTH \in Cell
        BY <4>1, CellBelowLast
      <4>2. \A c \in Cell : terminal'[c] \in Char \ {NUL}
        BY <1>0, <2>2, <3>2, <4>1 DEF Terminals
      <4> QED
        BY <3>2, <4>2 DEF Terminals
    <3> QED
      BY <1>10, <3>1, <3>2 DEF port_write_ch
  <2>4. stray' = stray \cup {c \in Cell : terminal'[c] # terminal[c]}
    BY <1>10 DEF port_write_ch
  <2>5. stray' \subseteq Cell /\ screen \in Follows(terminal', stray')
    BY <1>0, <2>4 DEF Follows
  <2> QED
    BY <2>1, <2>3, <2>5 DEF ScreenInv, Cursors, OwnCursor, CursorOf
<1>11. CASE UNCHANGED screenVars
  BY <1>11 DEF screenVars, ScreenInv, Cursors, OwnCursor, CursorOf
<1> QED
  BY <1>1, <1>2, <1>3, <1>4, <1>5, <1>6, <1>7, <1>8, <1>9, <1>10, <1>11 DEF ScreenNext

LEMMA ScreenInductive == ScreenSpec => []ScreenInv
  BY InitScreen, NextScreen, PTL DEF ScreenSpec

\* Every process writes where it left its cursor, and inside of the screen, for a screen
\* of any size, any number of processes and texts of any length (do_scheduler:
\* save_cursor and restore_cursor; screen_write_ch indexes new_screen unchecked).
THEOREM ScreenCursors == ScreenSpec => []CursorPerProcess
<1>1. ScreenInv => CursorPerProcess
  <2> SUFFICES ASSUME ScreenInv
               PROVE  CursorPerProcess
    OBVIOUS
  <2>1. ScreenTypeOK
    BY DEF ScreenInv, ScreenTypeOK, Follows, Screens, Terminals
  <2>2. CursorOf(screen) \in Width \X Height
    BY CursorInside DEF ScreenInv
  <2>3. \A c \in Width \X Height : InScreen(c)
    BY DEF InScreen, Width, Height
  <2>4. CursorInScreen
    BY <2>2, <2>3 DEF ScreenInv, Cursors, CursorInScreen
  <2> QED
    BY <2>1, <2>4 DEF CursorPerProcess, ScreenInv, OwnCursor
<1> QED
  BY <1>1, ScreenInductive, PTL

\* old_screen is what the terminal shows, or says that a cell is to be sent in any case,
\* so that sending differences leaves no wrong character (screen_reflush, screen_scroll),
\* where no character has bypassed it (printk, SERIAL_WRITE) since the cell was last sent.
THEOREM ScreenTerminal == ScreenSpec => []TerminalFollows
<1>1. ScreenInv => TerminalFollows
  BY DEF ScreenInv, TerminalFollows, Follows
<1> QED
  BY <1>1, ScreenInductive, PTL
=============================================================================
