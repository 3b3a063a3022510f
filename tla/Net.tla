-------------------------------- MODULE Net --------------------------------
(***************************************************************************)
(* The network driver, drivers/mac.c: do_net_send and do_net_recv with the *)
(* GMAC's DMA engine, which works on rings of descriptors on its own.      *)
(*                                                                         *)
(* One process sends, another one receives (test_send and test_recv of     *)
(* test/test_project5/test_mac.c).  They call the driver as a function,    *)
(* not by a system call: they can be preempted between any two accesses to *)
(* the registers that they share.                                          *)
(*                                                                         *)
(* Both functions do the same on their own ring, so the actions have the   *)
(* direction as a parameter: "tx" is do_net_send, "rx" is do_net_recv.     *)
(* Interrupts of the device are masked out of the model: mac_irq_handle    *)
(* does nothing.  Sizes are left out: every descriptor has its buffer, but *)
(* do_net_recv does not compare them with the size of the caller's memory. *)
(***************************************************************************)
EXTENDS Naturals, Sequences

CONSTANTS NUM_DMA_DESC,  \* descriptors of a ring
          Num,           \* packets of a call
          MaxCalls       \* bound: calls in each direction

ASSUME NetAssumption ==
  /\ NUM_DMA_DESC \in Nat \ {0}
  /\ Num \in 1..NUM_DMA_DESC /\ MaxCalls \in Nat

Dir  == {"tx", "rx"}
Desc == 0..(NUM_DMA_DESC - 1)

VARIABLES
  pc, i, data,  \* of each process: the next statement, loop variable, register read
  call,         \* of each process: calls made
  control,      \* DmaControl: the directions that are started
  config,       \* GmacConfig: the directions that are enabled
  own,          \* the own bit of every descriptor: the device may use it
  cur, idle,    \* of each ring: the device's descriptor, and whether it waits for a poll
  stored,       \* ghost: packets the device has stored in this call of do_net_recv
  buffer,       \* what lies in the receive buffer of each descriptor
  printed       \* what this call of do_net_recv has printed

vars == <<pc, i, data, call, control, config, own, cur, idle, stored, buffer, printed>>
device == <<cur, stored, buffer>>

None == <<0, 0>>
Packet == [1..2 -> Nat]

Init ==
  /\ pc = [d \in Dir |-> "idle"]
  /\ i = [d \in Dir |-> 0]
  /\ data = [d \in Dir |-> {}]
  /\ call = [d \in Dir |-> 0]
  /\ control = {} /\ config = {}
  /\ own = [d \in Dir |-> [k \in Desc |-> FALSE]]
  /\ cur = [d \in Dir |-> 0]
  /\ idle = [d \in Dir |-> TRUE]
  /\ stored = 0
  /\ buffer = [k \in Desc |-> None]
  /\ printed = <<>>

Goto(d, from, to) == pc[d] = from /\ pc' = [pc EXCEPT ![d] = to]

\* The own bits are set at once.
desc_init_fault(d) ==
  /\ Goto(d, "idle", "control")
  /\ call[d] < MaxCalls
  /\ call' = [call EXCEPT ![d] = @ + 1]
  /\ own' = [own EXCEPT ![d] = [k \in Desc |-> TRUE]]
  /\ IF d = "rx" THEN stored' = 0 /\ printed' = <<>> ELSE UNCHANGED <<stored, printed>>
  /\ UNCHANGED <<i, data, control, config, cur, idle, buffer>>

\* A call begins: mac_send_desc_init, mac_recv_desc_init.
desc_init(d) ==
  /\ Goto(d, "idle", "control")
  /\ call[d] < MaxCalls
  /\ call' = [call EXCEPT ![d] = @ + 1]
  /\ own' = [own EXCEPT ![d] = [k \in Desc |-> FALSE]]
  /\ IF d = "rx" THEN stored' = 0 /\ printed' = <<>> ELSE UNCHANGED <<stored, printed>>
  /\ UNCHANGED <<i, data, control, config, cur, idle, buffer>>

\* Stops both directions.
dma_control_init(d) ==
  /\ Goto(d, "control", "force")
  /\ control' = {}
  /\ UNCHANGED <<i, data, call, config, own, idle, printed, device>>

\* A register is read, and written with a bit more: two accesses.
Read(d, from, to, reg) ==
  /\ Goto(d, from, to)
  /\ data' = [data EXCEPT ![d] = reg]
  /\ UNCHANGED <<i, call, control, config, own, idle, printed, device>>

WriteConfig(d, from, to, bits) ==
  /\ Goto(d, from, to)
  /\ config' = data[d] \cup bits
  /\ UNCHANGED <<i, data, call, control, own, idle, printed, device>>

mii_dul_force(d) == \/ Read(d, "force", "forced", config)
                    \/ WriteConfig(d, "forced", "enable", {})

enable(d) == \/ Read(d, "enable", "enabled", config)
             \/ WriteConfig(d, "enabled", "base", {d})

\* DmaTxBaseAddr, DmaRxBaseAddr.
base(d) ==
  /\ Goto(d, "base", "start")
  /\ cur' = [cur EXCEPT ![d] = 0]
  /\ UNCHANGED <<i, data, call, control, config, own, idle, stored, buffer, printed>>

start(d) ==
  \/ Read(d, "start", "started", control)
  \/ /\ Goto(d, "started", "own")
     /\ control' = data[d] \cup {d}
     /\ idle' = [e \in Dir |-> idle[e] /\ e \notin control' \ control]
     /\ UNCHANGED <<i, data, call, config, own, printed, device>>

\* A loop of Num rounds in which only the loop variable and the variables of the body change.
Loop(d, at, after) ==
  /\ pc[d] = at
  /\ i' = [i EXCEPT ![d] = (@ + 1) % Num]
  /\ pc' = [pc EXCEPT ![d] = IF i[d] + 1 = Num THEN after ELSE at]

give(d) ==
  /\ Loop(d, "own", "poll")
  /\ own' = [own EXCEPT ![d][i[d]] = TRUE]
  /\ UNCHANGED <<data, call, control, config, idle, printed, device>>

\* The poll demand is left out.
poll_fault(d) ==
  /\ Loop(d, "poll", IF d = "rx" THEN "wait" ELSE "idle")
  /\ UNCHANGED <<data, call, control, config, own, idle, printed, device>>

\* DmaTxPollDemand, DmaRxPollDemand.  do_net_send returns after it.
poll(d) ==
  /\ Loop(d, "poll", IF d = "rx" THEN "wait" ELSE "idle")
  /\ idle' = [idle EXCEPT ![d] = FALSE]
  /\ UNCHANGED <<data, call, control, config, own, printed, device>>

\* do_net_recv waits for the descriptor, then prints the packet.
print ==
  /\ Loop("rx", "wait", "idle")
  /\ ~own["rx"][i["rx"]]
  /\ printed' = Append(printed, buffer[i["rx"]])
  /\ UNCHANGED <<data, call, control, config, own, idle, device>>

do_net(d) == desc_init(d) \/ dma_control_init(d) \/ mii_dul_force(d) \/ enable(d)
             \/ base(d) \/ start(d) \/ give(d) \/ poll(d)
do_net_send == do_net("tx")
do_net_recv == do_net("rx") \/ print
-----------------------------------------------------------------------------
(***************************************************************************)
(* The device, external.  A started ring is worked on in its order; at a   *)
(* descriptor that it does not own, the device waits for a poll demand.    *)
(***************************************************************************)
On(d) == d \in control /\ d \in config

Transfer(d) ==
  /\ On(d) /\ ~idle[d] /\ own[d][cur[d]]
  /\ own' = [own EXCEPT ![d][cur[d]] = FALSE]
  /\ cur' = [cur EXCEPT ![d] = (@ + 1) % NUM_DMA_DESC]
  /\ IF d = "rx"
     THEN /\ stored' = stored + 1
          /\ buffer' = [buffer EXCEPT ![cur[d]] = <<call[d], stored'>>]
     ELSE UNCHANGED <<stored, buffer>>
  /\ UNCHANGED <<pc, i, data, call, control, config, idle, printed>>

Suspend(d) ==
  /\ d \in control /\ ~idle[d] /\ ~own[d][cur[d]]
  /\ idle' = [idle EXCEPT ![d] = TRUE]
  /\ UNCHANGED <<pc, i, data, call, control, config, own, printed, device>>

Next == do_net_send \/ do_net_recv \/ \E d \in Dir : Transfer(d) \/ Suspend(d)

Spec == Init /\ [][Next]_vars

\* Both processes are scheduled again and again, packets keep arriving, and the device
\* does what it is told.
FairSpec ==
  /\ Spec
  /\ WF_vars(do_net_send) /\ WF_vars(do_net_recv)
  /\ \A d \in Dir : WF_vars(Transfer(d)) /\ WF_vars(Suspend(d))
-----------------------------------------------------------------------------
TypeOK ==
  /\ control \subseteq Dir /\ config \subseteq Dir
  /\ i \in [Dir -> 0..(Num - 1)] /\ call \in [Dir -> 0..MaxCalls]
  /\ own \in [Dir -> [Desc -> BOOLEAN]] /\ cur \in [Dir -> Desc]
  /\ idle \in [Dir -> BOOLEAN] /\ buffer \in [Desc -> Packet]

\* do_net_recv prints the packets of this call in the order in which they came, none
\* twice, none left over from an earlier call and none before it is complete.  The state
\* is well typed.
PrintedInOrder ==
  TypeOK /\ \A k \in DOMAIN printed : printed[k] = <<call["rx"], k>>

\* Descriptors handed to the device are worked on, and do_net_recv comes back, unless
\* the other direction's call has switched this one off (dma_control_init, or a register
\* written back with an old value).
WorkDone(d) == (\A k \in Desc : ~own[d][k]) /\ pc[d] # "wait"
Progress ==
  \A d \in Dir : pc[d] = "poll" ~> WorkDone(d) \/ ~On(d)
=============================================================================
