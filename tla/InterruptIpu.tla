----------------------------- MODULE InterruptIpu -----------------------------
(***************************************************************************)
(* How the host's mailbox messages reach core 1 when the two M3 cores run  *)
(* separate images: the host writes to a FIFO of core 0, whose interrupt   *)
(* handler writes what is for core 1 to a second FIFO and sets a bit in a  *)
(* register; the bit interrupts core 1.  One bit stands for all messages   *)
(* of the FIFO, and a handler takes one message each time it runs.         *)
(*                                                                         *)
(* Each access to the register and to a FIFO is a step.  Bit 0 is the only *)
(* one of INTERRUPT_CORE_1 in use, so that setting it, a read and a write  *)
(* of the register, shows at the write alone, and so does clearing it.     *)
(***************************************************************************)
EXTENDS Naturals, Sequences

CONSTANTS
  FifoSize,      \* messages a mailbox can hold
  Core0Messages, \* what core 0 keeps
  Core1Messages, \* what it passes on: the two queues of core 1, hibernation
  INVALIDPAYLOAD

Messages == Core0Messages \cup Core1Messages

ASSUME FifoAssumption == FifoSize \in Nat /\ FifoSize > 0
ASSUME MessagesAssumption ==
  INVALIDPAYLOAD \notin Messages /\ Core0Messages \cap Core1Messages = {}

VARIABLES
  sysm3Fifo,   \* HOST_TO_SYSM3_MBX
  appm3Fifo,   \* SYSM3_TO_APPM3_MBX
  interrupt1,  \* bit 0 of INTERRUPT_CORE_1
  pc,          \* where the handler of each core is
  arg,         \* the message it took
  called       \* the message userFxn was called with last, on core 1

vars == <<sysm3Fifo, appm3Fifo, interrupt1, pc, arg, called>>

Cores == {0, 1}
Goto(c, l) == pc' = [pc EXCEPT ![c] = l]

Init ==
  /\ sysm3Fifo = <<>>
  /\ appm3Fifo = <<>>
  /\ interrupt1 = FALSE
  /\ pc = [c \in Cores |-> "idle"]
  /\ arg = [c \in Cores |-> INVALIDPAYLOAD]
  /\ called = INVALIDPAYLOAD

-----------------------------------------------------------------------------
\* The host waits while the FIFO is full.
HostSend(m) ==
  /\ Len(sysm3Fifo) < FifoSize
  /\ sysm3Fifo' = Append(sysm3Fifo, m)
  /\ UNCHANGED <<appm3Fifo, interrupt1, pc, arg, called>>

-----------------------------------------------------------------------------
(* Core 0: the mailbox interrupts for as long as its FIFO holds a message. *)

Take0 ==
  /\ pc[0] = "idle"
  /\ sysm3Fifo # <<>>
  /\ arg' = [arg EXCEPT ![0] = Head(sysm3Fifo)]
  /\ sysm3Fifo' = Tail(sysm3Fifo)
  /\ Goto(0, "call")
  /\ UNCHANGED <<appm3Fifo, interrupt1, called>>

\* userFxn is called: VirtQueue_isr, which may also drop a number that is no queue's.
Keep0 ==
  /\ pc[0] = "call"
  /\ arg[0] \in Core0Messages
  /\ arg' = [arg EXCEPT ![0] = INVALIDPAYLOAD]
  /\ Goto(0, "idle")
  /\ UNCHANGED <<sysm3Fifo, appm3Fifo, interrupt1, called>>

\* Mutant: the FIFO's status is not looked at, and it has room for more.
ForwardUnwaited ==
  /\ pc[0] = "call"
  /\ arg[0] \in Core1Messages
  /\ appm3Fifo' = Append(appm3Fifo, arg[0])
  /\ arg' = [arg EXCEPT ![0] = INVALIDPAYLOAD]
  /\ Goto(0, "trigger")
  /\ UNCHANGED <<sysm3Fifo, interrupt1, called>>

\* Mutant: a full FIFO is written to, in place of the last message.
ForwardUnchecked ==
  /\ pc[0] = "call"
  /\ arg[0] \in Core1Messages
  /\ appm3Fifo' = IF Len(appm3Fifo) < FifoSize
                  THEN Append(appm3Fifo, arg[0])
                  ELSE [appm3Fifo EXCEPT ![FifoSize] = arg[0]]
  /\ arg' = [arg EXCEPT ![0] = INVALIDPAYLOAD]
  /\ Goto(0, "trigger")
  /\ UNCHANGED <<sysm3Fifo, interrupt1, called>>

\* Mutant: the status of the wrong FIFO is looked at, and a full one drops the message.
ForwardOwnStatus ==
  /\ pc[0] = "call"
  /\ arg[0] \in Core1Messages
  /\ Len(sysm3Fifo) < FifoSize
  /\ appm3Fifo' = IF Len(appm3Fifo) < FifoSize THEN Append(appm3Fifo, arg[0]) ELSE appm3Fifo
  /\ arg' = [arg EXCEPT ![0] = INVALIDPAYLOAD]
  /\ Goto(0, "trigger")
  /\ UNCHANGED <<sysm3Fifo, interrupt1, called>>

\* InterruptIpu_intSend to core 1 spins while the FIFO is full, ...
Forward0 ==
  /\ pc[0] = "call"
  /\ arg[0] \in Core1Messages
  /\ Len(appm3Fifo) < FifoSize
  /\ appm3Fifo' = Append(appm3Fifo, arg[0])
  /\ arg' = [arg EXCEPT ![0] = INVALIDPAYLOAD]
  /\ Goto(0, "trigger")
  /\ UNCHANGED <<sysm3Fifo, interrupt1, called>>

\* ... "but this won't trigger an interrupt".
Trigger0 ==
  /\ pc[0] = "trigger"
  /\ interrupt1' = TRUE
  /\ Goto(0, "idle")
  /\ UNCHANGED <<sysm3Fifo, appm3Fifo, arg, called>>

-----------------------------------------------------------------------------
(* Core 1: InterruptIpu_isr and the InterruptIpu_intClear it calls.        *)

Interrupt1 ==
  /\ pc[1] = "idle"
  /\ interrupt1
  /\ Goto(1, "clear")
  /\ UNCHANGED <<sysm3Fifo, appm3Fifo, interrupt1, arg, called>>

Clear1 ==
  /\ pc[1] = "clear"
  /\ interrupt1' = FALSE
  /\ Goto(1, "status")
  /\ UNCHANGED <<sysm3Fifo, appm3Fifo, arg, called>>

Nothing1 ==
  /\ pc[1] = "status"
  /\ appm3Fifo = <<>>
  /\ Goto(1, "idle")
  /\ UNCHANGED <<sysm3Fifo, appm3Fifo, interrupt1, arg, called>>

Take1 ==
  /\ pc[1] = "status"
  /\ appm3Fifo # <<>>
  /\ arg' = [arg EXCEPT ![1] = Head(appm3Fifo)]
  /\ appm3Fifo' = Tail(appm3Fifo)
  /\ Goto(1, "again")
  /\ UNCHANGED <<sysm3Fifo, interrupt1, called>>

\* Mutant: the FIFO is not looked at again.
AgainNever ==
  /\ pc[1] = "again"
  /\ Goto(1, "call")
  /\ UNCHANGED <<sysm3Fifo, appm3Fifo, interrupt1, arg, called>>

\* "Trigger our own interrupt since another interrupt pending": the look at
\* the FIFO, and the write.
Again1 ==
  /\ pc[1] = "again"
  /\ Goto(1, IF appm3Fifo # <<>> THEN "rearm" ELSE "call")
  /\ UNCHANGED <<sysm3Fifo, appm3Fifo, interrupt1, arg, called>>

\* Mutant: the bit of the other core is set.
RearmSilent ==
  /\ pc[1] = "rearm"
  /\ Goto(1, "call")
  /\ UNCHANGED <<sysm3Fifo, appm3Fifo, interrupt1, arg, called>>

Rearm1 ==
  /\ pc[1] = "rearm"
  /\ interrupt1' = TRUE
  /\ Goto(1, "call")
  /\ UNCHANGED <<sysm3Fifo, appm3Fifo, arg, called>>

Call1 ==
  /\ pc[1] = "call"
  /\ called' = arg[1]
  /\ arg' = [arg EXCEPT ![1] = INVALIDPAYLOAD]
  /\ Goto(1, "idle")
  /\ UNCHANGED <<sysm3Fifo, appm3Fifo, interrupt1>>

Core0Step == Take0 \/ Keep0 \/ Forward0 \/ Trigger0
Core1Step == Interrupt1 \/ Clear1 \/ Nothing1 \/ Take1 \/ Again1 \/ Rearm1 \/ Call1

Next == (\E m \in Messages : HostSend(m)) \/ Core0Step \/ Core1Step

Spec == Init /\ [][Next]_vars

\* Interrupts are taken and their handlers run on.
Fairness == WF_vars(Core0Step) /\ WF_vars(Core1Step)

FairSpec == Spec /\ Fairness

-----------------------------------------------------------------------------
(* Properties.                                                             *)

Places == {"idle", "call", "trigger", "clear", "status", "again", "rearm"}

TypeOK ==
  /\ sysm3Fifo \in Seq(Messages) /\ Len(sysm3Fifo) <= FifoSize
  /\ appm3Fifo \in Seq(Core1Messages) /\ Len(appm3Fifo) <= FifoSize
  /\ interrupt1 \in BOOLEAN
  /\ pc \in [Cores -> Places]
  /\ pc[0] \in {"idle", "call", "trigger"}
  /\ pc[1] \in {"idle", "clear", "status", "again", "rearm", "call"}
  /\ arg \in [Cores -> Messages \cup {INVALIDPAYLOAD}]
  /\ arg[1] \in Core1Messages \cup {INVALIDPAYLOAD}
  /\ called \in Core1Messages \cup {INVALIDPAYLOAD}

\* No message is left in the FIFO of core 1 without an interrupt to come for
\* it: the bit is set, or core 0 is about to set it, or core 1 has yet to look
\* at the FIFO or to set the bit itself.  Core 1 may clear the bit that was set
\* for a message which it has not taken.
NoMessageWithoutInterrupt ==
  appm3Fifo # <<>> =>
    \/ interrupt1
    \/ pc[0] = "trigger"
    \/ pc[1] \in {"clear", "status", "again", "rearm"}

\* The messages for core 1 get there once each and in order, through both FIFOs
\* at their limits.
InHand(c) == IF arg[c] \in Core1Messages THEN <<arg[c]>> ELSE <<>>
ForCore1(q) ==
  LET kept[n \in 0..Len(q)] ==
        IF n = 0 THEN <<>>
        ELSE IF q[n] \in Core1Messages THEN Append(kept[n - 1], q[n]) ELSE kept[n - 1]
  IN  kept[Len(q)]

CH == INSTANCE Channel WITH
  Messages <- Core1Messages, Nothing <- INVALIDPAYLOAD,
  Capacity <- 2 * FifoSize + 2,
  chan <- InHand(1) \o appm3Fifo \o InHand(0) \o ForCore1(sysm3Fifo),
  out <- called

RefinesChannel == CH!Spec

\* Every run of a handler ends, that of core 0 too, which spins while the FIFO of
\* core 1 is full; and as long as a message waits in its FIFO, a core whose handler
\* has ended takes another one.  So no message stays in either FIFO for good.
Fifo(c) == IF c = 0 THEN sysm3Fifo ELSE appm3Fifo

MessagesTaken ==
  \A c \in Cores :
    /\ pc[c] # "idle" ~> pc[c] = "idle"
    /\ pc[c] = "idle" /\ Fifo(c) # <<>> ~> pc[c] = "call"
=============================================================================
