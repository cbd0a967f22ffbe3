----------------------------- MODULE LPI2CMaster -----------------------------
(***************************************************************************)
(* The master half of the LPI2C peripheral that the driver programs, and   *)
(* the bus behind it.  It is not part of the repository: it is modelled    *)
(* from how the driver uses the registers and from chapter 47 of the i.MX  *)
(* RT1060 reference manual that the repository keeps under                 *)
(* documentation/references.                                               *)
(*                                                                         *)
(*   port : the registers the driver reads and writes                      *)
(*   bus  : what the peripheral is doing on the wire, and what the slave   *)
(*          has answered since the last START                              *)
(***************************************************************************)
EXTENDS Integers, Sequences

CONSTANTS
    FifoSize,      \* words in the command FIFO and in the receive FIFO
    MaxLength,     \* longest transfer any caller asks for
    Faults         \* which of "NAK", "ALF" and "PLTF" the bus may produce

ASSUME HardwareAssumption ==
    /\ FifoSize \in Nat /\ FifoSize >= 3
    /\ MaxLength \in Nat
    /\ Faults \subseteq {"NAK", "ALF", "PLTF"}

VARIABLES port, bus

\* A word written to MTDR. arg is the direction of a START and the count of a RECEIVE.
Command == [cmd : {"START", "TRANSMIT", "RECEIVE", "STOP"}, arg : 0..MaxLength + 1]
MASTER_WRITE == 0
MASTER_READ == 1
START(direction) == [cmd |-> "START", arg |-> direction]
TRANSMIT == [cmd |-> "TRANSMIT", arg |-> 0]
\* Mutation: the count field holds num_bytes, which asks for one byte more.
RECEIVE_one_more(n) == [cmd |-> "RECEIVE", arg |-> n + 1]
\* The count field of MTDR holds num_bytes - 1; arg is the number of bytes it asks for.
RECEIVE(n) == [cmd |-> "RECEIVE", arg |-> n]
STOP == [cmd |-> "STOP", arg |-> 0]

ErrorFlags == {"NDF", "ALF", "FEF", "PLTF"}
LatchedFlags == ErrorFlags \cup {"SDF"}
BusPhase == {"idle", "address", "ready", "sending", "receiving", "nacked", "stop"}

PortType ==
    [tx : Seq(Command), rx : 0..FifoSize, MSR : SUBSET LatchedFlags,
     TDIE : BOOLEAN, MEN : BOOLEAN, irq : BOOLEAN]
BusType ==
    [phase : BusPhase, owed : 0..MaxLength + 1, moved : Nat,
     nak : {"none", "address", "data"}, pin_low : BOOLEAN]

\* The registers after MCR[RST]. irq is the NVIC's enable bit for this port.
ResetPort == [tx |-> <<>>, rx |-> 0, MSR |-> {}, TDIE |-> FALSE, MEN |-> FALSE, irq |-> FALSE]
IdleBus == [phase |-> "idle", owed |-> 0, moved |-> 0, nak |-> "none", pin_low |-> FALSE]

MBF == bus.phase # "idle"
TDF(p) == p.tx = <<>>
RDF(p) == p.rx > 0
Interrupt(p) == p.irq /\ (p.MSR # {} \/ RDF(p) \/ (p.TDIE /\ TDF(p)))

\* A write to a full FIFO is lost.
Push(p, c) == [p EXCEPT !.tx = IF Len(@) < FifoSize THEN Append(@, c) ELSE @]

\* Writing ones to MSR. PLTF cannot be cleared while a line is still held low.
ClearFlags(p, flags) ==
    [p EXCEPT !.MSR = @ \ (IF bus.pin_low THEN flags \ {"PLTF"} ELSE flags)]

------------------------------------------------------------------------------
\* The next command is of this kind.
Queued(cmd) == port.tx # <<>> /\ Head(port.tx).cmd = cmd
Pop == port' = [port EXCEPT !.tx = Tail(@)]
Raise(flag) == port' = [port EXCEPT !.MSR = @ \cup {flag}]

\* An error flag that has not been cleared holds back the next START.
PopStart ==
    /\ Queued("START") /\ port.MEN /\ port.MSR \cap ErrorFlags = {}
    /\ bus.phase \in {"idle", "ready"} /\ ~bus.pin_low
    /\ Pop
    /\ bus' = [bus EXCEPT !.phase = "address", !.moved = 0, !.nak = "none", !.owed = 0]

PopTransmit ==
    /\ Queued("TRANSMIT") /\ bus.phase = "ready"
    /\ Pop /\ bus' = [bus EXCEPT !.phase = "sending"]

PopReceive ==
    /\ Queued("RECEIVE") /\ bus.phase = "ready"
    /\ Pop /\ bus' = [bus EXCEPT !.phase = "receiving", !.owed = Head(port.tx).arg]

PopStop ==
    /\ Queued("STOP") /\ bus.phase \in {"ready", "nacked"}
    /\ Pop /\ bus' = [bus EXCEPT !.phase = "stop"]

AddressAcked ==
    /\ bus.phase = "address"
    /\ bus' = [bus EXCEPT !.phase = "ready"]
    /\ UNCHANGED port

ByteAcked ==
    /\ bus.phase = "sending"
    /\ bus' = [bus EXCEPT !.phase = "ready", !.moved = @ + 1]
    /\ UNCHANGED port

Nacked ==
    /\ "NAK" \in Faults
    /\ bus.phase \in {"address", "sending"}
    /\ bus' = [bus EXCEPT !.phase = "nacked",
                          !.nak = IF bus.phase = "address" THEN "address" ELSE "data"]
    /\ Raise("NDF")

\* A full receive FIFO stretches the clock: the driver disables the master only
\* when no byte is owed.
ByteReceived ==
    /\ bus.phase = "receiving" /\ bus.owed > 0
    /\ port.rx < FifoSize
    /\ port' = [port EXCEPT !.rx = @ + 1]
    /\ bus' = [bus EXCEPT !.phase = IF bus.owed > 1 THEN "receiving" ELSE "ready",
                          !.owed = @ - 1, !.moved = @ + 1]

\* The peripheral ends the transaction by itself after a NACK with commands still
\* queued, and when it has been disabled and has nothing left to send.
AutoStop ==
    /\ \/ bus.phase = "nacked" /\ port.tx # <<>> /\ ~Queued("STOP")
       \/ bus.phase \in {"ready", "nacked"} /\ port.tx = <<>> /\ ~port.MEN
    /\ bus' = [bus EXCEPT !.phase = "stop"]
    /\ UNCHANGED port

\* A second STOP queued behind the one on the wire has nothing to stop.
StopSent ==
    /\ bus.phase = "stop"
    /\ bus' = [bus EXCEPT !.phase = "idle"]
    /\ port' = [port EXCEPT !.MSR = @ \cup {"SDF"},
                            !.tx = IF Queued("STOP") THEN Tail(@) ELSE @]

\* Commands that arrive on an idle bus without a START: a STOP does nothing, data is an error.
DiscardStop ==
    /\ Queued("STOP") /\ ~MBF
    /\ Pop /\ UNCHANGED bus

FifoError ==
    /\ (Queued("TRANSMIT") \/ Queued("RECEIVE")) /\ ~MBF
    /\ port' = [port EXCEPT !.tx = Tail(@), !.MSR = @ \cup {"FEF"}]
    /\ UNCHANGED bus

\* Another master wins the bus: the peripheral lets go of it without a STOP.
ArbitrationLost ==
    /\ "ALF" \in Faults
    /\ bus.phase \in {"address", "sending"}
    /\ bus' = [bus EXCEPT !.phase = "idle"]
    /\ Raise("ALF")

\* A device holds SCL or SDA low for longer than PINLOW, whether or not the master is busy.
PinHeldLow ==
    /\ "PLTF" \in Faults /\ ~bus.pin_low
    /\ bus' = [bus EXCEPT !.pin_low = TRUE]
    /\ Raise("PLTF")

PinReleased ==
    /\ bus.pin_low
    /\ bus' = [bus EXCEPT !.pin_low = FALSE]
    /\ UNCHANGED port

Transfer ==
  /\ ~bus.pin_low
  /\
    \/ PopTransmit \/ PopReceive \/ PopStop \/ AddressAcked \/ ByteAcked \/ Nacked
    \/ ByteReceived \/ AutoStop \/ StopSent \/ DiscardStop \/ FifoError \/ ArbitrationLost
==============================================================================
