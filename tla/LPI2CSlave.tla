----------------------------- MODULE LPI2CSlave -----------------------------
(***************************************************************************)
(* The slave half of the LPI2C peripheral as the driver configures it, and *)
(* the master at the other end of the bus.  It is not part of the          *)
(* repository: it is modelled from how the driver uses the registers and   *)
(* from chapter 47 of the reference manual under documentation/references. *)
(*                                                                         *)
(* SCFGR1[RXSTALL] and [TXDSTALL] are on: the slave holds SCL while a      *)
(* received byte has not been read, or a byte is wanted that has not been  *)
(* written.  [ADRSTALL] is off: nothing waits for the address to be read.  *)
(* [TXCFG] is 0: TDF asserts whenever the transmit register is empty       *)
(* during a slave-transmit transfer, and only then, so once more than the  *)
(* master has any use for.                                                 *)
(*                                                                         *)
(* A byte is the index it has in the array it comes from.                  *)
(***************************************************************************)
EXTENDS Naturals, Sequences

CONSTANTS
    Addresses,    \* the addresses the slave listens on
    MaxFrame,     \* most bytes a master transfers in one frame
    MaxSize,      \* largest array the application owns
    Faults        \* "BEF": a bit error can happen; "deaf": it may hide the STOP after it

ASSUME SlaveHardwareAssumption ==
    /\ Addresses # {} /\ MaxFrame \in Nat \ {0} /\ MaxSize \in Nat
    /\ Faults \subseteq {"BEF", "deaf"}

VARIABLES
    port,     \* the registers of the slave
    wire      \* the frame on the bus: since its START, who is called and what was moved

Flags == {"AVF", "RSF", "SDF", "RDF", "BEF"}
DUMMY_BYTE == MaxSize
Nothing == MaxSize + 1
Word == 0..Nothing

Phase == {"idle", "address", "ignored", "receiving", "sending", "over"}

PortType == [SEN : BOOLEAN, SSR : SUBSET Flags, SASR : Addresses, SOF : BOOLEAN, STDR : Word]
WireType ==
    [phase : Phase, direction : {"write", "read"}, address : Addresses,
     count : 0..MaxFrame, shift : Word]

ResetPort(p) == [p EXCEPT !.SEN = FALSE, !.SSR = {}, !.STDR = Nothing]

Matched == wire.phase \in {"receiving", "sending", "over"}
TDF == wire.phase = "sending" /\ port.STDR = Nothing
Stalled ==
    \/ wire.phase = "receiving" /\ "RDF" \in port.SSR
    \/ TDF /\ wire.shift = Nothing

\* SIER enables RSIE, SDIE, RDIE and TDIE; neither AVF nor BEF interrupts.
Interrupt == port.SSR \cap {"RSF", "SDF", "RDF"} # {} \/ TDF

------------------------------------------------------------------------------
Raise(flag) == port' = [port EXCEPT !.SSR = @ \cup {flag}]

\* A START, repeated if the last frame did not end with a STOP.
StartCondition ==
    /\ wire.phase \in {"idle", "ignored", "receiving", "over"} /\ ~Stalled
    /\ IF Matched THEN Raise("RSF") ELSE UNCHANGED port
    /\ wire' = [wire EXCEPT !.phase = "address"]

StopCondition ==
    /\ wire.phase \in {"ignored", "receiving", "over"} /\ ~Stalled
    /\ IF Matched THEN Raise("SDF") ELSE UNCHANGED port
    /\ wire' = [wire EXCEPT !.phase = "idle"]

Called(a, direction) ==
    /\ wire.phase = "address" /\ port.SEN
    /\ port' = [port EXCEPT !.SSR = @ \cup {"AVF"}, !.SASR = a,
                            !.STDR = IF direction = "read" THEN Nothing ELSE @]
    /\ wire' = [phase |-> IF direction = "read" THEN "sending" ELSE "receiving",
                direction |-> direction, address |-> a, count |-> 0, shift |-> Nothing]

SomeoneElseCalled ==
    /\ wire.phase = "address"
    /\ wire' = [wire EXCEPT !.phase = "ignored"]
    /\ UNCHANGED port

\* The master writes a byte; the peripheral acknowledges it whatever it is.
ByteWritten ==
    /\ wire.phase = "receiving" /\ ~Stalled /\ wire.count < MaxFrame
    /\ port' = [port EXCEPT !.SSR = @ \cup {"RDF"}, !.SOF = wire.count = 0]
    /\ wire' = [wire EXCEPT !.count = @ + 1]

\* The byte in STDR begins to be sent, and STDR is empty again.
ShiftOut ==
    /\ wire.phase = "sending" /\ wire.shift = Nothing /\ port.STDR # Nothing
    /\ port' = [port EXCEPT !.STDR = Nothing]
    /\ wire' = [wire EXCEPT !.shift = port.STDR]

\* The master has read the byte and asks for another (ACK) or not (NACK).
ByteRead(answer) ==
    /\ wire.phase = "sending" /\ wire.shift # Nothing
    /\ answer = "ACK" => wire.count + 1 < MaxFrame
    /\ wire' = [wire EXCEPT !.count = @ + 1, !.shift = Nothing,
                            !.phase = IF answer = "ACK" THEN @ ELSE "over"]
    /\ UNCHANGED port

\* The slave sends a 1 and finds a 0: it gives up until the next START. Whether
\* the STOP that may come first is still flagged, the manual does not say.
BitError ==
    /\ "BEF" \in Faults
    /\ wire.phase = "sending" /\ wire.shift # Nothing
    /\ Raise("BEF")
    /\ \E phase \in {"over"} \cup (IF "deaf" \in Faults THEN {"ignored"} ELSE {}) :
          wire' = [wire EXCEPT !.phase = phase, !.shift = Nothing]
==============================================================================
