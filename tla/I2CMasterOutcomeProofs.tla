------------------------ MODULE I2CMasterOutcomeProofs ------------------------
(***************************************************************************)
(* What I2CMaster tells its caller is true: proofs of Complete,            *)
(* NakReported, FifosEmptyAtStart, NoFifoError, NoInterruptStorm,          *)
(* BufferReleased and StaysFinished, and of the steps of I2CTransfer.      *)
(*                                                                         *)
(* The invariant says where the system can be.  Between two calls it is at *)
(* Rest.  A call puts a START in the queue (Started), and once the address *)
(* is over the transfer is Writing, Reading or, when all that is left is   *)
(* a STOP, Winding down; so is one that failed or was turned down.  Each   *)
(* situation ties the driver's state, the queue, the flags and the phase   *)
(* of the bus to each other, for each step of the caller's thread.         *)
(***************************************************************************)
EXTENDS I2CMasterProofs

\* The ISR runs before the next event on the bus, calls are short, every
\* transfer asks for its STOP, and nobody holds a line low.
PromptSystem ==
    /\ PromptISR /\ PromptCaller
    /\ SendStop \subseteq {TRUE} /\ Faults \subseteq {"NAK", "ALF"}

------------------------------------------------------------------------------
(***************************************************************************)
(* The situations.                                                         *)
(***************************************************************************)
HoldsStop(q) == Len(q) = 1 /\ q[1] = STOP
HoldsReceive(q, n) == Len(q) = 1 /\ q[1] = RECEIVE(n)
HoldsRead(q, n) == Len(q) = 2 /\ q[1] = RECEIVE(n) /\ q[2] = STOP
HoldsTransmits(q) == \A i \in 1..Len(q) : q[i] = TRANSMIT

\* The buffer is ready for a transfer of n bytes.
Loaded(n) == drv.buff = initialise(n) /\ n > 0

\* TDF would not make the driver take a first byte (HandleTransmit).
CannotBegin == drv.ignore_tdf \/ drv.buff.next_index > 0

Rest ==
    /\ bus.phase = "idle" /\ port.tx = <<>> /\ port.rx = 0 /\ ~port.TDIE
    /\ port.MSR \subseteq {"SDF"}
    /\ port.MSR # {} => port.irq /\ caller.pc \in {"idle", "abort"} /\ CannotBegin
    /\ caller.pc \in {"idle", "start", "abort", "reject"}
    /\ caller.pc # "idle" => port.irq
    /\ caller.pc = "start" => /\ drv.state = "starting" /\ drv.error = "ok"
                              /\ (drv.ignore_tdf <=> caller.op = "read")

\* What the thread has put behind the START so far, at each step of a call.
ToArm(rest) ==
    /\ caller.pc = "arm" /\ rest = <<>>
    /\ ~port.TDIE /\ (drv.ignore_tdf <=> caller.op = "read")
ToEnable(rest) ==
    /\ caller.pc = "enable" /\ Loaded(caller.n) /\ rest = <<>>
    /\ ~port.TDIE /\ ~drv.ignore_tdf /\ drv.stop_on_completion
ToReceive(rest) ==
    /\ caller.pc = "receive" /\ Loaded(caller.n) /\ rest = <<>>
    /\ ~port.TDIE /\ drv.ignore_tdf
ToPushStop(rest) ==
    /\ caller.pc = "push_stop" /\ Loaded(caller.n) /\ HoldsReceive(rest, caller.n)
    /\ ~port.TDIE /\ drv.ignore_tdf
ReadyToWrite(rest) ==
    /\ caller.pc \in {"idle", "abort"} /\ Loaded(drv.buff.size) /\ (Accepted => drv.buff.size = caller.n)
    /\ rest = <<>> /\ port.TDIE /\ ~drv.ignore_tdf /\ drv.stop_on_completion
ReadyToRead(rest) ==
    /\ caller.pc \in {"idle", "abort"} /\ Loaded(drv.buff.size) /\ (Accepted => drv.buff.size = caller.n)
    /\ HoldsRead(rest, drv.buff.size) /\ ~port.TDIE /\ drv.ignore_tdf
ReadyToProbe(rest) ==
    /\ caller.pc \in {"idle", "abort"} /\ (Accepted => caller.n = 0)
    /\ HoldsStop(rest) /\ ~port.TDIE /\ drv.ignore_tdf

StartedWith(rest) ==
    \/ ToArm(rest) \/ ToEnable(rest) \/ ToReceive(rest) \/ ToPushStop(rest)
    \/ ReadyToWrite(rest) \/ ReadyToRead(rest) \/ ReadyToProbe(rest)

\* The START waits for the bus, or the address is on the wire.
BehindStart == IF bus.phase = "idle" THEN Tail(port.tx) ELSE port.tx
Started ==
    /\ port.irq /\ port.MSR = {} /\ port.rx = 0
    /\ drv.state = "starting" /\ (caller.answer # "refused" => drv.error = "ok")
    /\ \/ bus.phase = "idle" /\ Queued("START")
       \/ bus.phase = "address" /\ bus.moved = 0 /\ bus.nak = "none"
    /\ StartedWith(BehindStart)

\* The flag that is up when an error has just ended the transfer.
FailedWith(flag) ==
    \/ flag = "NDF" /\ bus.phase = "nacked" /\ bus.nak # "none"
    \/ flag = "ALF" /\ bus.phase = "idle" /\ bus.nak = "none"

InFlight == IF bus.phase = "sending" THEN 1 ELSE 0

\* Bytes are in the queue or on their way, and the cursor is ahead of the bus by as many.
Writing ==
    /\ caller.pc \in {"idle", "abort"} /\ port.irq /\ port.rx = 0 /\ port.TDIE
    /\ drv.state = "transferring" /\ ~drv.ignore_tdf /\ drv.stop_on_completion
    /\ drv.buff.next_index > 0
    /\ Accepted => drv.error = "ok" /\ drv.buff.size = caller.n
    /\ HoldsTransmits(port.tx) /\ (port.tx = <<>> => bus.phase = "sending")
    /\ \/ /\ port.MSR = {} /\ bus.phase \in {"address", "ready", "sending"} /\ bus.nak = "none"
          /\ bus.moved + InFlight + Len(port.tx) = drv.buff.next_index
       \/ \E flag \in {"NDF", "ALF"} : port.MSR = {flag} /\ FailedWith(flag)

\* The address is over and the bytes have not been asked for.
Reading ==
    /\ caller.pc \in {"idle", "abort"} /\ port.irq /\ port.rx = 0 /\ ~port.TDIE
    /\ drv.state = "starting" /\ drv.ignore_tdf /\ Loaded(drv.buff.size)
    /\ Accepted => drv.error = "ok" /\ drv.buff.size = caller.n
    /\ HoldsRead(port.tx, drv.buff.size) /\ bus.moved = 0
    /\ \/ port.MSR = {} /\ bus.phase = "ready" /\ bus.nak = "none"
       \/ \E flag \in {"NDF", "ALF"} : port.MSR = {flag} /\ FailedWith(flag)

\* Nothing but a STOP is left to send, or about to be queued. Bytes that were asked for may still come.
Winding ==
    /\ port.irq /\ ~port.TDIE /\ caller.pc \in {"idle", "abort", "abort_stop", "reject"}
    /\ drv.state # "stopped" /\ CannotBegin
    /\ \/ HoldsStop(port.tx) /\ caller.pc # "abort_stop"
       \/ port.tx = <<>> /\ (bus.phase = "stop" \/ caller.pc = "abort_stop")
    /\ port.rx \in {0, 1}
    /\ bus.phase = "receiving" \/ port.rx = 1 => drv.ignore_tdf
    /\ port.rx = 1 => bus.phase \in {"ready", "receiving"} /\ caller.pc \in {"idle", "abort"}
    /\ \/ port.MSR = {}
       \/ caller.pc \in {"idle", "abort"} /\ \E flag \in {"NDF", "ALF"} :
             port.MSR = {flag} /\ bus.phase = (IF flag = "NDF" THEN "nacked" ELSE "idle")
    /\ bus.phase = "idle" => caller.pc \in {"idle", "abort"} /\ (port.MSR = {} => drv.state = "stopping")
    /\ Accepted => drv.state # "idle"

Situation == Rest \/ Started \/ Writing \/ Reading \/ Winding

\* Every byte of the call is accounted for.
Account ==
    /\ bus.nak = "none" /\ bus.moved + InFlight + bus.owed = caller.n
    /\ caller.n > 0 => /\ drv.buff.size = caller.n
                       /\ drv.buff.next_index + port.rx + bus.owed = caller.n
    /\ caller.n = 0 => port.rx = 0

\* What the driver will tell about an accepted call once it is finished.
Truthful ==
    /\ drv.error = "ok" /\ port.MSR \cap {"NDF", "ALF"} = {} => Account
    /\ bus.nak # "none" => drv.error \in {"address_nak", "data_nak"} \/ "NDF" \in port.MSR
    /\ "NDF" \in port.MSR => bus.nak # "none"
    /\ "ALF" \in port.MSR => bus.nak = "none"
    /\ bus.phase \in {"address", "ready", "sending", "receiving"} => drv.error = "ok"
    /\ port.rx > 0 \/ bus.owed > 0 =>
          drv.buff.next_index = 0 \/ drv.state = "transferring"

\* The caller's side, and what no situation ever has.
Common ==
    /\ ~bus.pin_low /\ (bus.phase = "receiving" <=> bus.owed > 0)
    /\ "ALF" \in port.MSR => "ALF" \in Faults
    /\ drv.state # "transfer_complete" /\ drv.error # "master_fifos_not_empty"
    /\ caller.stop = TRUE
    /\ caller.pc \notin {"idle", "abort", "abort_stop", "reject"} => caller.answer = "none"
    /\ caller.pc \in {"abort", "abort_stop", "reject"} => caller.answer = "refused"
    /\ caller.pc = "idle" /\ caller.answer = "none" => Rest /\ port.MSR = {} /\ bus.moved = 0

OutcomeInv == Common /\ Situation /\ (Accepted /\ (Rest \/ Winding) => Truthful)

------------------------------------------------------------------------------
(***************************************************************************)
(* Queues and registers.                                                   *)
(***************************************************************************)
\* What a command that joins a queue does to it.
LEMMA AppendFacts ==
    ASSUME NEW q \in Seq(Command), NEW c \in Command
    PROVE  /\ Append(q, c) # <<>> /\ Len(Append(q, c)) = Len(q) + 1
           /\ \A i \in 1..Len(q) : Append(q, c)[i] = q[i]
           /\ Append(q, c)[Len(q) + 1] = c
           /\ q # <<>> => /\ Head(Append(q, c)) = Head(q)
                          /\ Tail(Append(q, c)) = Append(Tail(q), c)
<1>1. Append(q, c) # <<>> /\ Len(Append(q, c)) = Len(q) + 1
  BY AppendProperties
<1>2. /\ \A i \in 1..Len(q) : Append(q, c)[i] = q[i]
      /\ Append(q, c)[Len(q) + 1] = c
  BY AppendProperties
<1>3. q # <<>> => /\ Head(Append(q, c)) = Head(q)
                  /\ Tail(Append(q, c)) = Append(Tail(q), c)
  BY HeadTailAppend
<1> QED
  BY <1>1, <1>2, <1>3

\* What is left of a queue when its first command is taken.
LEMMA TailFacts ==
    ASSUME NEW q \in Seq(Command), q # <<>>
    PROVE  /\ Tail(q) \in Seq(Command) /\ Len(q) \in Nat \ {0}
           /\ Len(Tail(q)) = Len(q) - 1
           /\ \A i \in 1..Len(q) - 1 : Tail(q)[i] = q[i + 1]
           /\ Head(q) = q[1]
<1>1. Tail(q) \in Seq(Command) /\ Len(Tail(q)) = Len(q) - 1
  BY HeadTailProperties
<1>2. Len(q) \in Nat \ {0}
  BY EmptySeq, LenProperties
<1>3. \A i \in 1..Len(q) - 1 : Tail(q)[i] = q[i + 1]
  BY HeadTailProperties
<1>4. Head(q) = q[1]
  BY HeadTailProperties
<1> QED
  BY <1>1, <1>2, <1>3, <1>4

\* A queue is empty exactly if it has no command.
LEMMA EmptyFacts ==
    ASSUME NEW q \in Seq(Command)
    PROVE  Len(q) \in Nat /\ (q = <<>> <=> Len(q) = 0)
BY EmptySeq, LenProperties

\* The kinds of commands are told apart.
LEMMA CommandKinds ==
    /\ STOP.cmd = "STOP" /\ TRANSMIT.cmd = "TRANSMIT"
    /\ \A n \in Nat : RECEIVE(n).cmd = "RECEIVE" /\ RECEIVE(n).arg = n
    /\ \A dir : START(dir).cmd = "START"
BY DEF STOP, TRANSMIT, RECEIVE, START

\* Writing to an empty queue.
LEMMA PushEmpty ==
    ASSUME NEW p \in PortType, p.tx = <<>>, NEW c \in Command
    PROVE  /\ Push(p, c) = [p EXCEPT !.tx = Append(<<>>, c)]
           /\ Push(p, c).tx # <<>> /\ Len(Push(p, c).tx) = 1 /\ Push(p, c).tx[1] = c
           /\ Head(Push(p, c).tx) = c /\ Tail(Push(p, c).tx) = <<>>
<1>1. <<>> \in Seq(Command) /\ Len(<<>>) = 0
  BY EmptySeq
<1>2. Push(p, c) = [p EXCEPT !.tx = Append(<<>>, c)]
  BY <1>1, HardwareAssumption DEF Push
<1>3. Push(p, c).tx = Append(<<>>, c)
  BY <1>2 DEF PortType
<1>4. /\ Append(<<>>, c) # <<>> /\ Len(Append(<<>>, c)) = 1 /\ Append(<<>>, c)[1] = c
  BY <1>1, AppendFacts
<1>5. Head(Append(<<>>, c)) = c /\ Tail(Append(<<>>, c)) = <<>>
  BY <1>1, HeadTailAppend
<1> QED
  BY <1>2, <1>3, <1>4, <1>5

\* Writing to a queue that has room.
LEMMA PushFacts ==
    ASSUME NEW p \in PortType, Len(p.tx) < FifoSize, NEW c \in Command
    PROVE  Push(p, c) = [p EXCEPT !.tx = Append(p.tx, c)]
BY DEF Push

LEMMA StopFacts == STOP \in Command /\ HoldsStop(Append(<<>>, STOP))
<1>1. <<>> \in Seq(Command) /\ Len(<<>>) = 0 /\ STOP \in Command
  BY EmptySeq, StopCommand
<1> QED
  BY <1>1, AppendFacts DEF HoldsStop

------------------------------------------------------------------------------
(***************************************************************************)
(* What the ISR makes of each interrupt.                                   *)
(***************************************************************************)
\* The fields the ISR never writes.
SameOwner == drv'.buff = drv.buff /\ drv'.ignore_tdf = drv.ignore_tdf /\ port'.irq = port.irq

\* A NACK: the queue is replaced by a STOP, unless that has been done before.
LEMMA ISRNak ==
    ASSUME Inv, ISR, ~bus.pin_low, port.MSR = {"NDF"}, port.rx = 0, port.tx # <<>>, MBF,
           drv.state = "stopping" => HoldsStop(port.tx) /\ ~port.TDIE
    PROVE  /\ drv'.state = "stopping" /\ drv'.error \in {"address_nak", "data_nak"}
           /\ HoldsStop(port'.tx) /\ port'.rx = 0 /\ port'.MSR = {} /\ ~port'.TDIE
           /\ SameOwner
<1> DEFINE e == HandleErrors(Machine, port.MSR)
<1>1. drv \in DriverType /\ port \in PortType
  BY DEF Inv, TypeOK
<1>2. RDF(port) = FALSE /\ TDF(port) = FALSE
  BY DEF RDF, TDF
<1>3. ServiceInterrupt(Machine) = e
  <2>1. HandleStop(e, port.MSR) = e
    BY DEF HandleStop
  <2> HIDE DEF e
  <2>2. HandleTransmit(HandleReceive(e, FALSE), FALSE) = e
    BY DEF HandleReceive, HandleTransmit
  <2> QED
    BY <1>2, <2>1, <2>2 DEF ServiceInterrupt, Machine, e
<1>4. drv' = e.drv /\ port' = e.port
  BY <1>3 DEF ISR, Becomes
<1> DEFINE error == ErrorAfter(drv, port.MSR)
           seen == ClearFlags(port, {"NDF"})
<1>5. error \in {"address_nak", "data_nak"}
  BY DEF ErrorAfter
<1>6. port.MSR \cap ErrorFlags = {"NDF"}
  BY DEF ErrorFlags
<1>7. seen = [port EXCEPT !.MSR = {}]
  BY <1>1 DEF ClearFlags, PortType
<1>8. CASE drv.state = "stopping"
  <2>1. e = [drv |-> [drv EXCEPT !.error = error], port |-> seen]
    BY <1>6, <1>8 DEF HandleErrors, Machine
  <2> HIDE DEF e, error
  <2>2. drv' = [drv EXCEPT !.error = error] /\ port' = [port EXCEPT !.MSR = {}]
    BY <1>4, <1>7, <2>1
  <2> QED
    BY <1>1, <1>5, <1>8, <2>2 DEF DriverType, PortType, SameOwner
<1>9. CASE drv.state # "stopping"
  <2> DEFINE cleared == [seen EXCEPT !.TDIE = FALSE, !.tx = <<>>, !.rx = 0]
  <2>1. /\ cleared \in PortType /\ cleared.MSR = {} /\ cleared.tx = <<>>
        /\ cleared.rx = 0 /\ cleared.TDIE = FALSE /\ cleared.irq = port.irq
    <3>1. <<>> \in Seq(Command) /\ 0 \in 0..FifoSize
      BY EmptySeq, HardwareAssumption
    <3> QED
      BY <1>1, <1>7, <3>1 DEF PortType
  <2>2. e = [drv |-> [drv EXCEPT !.error = error, !.state = "stopping"],
             port |-> Push(cleared, STOP)]
    BY <1>6, <1>9, <2>1 DEF HandleErrors, Machine, abort_transaction_async, Cleared, NeedsStop
  <2> HIDE DEF cleared
  <2>3. port' = [cleared EXCEPT !.tx = Append(<<>>, STOP)]
    BY <1>4, <2>1, <2>2, PushEmpty, StopCommand
  <2>4. drv' = [drv EXCEPT !.error = error, !.state = "stopping"]
    BY <1>4, <2>2
  <2> HIDE DEF e, error
  <2> QED
    BY <1>1, <1>5, <2>1, <2>3, <2>4, StopFacts DEF DriverType, PortType, SameOwner
<1> QED
  BY <1>8, <1>9

\* Arbitration lost: the queue is emptied, unless the transfer was being stopped anyway.
LEMMA ISRLost ==
    ASSUME Inv, ISR, ~bus.pin_low, port.MSR = {"ALF"}, port.rx = 0, port.tx # <<>>, ~MBF
    PROVE  /\ drv'.state = "stopping" /\ drv'.error = "arbitration_lost"
           /\ port'.rx = 0 /\ port'.MSR = {} /\ SameOwner
           /\ drv.state = "stopping" => port'.tx = port.tx /\ port'.TDIE = port.TDIE
           /\ drv.state # "stopping" => port'.tx = <<>> /\ ~port'.TDIE
<1> DEFINE e == HandleErrors(Machine, port.MSR)
<1>1. drv \in DriverType /\ port \in PortType
  BY DEF Inv, TypeOK
<1>2. RDF(port) = FALSE /\ TDF(port) = FALSE
  BY DEF RDF, TDF
<1>3. ServiceInterrupt(Machine) = e
  <2>1. HandleStop(e, port.MSR) = e
    BY DEF HandleStop
  <2> HIDE DEF e
  <2>2. HandleTransmit(HandleReceive(e, FALSE), FALSE) = e
    BY DEF HandleReceive, HandleTransmit
  <2> QED
    BY <1>2, <2>1, <2>2 DEF ServiceInterrupt, Machine, e
<1>4. drv' = e.drv /\ port' = e.port
  BY <1>3 DEF ISR, Becomes
<1> DEFINE seen == ClearFlags(port, {"ALF"})
<1>5. ErrorAfter(drv, port.MSR) = "arbitration_lost"
  BY DEF ErrorAfter
<1>6. port.MSR \cap ErrorFlags = {"ALF"}
  BY DEF ErrorFlags
<1>7. seen = [port EXCEPT !.MSR = {}]
  BY <1>1 DEF ClearFlags, PortType
<1>8. CASE drv.state = "stopping"
  <2>1. e = [drv |-> [drv EXCEPT !.error = "arbitration_lost"], port |-> seen]
    BY <1>5, <1>6, <1>8 DEF HandleErrors, Machine
  <2> HIDE DEF e
  <2>2. drv' = [drv EXCEPT !.error = "arbitration_lost"] /\ port' = [port EXCEPT !.MSR = {}]
    BY <1>4, <1>7, <2>1
  <2> QED
    BY <1>1, <1>8, <2>2 DEF DriverType, PortType, SameOwner
<1>9. CASE drv.state # "stopping"
  <2> DEFINE cleared == [seen EXCEPT !.TDIE = FALSE, !.tx = <<>>, !.rx = 0]
  <2>1. e = [drv |-> [drv EXCEPT !.error = "arbitration_lost", !.state = "stopping"],
             port |-> cleared]
    BY <1>5, <1>6, <1>9 DEF HandleErrors, Machine, abort_transaction_async, Cleared, NeedsStop
  <2>2. drv' = [drv EXCEPT !.error = "arbitration_lost", !.state = "stopping"] /\ port' = cleared
    BY <1>4, <2>1
  <2> HIDE DEF e
  <2> QED
    BY <1>1, <1>7, <1>9, <2>2 DEF DriverType, PortType, SameOwner
<1> QED
  BY <1>8, <1>9

\* The STOP has been sent: the driver is stopped, and TDF starts nothing.
LEMMA ISRStop ==
    ASSUME Inv, ISR, port.MSR = {"SDF"}, port.rx = 0, port.tx = <<>>, CannotBegin
    PROVE  /\ drv'.state = "stopped" /\ drv'.error = drv.error
           /\ port'.tx = <<>> /\ port'.rx = 0 /\ port'.MSR = {} /\ ~port'.TDIE
           /\ SameOwner
<1>1. drv \in DriverType /\ port \in PortType
  BY DEF Inv, TypeOK
<1>2. RDF(port) = FALSE /\ TDF(port) = TRUE
  BY DEF RDF, TDF
<1> DEFINE d == [drv EXCEPT !.state = "stopped"]
           p == ClearFlags([port EXCEPT !.TDIE = FALSE], {"SDF"})
           m == [drv |-> d, port |-> p]
<1>3. HandleErrors(Machine, port.MSR) = Machine
  BY DEF HandleErrors, ErrorFlags
<1>4. HandleStop(Machine, port.MSR) = m
  BY DEF HandleStop, Machine
<1>5. HandleReceive(m, FALSE) = m
  BY DEF HandleReceive
<1>6. \/ Begun(d) = d /\ d.state = "stopped" /\ d.ignore_tdf = drv.ignore_tdf
      \/ d.ignore_tdf = TRUE
  BY <1>1 DEF CannotBegin, Begun, not_started, DriverType, Buffer
<1>7. HandleTransmit(m, TRUE) = m
  <2> HIDE DEF d, p
  <2>1. [m EXCEPT !.drv = d] = m
    OBVIOUS
  <2> QED
    BY <1>6, <2>1 DEF HandleTransmit
<1>8. ServiceInterrupt(Machine) = m
  <2> HIDE DEF m
  <2> QED
    BY <1>2, <1>3, <1>4, <1>5, <1>7 DEF ServiceInterrupt, Machine
<1>9. drv' = d /\ port' = p
  BY <1>8 DEF ISR, Becomes
<1> QED
  BY <1>1, <1>9 DEF ClearFlags, DriverType, PortType, SameOwner

\* The first byte of a transfer puts the driver to work.
LEMMA BegunFacts ==
    ASSUME NEW d \in DriverType
    PROVE  /\ Begun(d) \in DriverType /\ Begun(d).buff = d.buff /\ Begun(d).ignore_tdf = d.ignore_tdf
           /\ Begun(d).stop_on_completion = d.stop_on_completion
           /\ Begun(d).error = IF not_started(d.buff) THEN "ok" ELSE d.error
           /\ Begun(d).state = IF not_started(d.buff) THEN "transferring" ELSE d.state
BY DEF Begun, DriverType, State, I2CError

\* A byte: it is taken if the driver is in a transfer or at its first byte, and after
\* the last one only the STOP is waited for.
LEMMA ISRByte ==
    ASSUME Inv, ISR, port.MSR = {}, port.rx = 1, drv.ignore_tdf, HoldsStop(port.tx)
    PROVE  /\ port'.tx = port.tx /\ port'.rx = 0 /\ port'.MSR = {}
           /\ port'.TDIE = port.TDIE /\ port'.irq = port.irq /\ drv'.ignore_tdf
           /\ drv'.buff = IF not_started(drv.buff) \/ drv.state = "transferring"
                          THEN write(drv.buff) ELSE drv.buff
           /\ drv'.error = IF not_started(drv.buff) THEN "ok" ELSE drv.error
           /\ drv'.state = IF all_done(drv'.buff) THEN "stopping"
                           ELSE IF not_started(drv.buff) THEN "transferring" ELSE drv.state
<1>1. drv \in DriverType /\ port \in PortType
  BY DEF Inv, TypeOK
<1>2. RDF(port) = TRUE /\ TDF(port) = FALSE
  BY DEF RDF, TDF, HoldsStop, EmptySeq
<1> DEFINE taken == TakeByte(Machine)
           d == Begun(drv)
           over == [drv  |-> [taken.drv EXCEPT !.state = "stopping"],
                    port |-> [taken.port EXCEPT !.MEN = FALSE]]
<1>3. HandleStop(HandleErrors(Machine, port.MSR), port.MSR) = Machine
  BY DEF HandleErrors, HandleStop
<1>4. /\ d \in DriverType /\ d.buff = drv.buff /\ d.ignore_tdf = drv.ignore_tdf
      /\ d.error = IF not_started(drv.buff) THEN "ok" ELSE drv.error
      /\ d.state = IF not_started(drv.buff) THEN "transferring" ELSE drv.state
  BY <1>1, BegunFacts
<1>5. /\ taken.drv \in DriverType /\ taken.drv.ignore_tdf = drv.ignore_tdf
      /\ taken.drv.error = d.error /\ taken.drv.state = d.state
      /\ taken.drv.buff = IF d.state = "transferring" THEN write(drv.buff) ELSE drv.buff
  <2>1. write(drv.buff) \in Buffer
    BY <1>1, WriteInv DEF Inv, BufferInBounds, DriverType
  <2> HIDE DEF d
  <2>2. taken.drv = IF d.state = "transferring" THEN [d EXCEPT !.buff = write(@)] ELSE d
    BY DEF TakeByte, Machine, d
  <2> HIDE DEF taken
  <2> QED
    BY <1>4, <2>1, <2>2 DEF DriverType
<1>6. taken.port = [port EXCEPT !.rx = 0]
  <2>1. 1 > 0 /\ 1 - 1 = 0
    OBVIOUS
  <2> QED
    BY <1>1, <2>1 DEF TakeByte, Machine, PortType
<1>7. tx_fifo_count(taken.port) = 1
  BY <1>1, <1>6 DEF tx_fifo_count, HoldsStop, PortType
<1>8. HandleReceive(Machine, TRUE) = IF all_done(taken.drv.buff) THEN over ELSE taken
  BY <1>7 DEF HandleReceive, Machine
<1> HIDE DEF taken, d
<1>9. ServiceInterrupt(Machine) = IF all_done(taken.drv.buff) THEN over ELSE taken
  <2>1. \A m : HandleTransmit(m, FALSE) = m
    BY DEF HandleTransmit
  <2> HIDE DEF over
  <2> QED
    BY <1>2, <1>3, <1>8, <2>1 DEF ServiceInterrupt, Machine
<1>10. /\ drv' = IF all_done(taken.drv.buff) THEN [taken.drv EXCEPT !.state = "stopping"]
                                             ELSE taken.drv
       /\ port' = IF all_done(taken.drv.buff) THEN [taken.port EXCEPT !.MEN = FALSE]
                                              ELSE taken.port
  BY <1>9 DEF ISR, Becomes
<1>11. /\ port'.tx = port.tx /\ port'.rx = 0 /\ port'.MSR = {}
       /\ port'.TDIE = port.TDIE /\ port'.irq = port.irq
  BY <1>1, <1>6, <1>10 DEF PortType
<1>12. /\ drv'.ignore_tdf = taken.drv.ignore_tdf /\ drv'.buff = taken.drv.buff
       /\ drv'.error = taken.drv.error
       /\ drv'.state = IF all_done(taken.drv.buff) THEN "stopping" ELSE taken.drv.state
  BY <1>5, <1>10 DEF DriverType
<1> QED
  BY <1>4, <1>5, <1>11, <1>12

\* The queue has run empty during a write: it is filled again...
LEMMA FillService ==
    ASSUME Inv, port.MSR = {}, port.rx = 0, port.tx = <<>>, ~drv.ignore_tdf,
           not_started(drv.buff) \/ drv.state = "transferring", ~all_done(drv.buff)
    PROVE  \E run \in Seq(Command) :
              /\ run # <<>> /\ HoldsTransmits(run)
              /\ ServiceInterrupt(Machine) =
                   [drv  |-> [Begun(drv) EXCEPT !.buff = read(@, Len(run))],
                    port |-> [port EXCEPT !.tx = run]]
<1>1. drv \in DriverType /\ port \in PortType /\ drv.buff \in Buffer
      /\ drv.buff.next_index <= drv.buff.size
  BY DEF Inv, TypeOK, BufferInBounds, DriverType
<1> DEFINE left == bytes_left(drv.buff)
           k == IF left < FifoSize THEN left ELSE FifoSize
           run == [i \in 1..k |-> TRANSMIT]
           d == Begun(drv)
           filled == FillFifo([drv |-> d, port |-> port])
<1>2. RDF(port) = FALSE /\ TDF(port) = TRUE
  BY DEF RDF, TDF
<1>3. HandleReceive(HandleStop(HandleErrors(Machine, port.MSR), port.MSR), FALSE) = Machine
  BY DEF HandleErrors, HandleStop, HandleReceive
<1>4. d.buff = drv.buff /\ d.ignore_tdf = drv.ignore_tdf /\ d.state = "transferring"
  BY <1>1, BegunFacts
<1>5. k \in Nat /\ k > 0
  BY <1>1, HardwareAssumption DEF bytes_left, all_done, Buffer
<1>6. /\ run \in Seq(Command) /\ Len(run) = k /\ HoldsTransmits(run)
  <2>1. run \in Seq(Command) /\ Len(run) = k
    BY <1>5, TransmitRun
  <2>2. \A i \in 1..k : run[i] = TRANSMIT
    OBVIOUS
  <2> HIDE DEF run
  <2> QED
    BY <2>1, <2>2 DEF HoldsTransmits
<1> HIDE DEF run
<1>7. filled = [drv |-> [d EXCEPT !.buff = read(@, k)], port |-> [port EXCEPT !.tx = run]]
  <2>1. FifoSize - tx_fifo_count(port) = FifoSize
    BY EmptySeq, HardwareAssumption DEF tx_fifo_count
  <2>2. TransmitK(port, k) = [port EXCEPT !.tx = <<>> \o run]
    BY <1>1 DEF TransmitK, PortType, run
  <2>3. <<>> \o run = run
    BY <1>6, ConcatEmptySeq
  <2> HIDE DEF d
  <2> QED
    BY <1>4, <2>1, <2>2, <2>3 DEF FillFifo
<1>8. tx_fifo_count(filled.port) # 0
  BY <1>1, <1>5, <1>6, <1>7 DEF tx_fifo_count, PortType
<1>9. ServiceInterrupt(Machine) = filled
  <2>1. [Machine EXCEPT !.drv = Begun(@)] = [drv |-> d, port |-> port]
    BY DEF Machine
  <2>2. HandleTransmit(Machine, TRUE) = filled
    <3> HIDE DEF d, filled
    <3> QED
      BY <1>4, <1>8, <2>1 DEF HandleTransmit, Machine, filled
  <2> HIDE DEF filled
  <2> QED
    BY <1>2, <1>3, <2>2 DEF ServiceInterrupt, Machine
<1>10. run # <<>>
  BY <1>5, <1>6, EmptyFacts
<1> HIDE DEF d, filled, k
<1> QED
  BY <1>6, <1>7, <1>9, <1>10 DEF d

LEMMA ISRFill ==
    ASSUME Inv, ISR, port.MSR = {}, port.rx = 0, port.tx = <<>>, ~drv.ignore_tdf,
           not_started(drv.buff) \/ drv.state = "transferring", ~all_done(drv.buff)
    PROVE  /\ drv'.state = "transferring" /\ drv'.ignore_tdf = drv.ignore_tdf
           /\ drv'.stop_on_completion = drv.stop_on_completion
           /\ drv'.error = IF not_started(drv.buff) THEN "ok" ELSE drv.error
           /\ drv'.buff.size = drv.buff.size
           /\ drv'.buff.next_index = drv.buff.next_index + Len(port'.tx)
           /\ port'.tx # <<>> /\ HoldsTransmits(port'.tx)
           /\ port'.rx = 0 /\ port'.MSR = {} /\ port'.TDIE = port.TDIE /\ port'.irq = port.irq
<1>1. drv \in DriverType /\ port \in PortType /\ drv.buff \in Buffer
  BY DEF Inv, TypeOK, DriverType
<1> DEFINE d == Begun(drv)
<1>2. /\ d \in DriverType /\ d.buff = drv.buff /\ d.ignore_tdf = drv.ignore_tdf
      /\ d.stop_on_completion = drv.stop_on_completion
      /\ d.error = IF not_started(drv.buff) THEN "ok" ELSE drv.error
      /\ d.state = "transferring"
  BY <1>1, BegunFacts
<1>3. PICK run \in Seq(Command) :
         /\ run # <<>> /\ HoldsTransmits(run)
         /\ ServiceInterrupt(Machine) = [drv  |-> [Begun(drv) EXCEPT !.buff = read(@, Len(run))],
                                         port |-> [port EXCEPT !.tx = run]]
  BY FillService
<1>4. drv' = [d EXCEPT !.buff = read(@, Len(run))] /\ port' = [port EXCEPT !.tx = run]
  BY <1>3 DEF ISR, Becomes
<1> HIDE DEF d
<1>5. /\ drv'.buff = read(d.buff, Len(run)) /\ drv'.state = d.state /\ drv'.error = d.error
      /\ drv'.ignore_tdf = d.ignore_tdf /\ drv'.stop_on_completion = d.stop_on_completion
  BY <1>2, <1>4 DEF DriverType
<1>6. /\ port'.tx = run /\ port'.rx = port.rx /\ port'.MSR = port.MSR
      /\ port'.TDIE = port.TDIE /\ port'.irq = port.irq
  BY <1>1, <1>4 DEF PortType
<1>7. drv'.buff.size = drv.buff.size /\ drv'.buff.next_index = drv.buff.next_index + Len(run)
  BY <1>1, <1>2, <1>5 DEF read, Buffer
<1> QED
  BY <1>2, <1>3, <1>5, <1>6, <1>7

\* ... or, when the last byte has been taken, the STOP is queued.
LEMMA EndOfWriteService ==
    ASSUME Inv, port.MSR = {}, port.rx = 0, port.tx = <<>>, ~drv.ignore_tdf,
           drv.stop_on_completion, ~not_started(drv.buff), drv.state = "transferring",
           all_done(drv.buff)
    PROVE  ServiceInterrupt(Machine) = EndOfWrite(Machine)
<1>1. drv \in DriverType /\ port \in PortType /\ drv.buff \in Buffer
  BY DEF Inv, TypeOK, DriverType
<1>2. RDF(port) = FALSE /\ TDF(port) = TRUE
  BY DEF RDF, TDF
<1>3. HandleReceive(HandleStop(HandleErrors(Machine, port.MSR), port.MSR), FALSE) = Machine
  BY DEF HandleErrors, HandleStop, HandleReceive
<1>4. [Machine EXCEPT !.drv = Begun(@)] = Machine
  BY DEF Begun, Machine
<1> DEFINE none == [i \in 1..0 |-> TRANSMIT]
<1>5. FillFifo(Machine) = [drv |-> [drv EXCEPT !.buff = read(@, 0)],
                           port |-> [port EXCEPT !.tx = port.tx \o none]]
  <2>1. FifoSize - tx_fifo_count(port) = FifoSize /\ 0 < FifoSize
    BY EmptySeq, HardwareAssumption DEF tx_fifo_count
  <2>2. bytes_left(drv.buff) = 0
    BY <1>1 DEF bytes_left, all_done, Buffer
  <2> QED
    BY <1>1, <2>1, <2>2 DEF FillFifo, Machine, TransmitK, PortType
<1>6. FillFifo(Machine) = Machine
  <2>1. none \in Seq(Command) /\ Len(none) = 0
    BY TransmitRun
  <2>2. none = <<>>
    <3> HIDE DEF none
    <3> QED
      BY <2>1, EmptyFacts
  <2> HIDE DEF none
  <2>3. port.tx \o none = port.tx
    BY <1>1, <2>2, EmptySeq, ConcatEmptySeq
  <2>4. [port EXCEPT !.tx = port.tx \o none] = port
    BY <1>1, <2>3 DEF PortType
  <2>5. read(drv.buff, 0) = drv.buff
    BY <1>1 DEF read, Buffer
  <2>6. [drv EXCEPT !.buff = read(@, 0)] = drv
    BY <1>1, <2>5 DEF DriverType
  <2> QED
    BY <1>5, <2>4, <2>6 DEF Machine
<1> QED
  <2>1. tx_fifo_count(port) = 0
    BY EmptySeq DEF tx_fifo_count
  <2>2. HandleTransmit(Machine, TRUE) = EndOfWrite(Machine)
    BY <1>4, <1>6, <2>1 DEF HandleTransmit, Machine
  <2> QED
    BY <1>2, <1>3, <2>2 DEF ServiceInterrupt, Machine

LEMMA ISREndOfWrite ==
    ASSUME Inv, ISR, port.MSR = {}, port.rx = 0, port.tx = <<>>, ~drv.ignore_tdf,
           drv.stop_on_completion, ~not_started(drv.buff), drv.state = "transferring",
           all_done(drv.buff)
    PROVE  /\ drv'.state = "stopping" /\ drv'.error = drv.error /\ SameOwner
           /\ HoldsStop(port'.tx) /\ port'.rx = 0 /\ port'.MSR = {} /\ ~port'.TDIE
<1>1. drv \in DriverType /\ port \in PortType
  BY DEF Inv, TypeOK
<1> DEFINE p == [port EXCEPT !.TDIE = FALSE, !.MEN = FALSE]
<1>2. drv' = [drv EXCEPT !.state = "stopping"] /\ port' = Push(p, STOP)
  BY EndOfWriteService DEF EndOfWrite, Machine, ISR, Becomes
<1>3. /\ p \in PortType /\ p.tx = <<>> /\ p.TDIE = FALSE /\ p.MSR = {} /\ p.rx = 0
      /\ p.irq = port.irq
  BY <1>1 DEF PortType
<1> HIDE DEF p
<1>4. port' = [p EXCEPT !.tx = Append(<<>>, STOP)]
  BY <1>2, <1>3, PushEmpty, StopCommand
<1> QED
  BY <1>1, <1>2, <1>3, <1>4, StopFacts DEF DriverType, PortType, SameOwner

------------------------------------------------------------------------------
(***************************************************************************)
(* The ISR keeps the invariant.                                            *)
(***************************************************************************)
\* The driver and the port after an interrupt that has been dealt with.
LEMMA ISRCommon ==
    ASSUME Common, ISR, port'.MSR = {},
           drv'.state # "transfer_complete", drv'.error # "master_fifos_not_empty"
    PROVE  Common'
<1>1. UNCHANGED <<bus, caller>> /\ Interrupt(port)
  BY DEF ISR
<1>2. ~(caller.pc = "idle" /\ caller.answer = "none")
  BY <1>1 DEF Common, Rest, Interrupt, RDF
<1> QED
  BY <1>1, <1>2 DEF Common

LEMMA RestISR ==
    ASSUME Inv, OutcomeInv, Rest, ISR
    PROVE  /\ Rest' /\ OutcomeInv' /\ port.MSR = {"SDF"}
           /\ drv'.state = "stopped" /\ drv'.error = drv.error /\ drv'.buff = drv.buff
<1>1. UNCHANGED <<bus, caller>> /\ Interrupt(port)
  BY DEF ISR
<1>2. port.MSR = {"SDF"} /\ port.irq /\ caller.pc \in {"idle", "abort"} /\ CannotBegin
  BY <1>1 DEF Rest, Interrupt, RDF
<1>3. /\ drv'.state = "stopped" /\ drv'.error = drv.error
      /\ port'.tx = <<>> /\ port'.rx = 0 /\ port'.MSR = {} /\ ~port'.TDIE
      /\ SameOwner
  BY <1>2, ISRStop DEF Rest
<1>4. Rest'
  BY <1>1, <1>2, <1>3 DEF Rest, SameOwner, CannotBegin
<1>5. Common'
  BY <1>3, ISRCommon DEF OutcomeInv, Common
<1>6. Accepted => Truthful'
  <2> SUFFICES ASSUME Accepted PROVE Truthful'
    OBVIOUS
  <2>1. Truthful
    BY DEF OutcomeInv
  <2>2. Account => Account'
    BY <1>1, <1>3 DEF Account, InFlight, SameOwner, Rest
  <2>3. bus.phase = "idle" /\ ~(bus.owed > 0)
    BY DEF Rest, OutcomeInv, Common
  <2> QED
    BY <1>1, <1>2, <1>3, <2>1, <2>2, <2>3 DEF Truthful
<1> QED
  BY <1>1, <1>2, <1>3, <1>4, <1>5, <1>6 DEF OutcomeInv, Situation, Accepted, SameOwner

\* The address is on the wire and the first bytes are wanted.
LEMMA StartedISR ==
    ASSUME Inv, OutcomeInv, Started, ISR
    PROVE  OutcomeInv' /\ Writing' /\ drv'.buff # drv.buff
<1>1. UNCHANGED <<bus, caller>> /\ Interrupt(port)
  BY DEF ISR
<1>2. port.TDIE /\ port.tx = <<>> /\ port.MSR = {} /\ port.rx = 0
  BY <1>1 DEF Started, Interrupt, RDF, TDF
<1>3. bus.phase = "address" /\ bus.moved = 0 /\ bus.nak = "none" /\ ReadyToWrite(port.tx)
  <2>1. bus.phase = "address" /\ bus.moved = 0 /\ bus.nak = "none" /\ StartedWith(port.tx)
    BY <1>2 DEF Started, Queued, BehindStart
  <2>2. ~HoldsReceive(port.tx, caller.n) /\ ~HoldsStop(port.tx)
        /\ ~HoldsRead(port.tx, drv.buff.size)
    BY <1>2, EmptySeq DEF HoldsReceive, HoldsRead, HoldsStop
  <2> QED
    BY <1>2, <2>1, <2>2 DEF StartedWith, ToArm, ToEnable, ToReceive, ToPushStop, ReadyToRead,
                            ReadyToProbe
<1>4. /\ drv.buff.next_index = 0 /\ drv.buff.size > 0
      /\ not_started(drv.buff) /\ ~all_done(drv.buff)
  BY <1>3 DEF ReadyToWrite, Loaded, initialise, not_started, all_done
<1>5. /\ drv'.state = "transferring" /\ drv'.ignore_tdf = drv.ignore_tdf
      /\ drv'.stop_on_completion = drv.stop_on_completion
      /\ drv'.error = "ok"
      /\ drv'.buff.size = drv.buff.size
      /\ drv'.buff.next_index = drv.buff.next_index + Len(port'.tx)
      /\ port'.tx # <<>> /\ HoldsTransmits(port'.tx)
      /\ port'.rx = 0 /\ port'.MSR = {} /\ port'.TDIE = port.TDIE /\ port'.irq = port.irq
  BY <1>2, <1>3, <1>4, ISRFill DEF ReadyToWrite
<1>6. Len(port'.tx) \in Nat \ {0} /\ port'.tx \in Seq(Command)
  <2>1. Inv'
    BY ISRKeepsInv
  <2> QED
    BY <1>5, <2>1, EmptyFacts DEF Inv, TypeOK, PortType
<1>7. Writing'
  BY <1>1, <1>2, <1>3, <1>4, <1>5, <1>6 DEF Writing, Started, ReadyToWrite, InFlight, Accepted
<1>8. Common'
  BY <1>5, ISRCommon DEF OutcomeInv
<1>9. ~Rest' /\ ~Winding'
  BY <1>1, <1>2, <1>3, <1>5 DEF Rest, Winding
<1> QED
  BY <1>4, <1>5, <1>6, <1>7, <1>8, <1>9 DEF OutcomeInv, Situation

\* A NACK, whatever the transfer was.
LEMMA NakISR ==
    ASSUME Inv, Common, ISR, port.MSR = {"NDF"}, port.rx = 0, port.tx # <<>>,
           caller.pc \in {"idle", "abort"}, port.irq, CannotBegin, bus.phase = "nacked", bus.nak # "none",
           drv.state = "stopping" => HoldsStop(port.tx) /\ ~port.TDIE
    PROVE  Winding' /\ OutcomeInv'
<1>1. UNCHANGED <<bus, caller>>
  BY DEF ISR
<1>2. /\ drv'.state = "stopping" /\ drv'.error \in {"address_nak", "data_nak"}
      /\ HoldsStop(port'.tx) /\ port'.rx = 0 /\ port'.MSR = {} /\ ~port'.TDIE
      /\ SameOwner
  BY ISRNak DEF Common, MBF
<1>3. Winding'
  BY <1>1, <1>2 DEF Winding, SameOwner, CannotBegin
<1>4. Common'
  BY <1>2, ISRCommon
<1>5. Truthful'
  BY <1>1, <1>2 DEF Truthful, Common
<1> QED
  BY <1>3, <1>4, <1>5 DEF OutcomeInv, Situation

\* Lost arbitration, whatever the transfer was.
LEMMA LostISR ==
    ASSUME Inv, Common, ISR, port.MSR = {"ALF"}, port.rx = 0, port.tx # <<>>,
           caller.pc \in {"idle", "abort"}, port.irq, CannotBegin, bus.phase = "idle",
           Accepted => bus.nak = "none",
           drv.state = "stopping" => HoldsStop(port.tx) /\ ~port.TDIE
    PROVE  OutcomeInv'
<1>1. UNCHANGED <<bus, caller>>
  BY DEF ISR
<1>2. /\ drv'.state = "stopping" /\ drv'.error = "arbitration_lost"
      /\ port'.rx = 0 /\ port'.MSR = {} /\ SameOwner
      /\ drv.state = "stopping" => port'.tx = port.tx /\ port'.TDIE = port.TDIE
      /\ drv.state # "stopping" => port'.tx = <<>> /\ ~port'.TDIE
  BY ISRLost DEF Common, MBF
<1>3. Rest' \/ Winding'
  BY <1>1, <1>2 DEF Rest, Winding, SameOwner, CannotBegin
<1>4. Common'
  BY <1>2, ISRCommon
<1>5. Accepted => Truthful'
  BY <1>1, <1>2 DEF Truthful, Common
<1> QED
  BY <1>1, <1>3, <1>4, <1>5 DEF OutcomeInv, Situation, Accepted

LEMMA WritingISR ==
    ASSUME Inv, OutcomeInv, Writing, ISR
    PROVE  OutcomeInv'
<1>1. UNCHANGED <<bus, caller>> /\ Interrupt(port)
  BY DEF ISR
<1>2. CASE port.MSR = {}
  <2>1. /\ port.tx = <<>> /\ bus.phase = "sending" /\ Len(port.tx) = 0
        /\ bus.nak = "none" /\ bus.moved + 1 = drv.buff.next_index
    <3>1. port.tx = <<>>
      BY <1>1, <1>2 DEF Writing, Interrupt, RDF, TDF
    <3>2. Len(port.tx) = 0 /\ bus.moved \in Nat
      BY <3>1, EmptySeq DEF Inv, TypeOK, BusType
    <3> QED
      BY <1>2, <3>1, <3>2 DEF Writing, InFlight
  <2>2. ~not_started(drv.buff) /\ drv.buff.next_index > 0
    BY DEF Writing, not_started
  <2>3. CASE ~all_done(drv.buff)
    <3>1. /\ drv'.state = "transferring" /\ drv'.ignore_tdf = drv.ignore_tdf
          /\ drv'.stop_on_completion = drv.stop_on_completion
          /\ drv'.error = drv.error
          /\ drv'.buff.size = drv.buff.size
          /\ drv'.buff.next_index = drv.buff.next_index + Len(port'.tx)
          /\ port'.tx # <<>> /\ HoldsTransmits(port'.tx)
          /\ port'.rx = 0 /\ port'.MSR = {} /\ port'.TDIE = port.TDIE /\ port'.irq = port.irq
      BY <1>2, <2>1, <2>2, <2>3, ISRFill DEF Writing
    <3>2. Len(port'.tx) \in Nat /\ drv.buff.next_index \in Nat /\ bus.moved \in Nat
      <4>1. Inv'
        BY ISRKeepsInv
      <4> QED
        BY <4>1, EmptyFacts DEF Inv, TypeOK, PortType, DriverType, Buffer, BusType
    <3>3. Writing'
      BY <1>1, <2>1, <2>2, <3>1, <3>2 DEF Writing, InFlight, Accepted
    <3>4. Common'
      BY <3>1, ISRCommon DEF OutcomeInv, Common
    <3>5. ~Rest' /\ ~Winding'
      BY <3>1 DEF Rest, Winding, Writing
    <3> QED
      BY <3>3, <3>4, <3>5 DEF OutcomeInv, Situation
  <2>4. CASE all_done(drv.buff)
    <3>1. /\ drv'.state = "stopping" /\ drv'.error = drv.error /\ SameOwner
          /\ HoldsStop(port'.tx) /\ port'.rx = 0 /\ port'.MSR = {} /\ ~port'.TDIE
      BY <1>2, <2>1, <2>2, <2>4, ISREndOfWrite DEF Writing
    <3>2. Winding'
      BY <1>1, <2>1, <2>2, <3>1 DEF Winding, Writing, CannotBegin, SameOwner
    <3>3. Common'
      BY <3>1, ISRCommon DEF OutcomeInv, Common
    <3>4. Accepted => Truthful'
      <4> SUFFICES ASSUME Accepted PROVE Truthful'
        OBVIOUS
      <4>1. drv.buff.size = caller.n /\ drv.buff.next_index = caller.n /\ drv.error = "ok"
        BY <2>4 DEF Writing, all_done
      <4>2. bus.owed = 0
        BY <2>1 DEF OutcomeInv, Common, Inv, TypeOK, BusType
      <4>3. drv.buff.next_index \in Nat /\ bus.moved \in Nat
        BY DEF Inv, TypeOK, DriverType, Buffer, BusType
      <4>4. Account'
        BY <1>1, <2>1, <3>1, <4>1, <4>2, <4>3 DEF Account, InFlight, SameOwner
      <4> QED
        BY <1>1, <2>1, <3>1, <4>1, <4>2, <4>4 DEF Truthful
    <3> QED
      BY <1>1, <3>2, <3>3, <3>4 DEF OutcomeInv, Situation, Accepted
  <2> QED
    BY <2>3, <2>4
<1>3. CASE port.MSR # {}
  <2>1. PICK flag \in {"NDF", "ALF"} : port.MSR = {flag} /\ FailedWith(flag)
    BY <1>3 DEF Writing
  <2>2. port.tx # <<>> /\ CannotBegin
    BY <2>1 DEF Writing, FailedWith, CannotBegin
  <2>3. CASE flag = "NDF"
    BY <2>1, <2>2, <2>3, NakISR DEF FailedWith, Writing, OutcomeInv
  <2>4. CASE flag = "ALF"
    BY <2>1, <2>2, <2>4, LostISR DEF FailedWith, Writing, OutcomeInv
  <2> QED
    BY <2>3, <2>4
<1> QED
  BY <1>2, <1>3

LEMMA ReadingISR ==
    ASSUME Inv, OutcomeInv, Reading, ISR
    PROVE  OutcomeInv'
<1>1. port.MSR # {}
  BY DEF Reading, ISR, Interrupt, RDF
<1>2. PICK flag \in {"NDF", "ALF"} : port.MSR = {flag} /\ FailedWith(flag)
  BY <1>1 DEF Reading
<1>3. port.tx # <<>> /\ CannotBegin
  BY EmptySeq DEF Reading, HoldsRead, CannotBegin
<1>4. CASE flag = "NDF"
  BY <1>2, <1>3, <1>4, NakISR DEF FailedWith, Reading, OutcomeInv
<1>5. CASE flag = "ALF"
  BY <1>2, <1>3, <1>5, LostISR DEF FailedWith, Reading, OutcomeInv
<1> QED
  BY <1>4, <1>5

\* A byte that was asked for arrives.
LEMMA ByteISR ==
    ASSUME Inv, OutcomeInv, Winding, port.rx = 1, ISR
    PROVE  OutcomeInv' /\ Winding'
<1>1. UNCHANGED <<bus, caller>>
  BY DEF ISR
<1>2. /\ port.MSR = {} /\ drv.ignore_tdf /\ HoldsStop(port.tx) /\ ~port.TDIE /\ port.irq
      /\ bus.phase \in {"ready", "receiving"} /\ caller.pc \in {"idle", "abort"}
  BY DEF Winding
<1>3. /\ port'.tx = port.tx /\ port'.rx = 0 /\ port'.MSR = {}
      /\ port'.TDIE = port.TDIE /\ port'.irq = port.irq /\ drv'.ignore_tdf
      /\ drv'.buff = IF not_started(drv.buff) \/ drv.state = "transferring"
                     THEN write(drv.buff) ELSE drv.buff
      /\ drv'.error = IF not_started(drv.buff) THEN "ok" ELSE drv.error
      /\ drv'.state = IF all_done(drv'.buff) THEN "stopping"
                      ELSE IF not_started(drv.buff) THEN "transferring" ELSE drv.state
  BY <1>2, ISRByte
<1>4. Winding'
  BY <1>1, <1>2, <1>3 DEF Winding, CannotBegin, Accepted
<1>5. Common'
  <2>1. drv'.state # "transfer_complete" /\ drv'.error # "master_fifos_not_empty"
    BY <1>3 DEF OutcomeInv, Common
  <2> QED
    BY <1>3, <2>1, ISRCommon DEF OutcomeInv
<1>6. Accepted => Truthful'
  <2> SUFFICES ASSUME Accepted PROVE Truthful'
    OBVIOUS
  <2>1. Truthful /\ drv.error = "ok"
    BY <1>2 DEF OutcomeInv, Truthful
  <2>2. Account
    BY <1>2, <2>1 DEF Truthful
  <2>3. drv.buff \in Buffer /\ drv.buff.next_index <= drv.buff.size /\ bus.owed \in Nat
        /\ bus.moved \in Nat /\ caller.n \in Nat
    BY HardwareAssumption DEF Inv, TypeOK, BufferInBounds, DriverType, BusType, CallerType
  <2>4. caller.n > 0
    <3>1. bus.moved + bus.owed = caller.n
      BY <1>2, <2>2, <2>3 DEF Account, InFlight
    <3>2. caller.n = 0 => FALSE
      <4>1. bus.phase = "receiving" => bus.owed > 0
        BY DEF OutcomeInv, Common
      <4> QED
        BY <1>2, <2>2, <2>3, <3>1, <4>1 DEF Account
    <3> QED
      BY <2>3, <3>2
  <2>5. drv.buff.size = caller.n /\ drv.buff.next_index + 1 + bus.owed = caller.n
    BY <2>2, <2>4 DEF Account
  <2>6. /\ drv'.buff.size = drv.buff.size
        /\ drv'.buff.next_index = drv.buff.next_index + 1
    <3>1. ~all_done(drv.buff)
      BY <2>3, <2>5 DEF all_done, Buffer
    <3>2. drv'.buff = write(drv.buff)
      BY <1>3, <2>1 DEF Truthful, not_started
    <3> QED
      BY <2>3, <3>1, <3>2 DEF write, Buffer
  <2>7. Account'
    BY <1>1, <1>2, <1>3, <2>2, <2>3, <2>5, <2>6 DEF Account, InFlight, Buffer
  <2>8. bus.owed > 0 => drv'.state = "transferring"
    <3>1. bus.owed > 0 => ~all_done(drv'.buff)
      BY <2>3, <2>5, <2>6 DEF all_done, Buffer
    <3> QED
      BY <1>3, <2>1, <3>1 DEF Truthful, not_started
  <2> QED
    BY <1>1, <1>3, <2>1, <2>2, <2>7, <2>8 DEF Truthful, Account
<1> QED
  BY <1>1, <1>4, <1>5, <1>6 DEF OutcomeInv, Situation, Accepted

LEMMA WindingISR ==
    ASSUME Inv, OutcomeInv, Winding, ISR
    PROVE  OutcomeInv'
<1>1. CASE port.rx = 1
  BY <1>1, ByteISR
<1>2. CASE port.rx # 1
  <2>1. port.rx = 0 /\ port.MSR # {}
    BY <1>2 DEF Winding, ISR, Interrupt, RDF
  <2>2. PICK flag \in {"NDF", "ALF"} :
            port.MSR = {flag} /\ bus.phase = (IF flag = "NDF" THEN "nacked" ELSE "idle")
    BY <2>1 DEF Winding
  <2>3. HoldsStop(port.tx) /\ port.tx # <<>> /\ CannotBegin /\ caller.pc \in {"idle", "abort"} /\ port.irq
        /\ ~port.TDIE
    BY <2>1, <2>2, EmptySeq DEF Winding, HoldsStop
  <2>4. CASE flag = "ALF"
    <3>1. Accepted => bus.nak = "none"
      BY <2>2, <2>4 DEF OutcomeInv, Truthful
    <3> QED
      BY <2>1, <2>2, <2>3, <2>4, <3>1, LostISR DEF OutcomeInv
  <2>5. CASE flag = "NDF"
    <3>1. UNCHANGED <<bus, caller>>
      BY DEF ISR
    <3>2. /\ drv'.state = "stopping" /\ drv'.error \in {"address_nak", "data_nak"}
          /\ HoldsStop(port'.tx) /\ port'.rx = 0 /\ port'.MSR = {} /\ ~port'.TDIE
          /\ SameOwner
      BY <2>1, <2>2, <2>3, <2>5, ISRNak DEF OutcomeInv, Common, MBF
    <3>3. Winding'
      BY <2>2, <2>3, <2>5, <3>1, <3>2 DEF Winding, SameOwner, CannotBegin
    <3>4. Common'
      BY <3>2, ISRCommon DEF OutcomeInv
    <3>5. Truthful'
      BY <2>2, <2>5, <3>1, <3>2 DEF Truthful, OutcomeInv, Common
    <3> QED
      BY <3>3, <3>4, <3>5 DEF OutcomeInv, Situation
  <2> QED
    BY <2>4, <2>5
<1> QED
  BY <1>1, <1>2

LEMMA ISRKeepsOutcome == Inv /\ OutcomeInv /\ ISR => OutcomeInv'
BY RestISR, StartedISR, WritingISR, ReadingISR, WindingISR DEF OutcomeInv, Situation

------------------------------------------------------------------------------
(***************************************************************************)
(* The steps of the caller's thread keep the invariant.                    *)
(***************************************************************************)
\* A thread that is not interrupted has no flag and no byte to see.
LEMMA Uninterrupted ==
    ASSUME Inv, OutcomeInv, ~Interrupt(port), port.irq
    PROVE  /\ port.MSR = {} /\ port.rx = 0 /\ (port.TDIE => port.tx # <<>>)
<1>1. port.MSR = {} /\ ~RDF(port) /\ ~(port.TDIE /\ TDF(port))
  BY DEF Interrupt
<1>2. port.rx \in Nat
  BY HardwareAssumption DEF Inv, TypeOK, PortType
<1> QED
  BY <1>1, <1>2 DEF RDF, TDF

\* A thread inside a call is always met with the port's interrupt enabled.
LEMMA InCallEnabled ==
    ASSUME OutcomeInv, caller.pc # "idle"
    PROVE  port.irq
BY DEF OutcomeInv, Situation, Rest, Started, Writing, Reading, Winding

\* begin() and end() leave everything at rest, whatever was going on.
LEMMA RestartOutcome ==
    ASSUME Inv, OutcomeInv, begin \/ end
    PROVE  OutcomeInv' /\ Rest'
<1>1. /\ port'.tx = <<>> /\ port'.rx = 0 /\ port'.MSR = {} /\ ~port'.TDIE
      /\ bus'.phase = "idle" /\ bus'.moved = 0 /\ bus'.owed = 0 /\ bus'.pin_low = bus.pin_low
  BY DEF begin, end, ResetPort, IdleBus
<1>2. caller'.pc = "idle" /\ caller'.stop = TRUE /\ caller'.answer = "none" /\ drv' = drv
  BY DEF begin, end, At, Inv, TypeOK, CallerType, OutcomeInv, Common
<1>3. Rest'
  BY <1>1, <1>2 DEF Rest
<1>4. Common'
  BY <1>1, <1>2, <1>3 DEF Common, OutcomeInv
<1> QED
  BY <1>2, <1>3, <1>4 DEF OutcomeInv, Situation, Accepted

\* A read that is too long spoils the error, and nothing else.
LEMMA RefuseReadOutcome ==
    ASSUME PromptSystem, Inv, OutcomeInv, RefuseRead
    PROVE  OutcomeInv'
<1>1. /\ caller.pc = "idle" /\ caller'.pc = "idle" /\ caller'.answer = "refused"
      /\ caller'.stop = TRUE /\ UNCHANGED <<port, bus>>
  <2>1. PICK n \in Lengths, stop \in SendStop :
          caller' = [pc |-> "idle", op |-> "read", n |-> n, stop |-> stop, answer |-> "refused"]
    BY Zenon DEF RefuseRead
  <2>2. stop = TRUE
    BY DEF PromptSystem
  <2> QED
    BY <2>1, <2>2 DEF RefuseRead, MayCall, At
<1>2. /\ drv'.error = "invalid_request" /\ drv'.state = drv.state /\ drv'.buff = drv.buff
      /\ drv'.ignore_tdf = drv.ignore_tdf /\ drv'.stop_on_completion = drv.stop_on_completion
  BY DEF RefuseRead, Inv, TypeOK, DriverType
<1>3. Common'
  BY <1>1, <1>2 DEF Common, OutcomeInv
<1>4. Situation'
  <2>1. CASE Rest
    BY <1>1, <1>2, <2>1 DEF Rest, Situation, CannotBegin
  <2>2. CASE Started
    <3>1. StartedWith(BehindStart)'
      BY <1>1, <1>2, <2>2 DEF Started, StartedWith, ToArm, ToEnable, ToReceive, ToPushStop,
            ReadyToWrite, ReadyToRead, ReadyToProbe, Loaded, Accepted, BehindStart
    <3> QED
      BY <1>1, <1>2, <2>2, <3>1 DEF Started, Situation, Queued
  <2>3. CASE Writing
    BY <1>1, <1>2, <2>3 DEF Writing, Situation, InFlight, FailedWith, Accepted
  <2>4. CASE Reading
    BY <1>1, <1>2, <2>4 DEF Reading, Situation, FailedWith, Loaded, Accepted
  <2>5. CASE Winding
    BY <1>1, <1>2, <2>5 DEF Winding, Situation, CannotBegin, Accepted
  <2> QED
    BY <2>1, <2>2, <2>3, <2>4, <2>5 DEF OutcomeInv, Situation
<1> QED
  BY <1>1, <1>3, <1>4 DEF OutcomeInv, Accepted

\* The driver is free only at rest.
LEMMA FinishedAtRest ==
    ASSUME Inv, OutcomeInv, caller.pc = "idle", finished, "ALF" \notin port.MSR
    PROVE  Rest /\ drv.state \in {"idle", "stopped"}
<1>1. drv.state \in {"idle", "stopped"} /\ bus.phase = "idle"
  BY DEF finished, MBF, OutcomeInv, Common
<1>2. ~Started /\ ~Writing /\ ~Reading
  BY <1>1 DEF Started, Writing, Reading
<1>3. ~Winding
  BY <1>1 DEF Winding
<1> QED
  BY <1>1, <1>2, <1>3 DEF OutcomeInv, Situation

LEMMA StartCallOutcome ==
    ASSUME PromptSystem, Inv, OutcomeInv, StartCall
    PROVE  OutcomeInv'
<1>1. caller.pc = "idle" /\ port.irq /\ ~Interrupt(port) /\ UNCHANGED <<port, bus>>
  BY DEF StartCall, MayCall, At
<1>2. port.MSR = {} /\ Rest
  BY <1>1, Uninterrupted, FinishedAtRest DEF StartCall
<1>3. PICK op \in {"write", "read"}, n \in Lengths, stop \in SendStop :
        /\ op = "read" => n <= MAX_MASTER_READ_LENGTH
        /\ caller' = [pc |-> "start", op |-> op, n |-> n, stop |-> stop, answer |-> "none"]
        /\ drv' = [drv EXCEPT !.ignore_tdf = (op = "read"), !.error = "ok",
                              !.state = "starting"]
  BY Zenon DEF StartCall
<1>4. /\ caller'.pc = "start" /\ caller'.answer = "none" /\ caller'.stop = TRUE
      /\ drv'.state = "starting" /\ drv'.error = "ok"
      /\ (drv'.ignore_tdf <=> caller'.op = "read")
  BY <1>3 DEF PromptSystem, Inv, TypeOK, DriverType
<1>5. Rest'
  BY <1>1, <1>2, <1>4 DEF Rest
<1>6. Common'
  BY <1>1, <1>2, <1>4 DEF Common, OutcomeInv
<1> QED
  BY <1>4, <1>5, <1>6 DEF OutcomeInv, Situation, Accepted

\* A call that finds the driver busy has yet to do something about it.
LEMMA RejectCallOutcome ==
    ASSUME PromptSystem, Inv, OutcomeInv, RejectCall
    PROVE  OutcomeInv'
<1>1. /\ caller.pc = "idle" /\ port.irq /\ UNCHANGED <<port, bus, drv>>
      /\ caller'.pc = "abort" /\ caller'.answer = "refused" /\ caller'.stop = TRUE
  <2>1. PICK n \in Lengths, stop \in SendStop, op \in {"write", "read"} :
          caller' = [pc |-> "abort", op |-> op, n |-> n, stop |-> stop, answer |-> "refused"]
    BY Zenon DEF RejectCall
  <2>2. stop = TRUE
    BY DEF PromptSystem
  <2> QED
    BY <2>1, <2>2 DEF RejectCall, MayCall, At
<1>2. Common'
  BY <1>1 DEF Common, OutcomeInv
<1>3. Situation'
  <2>1. CASE Rest
    BY <1>1, <2>1 DEF Rest, Situation, CannotBegin
  <2>2. CASE Started
    <3>1. StartedWith(BehindStart)'
      BY <1>1, <2>2 DEF Started, StartedWith, ToArm, ToEnable, ToReceive, ToPushStop,
            ReadyToWrite, ReadyToRead, ReadyToProbe, Loaded, Accepted, BehindStart
    <3> QED
      BY <1>1, <2>2, <3>1 DEF Started, Situation, Queued
  <2>3. CASE Writing
    BY <1>1, <2>3 DEF Writing, Situation, InFlight, FailedWith, Accepted
  <2>4. CASE Reading
    BY <1>1, <2>4 DEF Reading, Situation, FailedWith, Loaded, Accepted
  <2>5. CASE Winding
    BY <1>1, <2>5 DEF Winding, Situation, CannotBegin, Accepted
  <2> QED
    BY <2>1, <2>2, <2>3, <2>4, <2>5 DEF OutcomeInv, Situation
<1> QED
  BY <1>1, <1>2, <1>3 DEF OutcomeInv, Accepted

\* The commands a refused call drops. The bus may need a STOP.
LEMMA AbortOutcome ==
    ASSUME Inv, OutcomeInv, Abort
    PROVE  OutcomeInv'
<1>1. caller.pc = "abort" /\ port.irq /\ ~Interrupt(port) /\ UNCHANGED <<bus, drv>>
  BY InCallEnabled DEF Abort, At
<1>2. port.MSR = {} /\ port.rx = 0 /\ (port.TDIE => port.tx # <<>>)
  BY <1>1, Uninterrupted
<1>3. /\ caller'.pc = (IF MBF THEN "abort_stop" ELSE "reject") /\ caller'.answer = "refused"
      /\ caller'.stop = caller.stop
  BY <1>1, <1>2 DEF Abort, Goto, NeedsStop, Inv, TypeOK, CallerType, OutcomeInv, Common
<1>4. port \in PortType /\ drv \in DriverType
  BY DEF Inv, TypeOK
<1>5. /\ port'.rx = 0 /\ port'.MSR = {} /\ ~port'.TDIE /\ port'.irq /\ port'.tx = <<>>
  BY <1>1, <1>2, <1>4 DEF Abort, Cleared, PortType
<1>6. Common'
  BY <1>1, <1>3, <1>5 DEF Common, OutcomeInv
<1>7. CASE ~MBF
  <2>1. Rest'
    BY <1>1, <1>3, <1>5, <1>7 DEF Rest, MBF
  <2> QED
    BY <1>3, <1>6, <2>1 DEF OutcomeInv, Situation, Accepted
<1>8. CASE MBF
  <2>1. CannotBegin /\ drv.state # "stopped" /\ (bus.phase = "receiving" => drv.ignore_tdf)
    <3>1. CASE Rest
      BY <1>8, <3>1 DEF Rest, MBF
    <3>2. CASE Started
      <4>1. bus.phase = "address" /\ StartedWith(port.tx)
        BY <1>8, <3>2 DEF Started, MBF, BehindStart
      <4>2. ~ReadyToWrite(port.tx)
        BY <1>2 DEF ReadyToWrite
      <4>3. drv.ignore_tdf
        BY <1>1, <4>1, <4>2 DEF StartedWith, ToArm, ToEnable, ToReceive, ToPushStop,
                                ReadyToRead, ReadyToProbe
      <4> QED
        BY <3>2, <4>3 DEF Started, CannotBegin
    <3>3. CASE Writing
      BY <1>2, <3>3 DEF Writing, CannotBegin
    <3>4. CASE Reading
      BY <3>4 DEF Reading, CannotBegin
    <3>5. CASE Winding
      BY <3>5 DEF Winding
    <3> QED
      BY <3>1, <3>2, <3>3, <3>4, <3>5 DEF OutcomeInv, Situation
  <2>2. Winding'
    BY <1>1, <1>3, <1>5, <1>8, <2>1 DEF Winding, MBF, CannotBegin, Accepted
  <2> QED
    BY <1>3, <1>6, <2>2 DEF OutcomeInv, Situation, Accepted
<1> QED
  BY <1>7, <1>8

LEMMA AbortStopOutcome ==
    ASSUME Inv, OutcomeInv, AbortStop
    PROVE  OutcomeInv'
<1>1. caller.pc = "abort_stop" /\ port.irq /\ ~Interrupt(port) /\ UNCHANGED <<bus, drv>>
  BY InCallEnabled DEF AbortStop, At
<1>2. port.MSR = {} /\ port.rx = 0 /\ port \in PortType
  BY <1>1, Uninterrupted DEF Inv, TypeOK
<1>3. caller'.pc = "reject" /\ caller'.answer = "refused" /\ caller'.stop = caller.stop
  BY <1>1 DEF AbortStop, Goto, Inv, TypeOK, CallerType, OutcomeInv, Common
<1>4. Winding
  BY <1>1 DEF OutcomeInv, Situation, Rest, Started, StartedWith, ToArm, ToEnable, ToReceive,
              ToPushStop, ReadyToWrite, ReadyToRead, ReadyToProbe, Writing, Reading
<1>5. port.tx = <<>> /\ ~port.TDIE /\ bus.phase # "idle"
  BY <1>1, <1>4 DEF Winding
<1>6. /\ HoldsStop(port'.tx) /\ port'.rx = 0 /\ port'.MSR = {} /\ ~port'.TDIE /\ port'.irq
  <2>1. Push(port, STOP) = [port EXCEPT !.tx = Append(<<>>, STOP)]
    BY <1>2, <1>5, PushEmpty, StopCommand
  <2> QED
    BY <1>1, <1>2, <1>5, <2>1, StopFacts DEF AbortStop, PortType
<1>7. Common'
  BY <1>1, <1>3, <1>6 DEF Common, OutcomeInv
<1>8. Winding'
  BY <1>1, <1>3, <1>4, <1>5, <1>6 DEF Winding, CannotBegin, Accepted
<1> QED
  BY <1>3, <1>7, <1>8 DEF OutcomeInv, Situation, Accepted

LEMMA RejectedOutcome ==
    ASSUME Inv, OutcomeInv, Rejected
    PROVE  OutcomeInv'
<1>1. /\ caller.pc = "reject" /\ ~Interrupt(port) /\ UNCHANGED <<port, bus>>
      /\ caller'.pc = "idle" /\ caller'.answer = "refused" /\ caller'.stop = caller.stop
  BY DEF Rejected, At, Return, Inv, TypeOK, CallerType
<1>2. /\ drv'.error = "master_not_ready" /\ drv'.state = "idle" /\ drv'.buff = drv.buff
      /\ drv'.ignore_tdf = drv.ignore_tdf
  BY DEF Rejected, Inv, TypeOK, DriverType
<1>3. port.MSR = {} /\ port.rx = 0
  BY <1>1, InCallEnabled, Uninterrupted
<1>4. Common'
  BY <1>1, <1>2 DEF Common, OutcomeInv
<1>5. Rest \/ Winding
  BY <1>1 DEF OutcomeInv, Situation, Started, StartedWith, ToArm, ToEnable, ToReceive, ToPushStop,
              ReadyToWrite, ReadyToRead, ReadyToProbe, Writing, Reading
<1>6. Rest => Rest'
  BY <1>1, <1>2, <1>3 DEF Rest
<1>7. Winding => Winding'
  BY <1>1, <1>2, <1>3 DEF Winding, CannotBegin, Accepted
<1> QED
  BY <1>1, <1>4, <1>5, <1>6, <1>7 DEF OutcomeInv, Situation, Accepted

\* start() finds the FIFOs empty and puts its START there.
LEMMA SendStartOutcome ==
    ASSUME Inv, OutcomeInv, SendStart
    PROVE  OutcomeInv' /\ Started' /\ drv' = drv /\ caller'.pc = "arm"
<1>1. caller.pc = "start" /\ ~Interrupt(port) /\ UNCHANGED bus
  BY DEF SendStart, At
<1>2. Rest /\ port.irq /\ port.MSR = {}
  <2>1. Rest
    BY <1>1 DEF OutcomeInv, Situation, Started, StartedWith, ToArm, ToEnable, ToReceive,
                ToPushStop, ReadyToWrite, ReadyToRead, ReadyToProbe, Writing, Reading, Winding
  <2> QED
    BY <1>1, <2>1 DEF Rest
<1> DEFINE on == [ClearFlags(port, LatchedFlags) EXCEPT !.MEN = TRUE]
           word == START(IF caller.op = "read" THEN MASTER_READ ELSE MASTER_WRITE)
<1>3. port' = Push(on, word) /\ UNCHANGED drv /\ caller' = [caller EXCEPT !.pc = "arm"]
  BY <1>2 DEF SendStart, Rest, Goto
<1>4. /\ on \in PortType /\ on.tx = <<>> /\ on.rx = 0 /\ on.MSR = {} /\ ~on.TDIE /\ on.irq
  BY <1>2 DEF ClearFlags, Inv, TypeOK, PortType, Rest
<1>5. word \in Command /\ word.cmd = "START"
  BY HardwareAssumption DEF START, MASTER_READ, MASTER_WRITE, Command
<1> HIDE DEF on, word
<1>6. /\ port' = [on EXCEPT !.tx = Append(<<>>, word)]
      /\ Append(<<>>, word) # <<>> /\ Head(Append(<<>>, word)) = word
      /\ Tail(Append(<<>>, word)) = <<>>
  <2>1. <<>> \in Seq(Command)
    BY EmptySeq
  <2>2. Append(<<>>, word) # <<>> /\ Head(Append(<<>>, word)) = word
        /\ Tail(Append(<<>>, word)) = <<>>
    BY <1>5, <2>1, AppendFacts, HeadTailAppend
  <2> QED
    BY <1>3, <1>4, <1>5, <2>2, PushEmpty
<1>7. /\ port'.tx # <<>> /\ Head(port'.tx) = word /\ Tail(port'.tx) = <<>>
      /\ port'.rx = 0 /\ port'.MSR = {} /\ ~port'.TDIE /\ port'.irq
  BY <1>4, <1>6 DEF PortType
<1>8. /\ caller'.pc = "arm" /\ caller'.op = caller.op /\ caller'.stop = caller.stop
      /\ caller'.answer = caller.answer
  BY <1>3 DEF Inv, TypeOK, CallerType
<1>9. Started'
  <2>1. StartedWith(BehindStart)'
    BY <1>1, <1>2, <1>3, <1>7, <1>8 DEF StartedWith, ToArm, Rest, BehindStart
  <2> QED
    BY <1>1, <1>2, <1>3, <1>5, <1>7, <1>8, <2>1 DEF Started, Rest, Queued
<1>10. Common'
  BY <1>1, <1>3, <1>7, <1>8 DEF Common, OutcomeInv
<1> QED
  BY <1>1, <1>3, <1>8, <1>9, <1>10 DEF OutcomeInv, Situation, Accepted, Common

\* Past its START, a thread inside a call has the transfer started.
LEMMA InCallStarted ==
    ASSUME OutcomeInv, caller.pc \notin {"idle", "start", "abort", "abort_stop", "reject"}
    PROVE  /\ Started /\ caller.answer = "none" /\ drv.error = "ok"
           /\ caller.pc = "arm" => ToArm(BehindStart)
           /\ caller.pc = "enable" => ToEnable(BehindStart)
           /\ caller.pc = "receive" => ToReceive(BehindStart)
           /\ caller.pc = "push_stop" => ToPushStop(BehindStart)
<1>1. Started /\ caller.answer = "none"
  BY DEF OutcomeInv, Common, Situation, Rest, Writing, Reading, Winding
<1>2. drv.error = "ok" /\ StartedWith(BehindStart)
  BY <1>1 DEF Started
<1> QED
  BY <1>1, <1>2 DEF StartedWith, ToArm, ToEnable, ToReceive, ToPushStop, ReadyToWrite,
                    ReadyToRead, ReadyToProbe

\* A started transfer that is finished and accepted already is a probe.
LEMMA StartedOutcome == Inv /\ Common /\ Started => OutcomeInv
<1> SUFFICES ASSUME Inv, Common, Started PROVE OutcomeInv
  OBVIOUS
<1>1. ASSUME Accepted, Rest \/ Winding PROVE Truthful
  <2>1. ~Rest
    BY DEF Rest, Started, Queued
  <2>2. Winding
    BY <1>1, <2>1
  <2>3. bus.phase = "address" /\ HoldsStop(port.tx)
    <3>1. port.tx # <<>> => port.tx \in Seq(Command)
      BY DEF Inv, TypeOK, PortType
    <3>2. Queued("START") => ~HoldsStop(port.tx)
      BY <3>1, TailFacts, CommandKinds DEF Queued, HoldsStop
    <3>3. caller.pc # "abort_stop"
      BY <1>1 DEF Common, Accepted
    <3> QED
      BY <2>2, <3>2, <3>3 DEF Winding, Started, Queued
  <2>4. caller.pc = "idle" /\ StartedWith(port.tx) /\ drv.error = "ok"
        /\ bus.moved = 0 /\ bus.nak = "none" /\ port.rx = 0 /\ port.MSR = {}
    BY <1>1, <2>3 DEF Started, BehindStart, Common, Accepted
  <2>5. ReadyToProbe(port.tx)
    <3>1. Len(port.tx) = 1 /\ port.tx # <<>>
      BY <2>3, EmptySeq DEF HoldsStop
    <3> QED
      BY <2>4, <3>1 DEF StartedWith, ToArm, ToEnable, ToReceive, ToPushStop, ReadyToWrite,
                        ReadyToRead, HoldsRead
  <2>6. caller.n = 0 /\ bus.owed = 0
    BY <1>1, <2>3, <2>5 DEF ReadyToProbe, Common, Inv, TypeOK, BusType
  <2> QED
    BY <2>3, <2>4, <2>6 DEF Truthful, Account, InFlight
<1> QED
  BY <1>1 DEF OutcomeInv, Situation

LEMMA StartedOutcomeNext == Inv' /\ Common' /\ Started' => OutcomeInv'
BY StartedOutcome, PTL

\* A command that joins the queue of a started transfer.
LEMMA PushBehindStart ==
    ASSUME Inv, Started, NEW c \in Command, port' = Push(port, c), UNCHANGED bus,
           Len(BehindStart) < 2
    PROVE  /\ BehindStart' = Append(BehindStart, c) /\ BehindStart \in Seq(Command)
           /\ bus.phase = "idle" => Queued("START")'
           /\ port'.rx = port.rx /\ port'.MSR = port.MSR /\ port'.TDIE = port.TDIE
           /\ port'.irq = port.irq
<1>1. port \in PortType /\ port.tx \in Seq(Command)
  BY DEF Inv, TypeOK, PortType
<1>2. CASE bus.phase = "idle"
  <2>1. port.tx # <<>> /\ Head(port.tx).cmd = "START"
    BY <1>2 DEF Started, Queued
  <2>2. BehindStart = Tail(port.tx) /\ Tail(port.tx) \in Seq(Command)
    BY <1>1, <1>2, <2>1, TailFacts DEF BehindStart
  <2>3. Len(port.tx) < FifoSize
    BY <1>1, <2>1, <2>2, TailFacts, HardwareAssumption
  <2>4. port' = [port EXCEPT !.tx = Append(port.tx, c)]
    BY <1>1, <2>3, PushFacts
  <2>5. port'.tx = Append(port.tx, c) /\ bus'.phase = "idle"
        /\ port'.rx = port.rx /\ port'.MSR = port.MSR /\ port'.TDIE = port.TDIE
        /\ port'.irq = port.irq
    BY <1>1, <1>2, <2>4 DEF PortType
  <2>6. /\ Append(port.tx, c) # <<>> /\ Head(Append(port.tx, c)) = Head(port.tx)
        /\ Tail(Append(port.tx, c)) = Append(Tail(port.tx), c)
    BY <1>1, <2>1, AppendFacts
  <2> QED
    BY <2>1, <2>2, <2>5, <2>6 DEF BehindStart, Queued
<1>3. CASE bus.phase = "address"
  <2>1. BehindStart = port.tx /\ Len(port.tx) < FifoSize
    BY <1>1, <1>3, EmptyFacts, HardwareAssumption DEF BehindStart
  <2>2. port' = [port EXCEPT !.tx = Append(port.tx, c)]
    BY <1>1, <2>1, PushFacts
  <2> QED
    BY <1>1, <1>3, <2>1, <2>2 DEF BehindStart, PortType
<1> QED
  BY <1>2, <1>3 DEF Started

\* How the queue of a read is built.
LEMMA ReadQueue ==
    ASSUME NEW n \in 0..MaxLength
    PROVE  /\ RECEIVE(n) \in Command /\ HoldsReceive(Append(<<>>, RECEIVE(n)), n)
           /\ \A q \in Seq(Command) : HoldsReceive(q, n) => HoldsRead(Append(q, STOP), n)
<1>1. RECEIVE(n) \in Command
  BY HardwareAssumption DEF RECEIVE, Command
<1>2. HoldsReceive(Append(<<>>, RECEIVE(n)), n)
  BY <1>1, EmptySeq, AppendFacts DEF HoldsReceive
<1>3. ASSUME NEW q \in Seq(Command), HoldsReceive(q, n)
      PROVE  HoldsRead(Append(q, STOP), n)
  <2>1. Len(Append(q, STOP)) = Len(q) + 1 /\ Append(q, STOP)[Len(q) + 1] = STOP
        /\ \A i \in 1..Len(q) : Append(q, STOP)[i] = q[i]
    BY StopCommand, AppendFacts
  <2>2. Len(q) = 1 /\ q[1] = RECEIVE(n)
    BY <1>3 DEF HoldsReceive
  <2>3. Append(q, STOP)[1] = q[1]
    BY <2>1, <2>2
  <2> QED
    BY <2>1, <2>2, <2>3 DEF HoldsRead
<1> QED
  BY <1>1, <1>2, <1>3

\* A step of a call that leaves the transfer started.
LEMMA StepOfCall ==
    ASSUME Inv, OutcomeInv, Started, FinishCall, UNCHANGED bus,
           drv'.state = "starting", drv'.error = "ok",
           port'.irq, port'.MSR = {}, port'.rx = 0,
           caller'.pc \notin {"abort", "abort_stop", "reject", "start"}, caller'.stop = caller.stop,
           caller'.answer = IF caller'.pc = "idle" THEN "accepted" ELSE "none",
           bus.phase = "idle" => Queued("START")',
           StartedWith(BehindStart)'
    PROVE  OutcomeInv' /\ Started'
<1>1. Inv'
  BY FinishCallKeepsInv
<1>2. Started'
  BY DEF Started
<1>3. Common'
  BY DEF Common, OutcomeInv
<1> QED
  BY <1>1, <1>2, <1>3, StartedOutcomeNext

LEMMA ProbeOutcome ==
    ASSUME Inv, OutcomeInv, Probe
    PROVE  OutcomeInv' /\ Started' /\ drv'.buff = drv.buff
<1>1. /\ caller.pc = "arm" /\ caller.n = 0 /\ UNCHANGED bus
      /\ caller'.pc = "idle" /\ caller'.answer = "accepted" /\ caller'.n = 0
      /\ caller'.stop = caller.stop
  BY DEF Probe, At, Return, Inv, TypeOK, CallerType
<1>2. Started /\ ToArm(BehindStart) /\ drv.error = "ok" /\ drv.state = "starting"
  BY <1>1, InCallStarted DEF Started
<1>3. /\ drv'.state = "starting" /\ drv'.error = "ok" /\ drv'.ignore_tdf = TRUE
      /\ drv'.buff = drv.buff
  BY <1>2 DEF Probe, Inv, TypeOK, DriverType
<1>4. BehindStart = <<>> /\ ~port.TDIE
  BY <1>2 DEF ToArm
<1>5. /\ BehindStart' = Append(BehindStart, STOP) /\ (bus.phase = "idle" => Queued("START")')
      /\ port'.rx = port.rx /\ port'.MSR = port.MSR /\ port'.TDIE = port.TDIE
      /\ port'.irq = port.irq
  <2>1. Len(BehindStart) < 2
    BY <1>4, EmptySeq
  <2>2. port' = Push(port, STOP)
    BY DEF Probe
  <2> QED
    BY <1>1, <1>2, <2>1, <2>2, StopFacts, PushBehindStart
<1>6. HoldsStop(BehindStart')
  BY <1>4, <1>5, StopFacts
<1>7. StartedWith(BehindStart)'
  BY <1>1, <1>3, <1>4, <1>5, <1>6 DEF StartedWith, ReadyToProbe, HoldsStop
<1> QED
  BY <1>1, <1>2, <1>3, <1>5, <1>7, StepOfCall DEF FinishCall, Started

LEMMA ArmOutcome ==
    ASSUME Inv, OutcomeInv, ArmWrite \/ ArmRead
    PROVE  OutcomeInv' /\ Started'
<1>1. /\ caller.pc = "arm" /\ caller.n > 0 /\ UNCHANGED <<port, bus>>
      /\ caller'.answer = caller.answer /\ caller'.n = caller.n
      /\ caller'.stop = caller.stop /\ caller'.op = caller.op
      /\ \/ ArmWrite /\ caller'.pc = "enable" /\ caller.op = "write"
         \/ ArmRead /\ caller'.pc = "receive" /\ caller.op = "read"
  BY DEF ArmWrite, ArmRead, At, Goto, Inv, TypeOK, CallerType
<1>2. Started /\ ToArm(BehindStart) /\ drv.error = "ok" /\ caller.answer = "none"
  BY <1>1, InCallStarted
<1>3. /\ drv'.state = "starting" /\ drv'.error = "ok" /\ drv'.ignore_tdf = drv.ignore_tdf
      /\ drv'.buff = initialise(caller.n)
      /\ ArmWrite => drv'.stop_on_completion = TRUE
  <2>1. caller.stop = TRUE
    BY DEF OutcomeInv, Common
  <2> QED
    BY <1>2, <2>1 DEF ArmWrite, ArmRead, Inv, TypeOK, DriverType, Started
<1>4. StartedWith(BehindStart)'
  <2>1. BehindStart' = BehindStart
    BY <1>1 DEF BehindStart
  <2> QED
    BY <1>1, <1>2, <1>3, <2>1 DEF StartedWith, ToArm, ToEnable, ToReceive, Loaded
<1> QED
  BY <1>1, <1>2, <1>3, <1>4, StepOfCall DEF FinishCall, Started, Queued

LEMMA EnableOutcome ==
    ASSUME Inv, OutcomeInv, EnableTransmit
    PROVE  OutcomeInv' /\ Started' /\ drv' = drv
<1>1. /\ caller.pc = "enable" /\ UNCHANGED <<bus, drv>>
      /\ caller'.pc = "idle" /\ caller'.answer = "accepted" /\ caller'.n = caller.n
      /\ caller'.stop = caller.stop
  BY DEF EnableTransmit, At, Return, Inv, TypeOK, CallerType
<1>2. Started /\ ToEnable(BehindStart) /\ drv.error = "ok"
  BY <1>1, InCallStarted
<1>3. /\ port'.tx = port.tx /\ port'.rx = port.rx /\ port'.MSR = port.MSR
      /\ port'.TDIE = TRUE /\ port'.irq = port.irq
  BY DEF EnableTransmit, Inv, TypeOK, PortType
<1>4. StartedWith(BehindStart)'
  <2>1. BehindStart' = BehindStart
    BY <1>1, <1>3 DEF BehindStart
  <2>2. drv.buff.size = caller.n
    BY <1>2 DEF ToEnable, Loaded, initialise
  <2> QED
    BY <1>1, <1>2, <1>3, <2>1, <2>2 DEF StartedWith, ToEnable, ReadyToWrite, Loaded
<1> QED
  BY <1>1, <1>2, <1>3, <1>4, StepOfCall DEF FinishCall, Started, Queued

LEMMA PushReceiveOutcome ==
    ASSUME Inv, OutcomeInv, PushReceive
    PROVE  OutcomeInv' /\ Started' /\ drv' = drv
<1>1. /\ caller.pc = "receive" /\ UNCHANGED <<bus, drv>> /\ port' = Push(port, RECEIVE(caller.n))
      /\ caller'.pc = "push_stop" /\ caller'.answer = caller.answer /\ caller'.n = caller.n
      /\ caller'.stop = caller.stop
  BY DEF PushReceive, At, Goto, Inv, TypeOK, CallerType, OutcomeInv, Common
<1>2. Started /\ ToReceive(BehindStart) /\ drv.error = "ok" /\ caller.answer = "none"
  BY <1>1, InCallStarted
<1>3. RECEIVE(caller.n) \in Command /\ HoldsReceive(Append(<<>>, RECEIVE(caller.n)), caller.n)
  BY ReadQueue DEF Inv, TypeOK, CallerType
<1>4. /\ BehindStart' = Append(<<>>, RECEIVE(caller.n))
      /\ (bus.phase = "idle" => Queued("START")')
      /\ port'.rx = port.rx /\ port'.MSR = port.MSR /\ port'.TDIE = port.TDIE
      /\ port'.irq = port.irq
  <2>1. Len(BehindStart) < 2 /\ BehindStart = <<>>
    BY <1>2, EmptySeq DEF ToReceive
  <2> QED
    BY <1>1, <1>2, <1>3, <2>1, PushBehindStart
<1>5. StartedWith(BehindStart)'
  BY <1>1, <1>2, <1>3, <1>4 DEF StartedWith, ToReceive, ToPushStop, Loaded
<1> QED
  BY <1>1, <1>2, <1>4, <1>5, StepOfCall DEF FinishCall, Started

LEMMA PushStopOutcome ==
    ASSUME Inv, OutcomeInv, PushStop
    PROVE  OutcomeInv' /\ Started' /\ drv' = drv
<1>1. /\ caller.pc = "push_stop" /\ UNCHANGED <<bus, drv>> /\ port' = Push(port, STOP)
      /\ caller'.pc = "idle" /\ caller'.answer = "accepted" /\ caller'.n = caller.n
      /\ caller'.stop = caller.stop
  BY DEF PushStop, At, Return, Inv, TypeOK, CallerType
<1>2. Started /\ ToPushStop(BehindStart) /\ drv.error = "ok"
  BY <1>1, InCallStarted
<1>3. HoldsReceive(BehindStart, caller.n) /\ Len(BehindStart) < 2
  BY <1>2 DEF ToPushStop, HoldsReceive
<1>4. /\ BehindStart' = Append(BehindStart, STOP) /\ BehindStart \in Seq(Command)
      /\ (bus.phase = "idle" => Queued("START")')
      /\ port'.rx = port.rx /\ port'.MSR = port.MSR /\ port'.TDIE = port.TDIE
      /\ port'.irq = port.irq
  BY <1>1, <1>2, <1>3, StopFacts, PushBehindStart
<1>5. HoldsRead(BehindStart', caller.n)
  BY <1>3, <1>4, ReadQueue DEF Inv, TypeOK, CallerType
<1>6. drv.buff.size = caller.n
  BY <1>2 DEF ToPushStop, Loaded, initialise
<1>7. StartedWith(BehindStart)'
  BY <1>1, <1>2, <1>4, <1>5, <1>6 DEF StartedWith, ToPushStop, ReadyToRead, Loaded, HoldsRead
<1> QED
  BY <1>1, <1>2, <1>4, <1>7, StepOfCall DEF FinishCall, Started

\* Every step of a call that is not refused leaves the transfer started.
LEMMA FinishCallOutcome ==
    ASSUME Inv, OutcomeInv, FinishCall
    PROVE  /\ OutcomeInv' /\ (Abort \/ AbortStop \/ Rejected \/ Started')
           /\ drv'.buff = drv.buff \/ ArmWrite \/ ArmRead
<1>1. CASE ArmWrite \/ ArmRead
  BY <1>1, ArmOutcome
<1>2. CASE Rejected
  <2>1. drv'.buff = drv.buff
    BY <1>2 DEF Rejected, Inv, TypeOK, DriverType
  <2> QED
    BY <1>2, <2>1, RejectedOutcome
<1>3. CASE SendStart \/ Probe \/ EnableTransmit \/ PushReceive \/ PushStop
  BY <1>3, SendStartOutcome, ProbeOutcome, EnableOutcome, PushReceiveOutcome, PushStopOutcome
<1>4. CASE Abort \/ AbortStop
  BY <1>4, AbortOutcome, AbortStopOutcome DEF Abort, AbortStop
<1> QED
  BY <1>1, <1>2, <1>3, <1>4 DEF FinishCall

------------------------------------------------------------------------------
(***************************************************************************)
(* The steps of the bus keep the invariant.                                *)
(***************************************************************************)
\* What the fields of the port and of the bus are made of.
LEMMA Fields ==
    ASSUME Inv
    PROVE  /\ port \in PortType /\ port.tx \in Seq(Command) /\ Len(port.tx) \in Nat
           /\ (port.tx = <<>> <=> Len(port.tx) = 0)
           /\ port.tx # <<>> => Head(port.tx) = port.tx[1]
           /\ bus \in BusType /\ bus.moved \in Nat /\ bus.owed \in Nat
           /\ drv.buff \in Buffer /\ drv.buff.size \in Nat /\ drv.buff.next_index \in Nat
           /\ caller.n \in Nat /\ caller.n <= MaxLength
<1>1. port \in PortType /\ port.tx \in Seq(Command) /\ bus \in BusType /\ drv.buff \in Buffer
  BY DEF Inv, TypeOK, PortType, DriverType
<1>2. port.tx # <<>> => Head(port.tx) = port.tx[1]
  BY <1>1, TailFacts
<1>3. bus.moved \in Nat /\ bus.owed \in Nat /\ caller.n \in Nat /\ caller.n <= MaxLength
  BY HardwareAssumption DEF Inv, TypeOK, BusType, CallerType
<1> QED
  BY <1>1, <1>2, <1>3, EmptyFacts DEF Buffer

\* The next command, by what the queue holds.
LEMMA NextCommand ==
    ASSUME Inv
    PROVE  /\ HoldsStop(port.tx) => Queued("STOP") /\ Tail(port.tx) = <<>>
           /\ HoldsRead(port.tx, drv.buff.size) =>
                 /\ Queued("RECEIVE") /\ Head(port.tx).arg = drv.buff.size
                 /\ HoldsStop(Tail(port.tx))
           /\ port.tx # <<>> /\ HoldsTransmits(port.tx) =>
                 /\ Queued("TRANSMIT") /\ HoldsTransmits(Tail(port.tx))
                 /\ Len(Tail(port.tx)) = Len(port.tx) - 1
<1>1. port.tx \in Seq(Command) /\ drv.buff.size \in Nat
  BY Fields
<1>2. ASSUME HoldsStop(port.tx) PROVE Queued("STOP") /\ Tail(port.tx) = <<>>
  <2>1. port.tx # <<>> /\ Len(Tail(port.tx)) = 0 /\ Tail(port.tx) \in Seq(Command)
        /\ Head(port.tx) = STOP
    BY <1>1, <1>2, EmptyFacts, TailFacts DEF HoldsStop
  <2> QED
    BY <2>1, EmptyFacts, CommandKinds DEF Queued
<1>3. ASSUME HoldsRead(port.tx, drv.buff.size)
      PROVE  /\ Queued("RECEIVE") /\ Head(port.tx).arg = drv.buff.size
             /\ HoldsStop(Tail(port.tx))
  <2>1. port.tx # <<>> /\ Len(Tail(port.tx)) = 1 /\ Head(port.tx) = RECEIVE(drv.buff.size)
        /\ Tail(port.tx)[1] = STOP
    BY <1>1, <1>3, EmptyFacts, TailFacts DEF HoldsRead
  <2> QED
    BY <1>1, <2>1, CommandKinds DEF Queued, HoldsStop
<1>4. ASSUME port.tx # <<>>, HoldsTransmits(port.tx)
      PROVE  /\ Queued("TRANSMIT") /\ HoldsTransmits(Tail(port.tx))
             /\ Len(Tail(port.tx)) = Len(port.tx) - 1
  <2>1. /\ Len(Tail(port.tx)) = Len(port.tx) - 1 /\ Len(port.tx) \in Nat \ {0}
        /\ \A i \in 1..Len(port.tx) - 1 : Tail(port.tx)[i] = port.tx[i + 1]
        /\ Head(port.tx) = port.tx[1]
    BY <1>1, <1>4, TailFacts
  <2>2. Head(port.tx) = TRANSMIT
    BY <1>4, <2>1 DEF HoldsTransmits
  <2>3. HoldsTransmits(Tail(port.tx))
    BY <1>4, <2>1 DEF HoldsTransmits
  <2> QED
    BY <1>4, <2>1, <2>2, <2>3, CommandKinds DEF Queued
<1> QED
  BY <1>2, <1>3, <1>4

\* What one step of the bus changes.
LEMMA BusSteps ==
    ASSUME Inv
    PROVE  /\ PopStart \/ PopTransmit \/ PopReceive \/ PopStop \/ DiscardStop =>
                 port.tx # <<>> /\ port'.tx = Tail(port.tx) /\ port'.MSR = port.MSR
           /\ Nacked => port'.MSR = port.MSR \cup {"NDF"} /\ port'.tx = port.tx
           /\ ArbitrationLost => port'.MSR = port.MSR \cup {"ALF"} /\ port'.tx = port.tx
           /\ ByteReceived => port'.MSR = port.MSR /\ port'.tx = port.tx
           /\ ByteReceived => port'.rx = port.rx + 1
           /\ PopStart \/ PopTransmit \/ PopReceive \/ PopStop \/ DiscardStop \/ Nacked
                 \/ ArbitrationLost \/ StopSent => port'.rx = port.rx
           /\ StopSent => /\ port'.MSR = port.MSR \cup {"SDF"}
                          /\ port'.tx = IF Queued("STOP") THEN Tail(port.tx) ELSE port.tx
           /\ PopStart \/ PopTransmit \/ PopReceive \/ PopStop \/ DiscardStop \/ Nacked
                 \/ ArbitrationLost \/ StopSent \/ ByteReceived =>
                 port'.TDIE = port.TDIE /\ port'.irq = port.irq
BY DEF PopStart, PopTransmit, PopReceive, PopStop, DiscardStop, Nacked, ArbitrationLost,
       ByteReceived, StopSent, Pop, Raise, Queued, Inv, TypeOK, PortType

\* What one step of the bus makes of what is on the wire.
LEMMA WireSteps ==
    ASSUME Inv
    PROVE  /\ PopStart => bus'.phase = "address" /\ bus'.moved = 0 /\ bus'.nak = "none"
                          /\ bus'.owed = 0
           /\ PopTransmit => bus'.phase = "sending"
           /\ PopReceive => bus'.phase = "receiving" /\ bus'.owed = Head(port.tx).arg
           /\ PopStop => bus'.phase = "stop"
           /\ AddressAcked => bus'.phase = "ready"
           /\ ByteAcked => bus'.phase = "ready" /\ bus'.moved = bus.moved + 1
           /\ Nacked => bus'.phase = "nacked" /\ bus'.nak # "none"
           /\ ArbitrationLost \/ StopSent => bus'.phase = "idle"
           /\ ByteReceived =>
                 /\ bus'.phase = IF bus.owed > 1 THEN "receiving" ELSE "ready"
                 /\ bus'.owed = bus.owed - 1 /\ bus'.moved = bus.moved + 1
           /\ PopTransmit \/ PopReceive \/ PopStop \/ AddressAcked \/ Nacked
                 \/ ArbitrationLost \/ StopSent => bus'.moved = bus.moved
           /\ PopTransmit \/ PopStop \/ AddressAcked \/ ByteAcked \/ Nacked
                 \/ ArbitrationLost \/ StopSent => bus'.owed = bus.owed
           /\ PopTransmit \/ PopReceive \/ PopStop \/ AddressAcked \/ ByteAcked \/ ByteReceived
                 \/ ArbitrationLost \/ StopSent => bus'.nak = bus.nak
           /\ PopStart \/ Transfer => bus'.pin_low = bus.pin_low
BY DEF PopStart, PopTransmit, PopReceive, PopStop, DiscardStop, Nacked, ArbitrationLost,
       ByteReceived, StopSent, AddressAcked, ByteAcked, AutoStop, FifoError, Transfer,
       Inv, TypeOK, BusType

LEMMA BeginOnBusOutcome ==
    ASSUME Inv, OutcomeInv, BeginOnBus
    PROVE  OutcomeInv'
<1>1. /\ PopStart /\ UNCHANGED <<drv, caller>> /\ Queued("START")
      /\ bus.phase \in {"idle", "ready"}
  BY DEF BeginOnBus, PopStart
<1>2. Started
  <2>1. ~Queued("STOP") /\ ~Queued("RECEIVE") /\ ~Queued("TRANSMIT") /\ port.tx # <<>>
    BY <1>1 DEF Queued
  <2>2. ~HoldsStop(port.tx) /\ ~HoldsRead(port.tx, drv.buff.size) /\ ~HoldsTransmits(port.tx)
    BY <2>1, NextCommand
  <2> QED
    BY <2>1, <2>2 DEF OutcomeInv, Situation, Rest, Writing, Reading, Winding
<1>3. /\ port'.tx = Tail(port.tx) /\ port'.rx = port.rx /\ port'.MSR = port.MSR
      /\ port'.TDIE = port.TDIE /\ port'.irq = port.irq
      /\ bus'.phase = "address" /\ bus'.moved = 0 /\ bus'.nak = "none" /\ bus'.owed = 0
      /\ bus'.pin_low = bus.pin_low
  BY <1>1, BusSteps, WireSteps
<1>4. BehindStart' = BehindStart
  BY <1>1, <1>2, <1>3 DEF BehindStart, Started
<1>5. StartedWith(BehindStart)'
  BY <1>1, <1>2, <1>3, <1>4 DEF Started, StartedWith, ToArm, ToEnable, ToReceive, ToPushStop,
        ReadyToWrite, ReadyToRead, ReadyToProbe, Loaded, Accepted
<1>6. Started'
  BY <1>1, <1>2, <1>3, <1>5 DEF Started
<1>7. Common'
  <2>1. ~Rest
    BY <1>1 DEF Rest, Queued
  <2> QED
    BY <1>1, <1>3, <2>1 DEF Common, OutcomeInv
<1>8. Inv'
  BY BusKeepsInv
<1> QED
  BY <1>6, <1>7, <1>8, StartedOutcomeNext

\* The bus moves on when the thread and the ISR have nothing to do.
LEMMA QuietBus ==
    ASSUME PromptSystem, UseBus
    PROVE  Transfer /\ UNCHANGED <<drv, caller>> /\ caller.pc \in {"idle", "abort"} /\ ~Interrupt(port)
BY DEF PromptSystem, UseBus, ISRInTime, CallerInTime, CallerReturned

LEMMA RestBus == Inv /\ Rest => ~Transfer
<1> SUFFICES ASSUME Inv, Rest PROVE ~Transfer
  OBVIOUS
<1>1. bus.phase = "idle" /\ port.tx = <<>>
  BY DEF Rest
<1> QED
  BY <1>1 DEF Transfer, PopTransmit, PopReceive, PopStop, AddressAcked, ByteAcked, Nacked,
        ByteReceived, AutoStop, StopSent, DiscardStop, FifoError, ArbitrationLost, Queued, MBF

\* The common part, after a step of the bus.
LEMMA BusCommon ==
    ASSUME Inv, Common, ~Rest, Transfer, UNCHANGED <<drv, caller>>, caller.pc \in {"idle", "abort"},
           bus'.phase = "receiving" <=> bus'.owed > 0,
           "ALF" \in port'.MSR => "ALF" \in Faults
    PROVE  Common' /\ caller.answer # "none"
<1>1. bus'.pin_low = bus.pin_low
  BY WireSteps
<1> QED
  BY <1>1 DEF Common

LEMMA StartedBus ==
    ASSUME PromptSystem, Inv, OutcomeInv, Started, UseBus
    PROVE  OutcomeInv'
<1>1. Transfer /\ UNCHANGED <<drv, caller>> /\ caller.pc \in {"idle", "abort"} /\ ~Interrupt(port)
  BY QuietBus
<1>2. ~Rest
  BY DEF Rest, Started, Queued
<1>3. /\ bus.phase = "address" /\ bus.moved = 0 /\ bus.nak = "none" /\ bus.owed = 0
      /\ StartedWith(port.tx)
  <2>1. CASE bus.phase = "idle"
    <3>1. ~Queued("STOP") /\ ~Queued("RECEIVE") /\ ~Queued("TRANSMIT")
      BY <2>1 DEF Started, Queued
    <3> QED
      BY <1>1, <2>1, <3>1 DEF Transfer, PopTransmit, PopReceive, PopStop, AddressAcked,
            ByteAcked, Nacked, ByteReceived, AutoStop, StopSent, DiscardStop, FifoError,
            ArbitrationLost
  <2>2. CASE bus.phase # "idle"
    BY <2>2, Fields DEF Started, BehindStart, OutcomeInv, Common
  <2> QED
    BY <2>1, <2>2
<1>4. ReadyToRead(port.tx) \/ ReadyToProbe(port.tx)
  <2>1. ~ReadyToWrite(port.tx)
    BY <1>1 DEF Started, ReadyToWrite, Interrupt, TDF
  <2> QED
    BY <1>1, <1>3, <2>1 DEF StartedWith, ToArm, ToEnable, ToReceive, ToPushStop
<1>5. AddressAcked \/ Nacked \/ ArbitrationLost
  BY <1>1, <1>3 DEF Transfer, PopTransmit, PopReceive, PopStop, ByteAcked, ByteReceived,
        AutoStop, StopSent, DiscardStop, FifoError, MBF
<1>6. /\ port'.tx = port.tx /\ port'.rx = 0 /\ ~port'.TDIE /\ port'.irq
      /\ bus'.moved = 0 /\ bus'.owed = 0
      /\ \/ port'.MSR = {} /\ bus'.phase = "ready" /\ bus'.nak = "none"
         \/ port'.MSR = {"NDF"} /\ bus'.phase = "nacked" /\ bus'.nak # "none"
         \/ port'.MSR = {"ALF"} /\ bus'.phase = "idle" /\ bus'.nak = "none" /\ "ALF" \in Faults
  <2>1. port.MSR = {} /\ port.rx = 0 /\ ~port.TDIE /\ port.irq
    BY <1>4 DEF Started, ReadyToRead, ReadyToProbe
  <2>2. CASE AddressAcked
    BY <1>3, <2>1, <2>2, WireSteps DEF AddressAcked
  <2>3. CASE Nacked
    BY <1>3, <2>1, <2>3, WireSteps, BusSteps
  <2>4. CASE ArbitrationLost
    BY <1>3, <2>1, <2>4, WireSteps, BusSteps DEF ArbitrationLost
  <2> QED
    BY <1>5, <2>2, <2>3, <2>4
<1>7. Common' /\ caller.answer # "none"
  BY <1>1, <1>2, <1>6, BusCommon DEF OutcomeInv
<1>8. CASE ReadyToRead(port.tx)
  <2>1. Reading'
    BY <1>1, <1>6, <1>8 DEF Started, ReadyToRead, Reading, FailedWith, Loaded, Accepted
  <2>2. ~Rest' /\ ~Winding'
    <3>1. Len(port'.tx) = 2 /\ port'.tx # <<>>
      BY <1>6, <1>8, EmptySeq DEF ReadyToRead, HoldsRead
    <3> QED
      BY <3>1 DEF Rest, Winding, HoldsStop
  <2> QED
    BY <1>7, <2>1, <2>2 DEF OutcomeInv, Situation
<1>9. CASE ReadyToProbe(port.tx)
  <2>1. Winding'
    BY <1>1, <1>6, <1>9 DEF Started, ReadyToProbe, Winding, CannotBegin, Accepted, HoldsStop
  <2>2. Accepted => Truthful'
    <3> SUFFICES ASSUME Accepted PROVE Truthful'
      OBVIOUS
    <3>1. drv.error = "ok" /\ caller.n = 0
      BY <1>9 DEF Started, ReadyToProbe, Accepted
    <3>2. port'.MSR \cap {"NDF", "ALF"} = {} => Account'
      BY <1>1, <1>6, <3>1 DEF Account, InFlight
    <3> QED
      BY <1>1, <1>6, <3>1, <3>2 DEF Truthful
  <2> QED
    BY <1>1, <1>7, <2>1, <2>2 DEF OutcomeInv, Situation, Accepted
<1> QED
  BY <1>4, <1>8, <1>9

LEMMA WritingBus ==
    ASSUME PromptSystem, Inv, OutcomeInv, Writing, UseBus
    PROVE  OutcomeInv'
<1>1. Transfer /\ UNCHANGED <<drv, caller>> /\ caller.pc \in {"idle", "abort"} /\ ~Interrupt(port)
  BY QuietBus
<1>2. ~Rest
  BY DEF Rest, Writing
<1>3. port.MSR = {} /\ port.tx # <<>> /\ port.TDIE /\ port.rx = 0 /\ port.irq
  BY <1>1, Uninterrupted DEF Writing
<1>4. /\ bus.phase \in {"address", "ready", "sending"} /\ bus.nak = "none" /\ bus.owed = 0
      /\ bus.moved + InFlight + Len(port.tx) = drv.buff.next_index
  BY <1>3, Fields DEF Writing, OutcomeInv, Common
<1>5. /\ Queued("TRANSMIT") /\ ~Queued("STOP") /\ ~Queued("RECEIVE")
      /\ HoldsTransmits(port.tx) /\ HoldsTransmits(Tail(port.tx))
      /\ Len(Tail(port.tx)) = Len(port.tx) - 1
  BY <1>3, NextCommand DEF Writing, Queued
<1>6. PopTransmit \/ AddressAcked \/ ByteAcked \/ Nacked \/ ArbitrationLost
  BY <1>1, <1>3, <1>4, <1>5 DEF Transfer, PopReceive, PopStop, ByteReceived,
        AutoStop, StopSent, DiscardStop, FifoError, MBF
<1>7. /\ port'.TDIE /\ port'.rx = 0 /\ port'.irq /\ HoldsTransmits(port'.tx) /\ bus'.owed = 0
      /\ (port'.tx = <<>> => bus'.phase = "sending")
      /\ \/ /\ port'.MSR = {} /\ bus'.phase \in {"ready", "sending"} /\ bus'.nak = "none"
            /\ bus'.moved + InFlight' + Len(port'.tx) = drv.buff.next_index
         \/ port'.MSR = {"NDF"} /\ bus'.phase = "nacked" /\ bus'.nak # "none"
         \/ port'.MSR = {"ALF"} /\ bus'.phase = "idle" /\ bus'.nak = "none" /\ "ALF" \in Faults
  <2>1. CASE PopTransmit
    <3>1. bus.phase = "ready"
      BY <2>1 DEF PopTransmit
    <3>2. /\ port'.tx = Tail(port.tx) /\ port'.rx = 0 /\ port'.MSR = {} /\ port'.TDIE /\ port'.irq
          /\ bus'.phase = "sending" /\ bus'.moved = bus.moved /\ bus'.owed = 0
          /\ bus'.nak = "none"
      BY <1>3, <1>4, <2>1, BusSteps, WireSteps
    <3>3. bus'.moved + InFlight' + Len(port'.tx) = drv.buff.next_index
      BY <1>4, <1>5, <3>1, <3>2, Fields DEF InFlight
    <3> QED
      BY <1>5, <3>2, <3>3
  <2>2. CASE AddressAcked
    <3>1. bus.phase = "address" /\ UNCHANGED port
      BY <2>2 DEF AddressAcked
    <3> QED
      BY <1>3, <1>4, <1>5, <2>2, <3>1, WireSteps, Fields DEF InFlight
  <2>3. CASE ByteAcked
    <3>1. bus.phase = "sending" /\ UNCHANGED port
      BY <2>3 DEF ByteAcked
    <3> QED
      BY <1>3, <1>4, <1>5, <2>3, <3>1, WireSteps, Fields DEF InFlight
  <2>4. CASE Nacked
    BY <1>3, <1>4, <1>5, <2>4, WireSteps, BusSteps
  <2>5. CASE ArbitrationLost
    BY <1>3, <1>4, <1>5, <2>5, WireSteps, BusSteps DEF ArbitrationLost
  <2> QED
    BY <1>6, <2>1, <2>2, <2>3, <2>4, <2>5
<1>8. Common' /\ caller.answer # "none"
  BY <1>1, <1>2, <1>7, BusCommon DEF OutcomeInv
<1>9. Writing'
  BY <1>1, <1>7 DEF Writing, FailedWith, Accepted
<1>10. ~Rest' /\ ~Winding'
  BY <1>7 DEF Rest, Winding
<1> QED
  BY <1>8, <1>9, <1>10 DEF OutcomeInv, Situation

LEMMA ReadingBus ==
    ASSUME PromptSystem, Inv, OutcomeInv, Reading, UseBus
    PROVE  OutcomeInv'
<1>1. Transfer /\ UNCHANGED <<drv, caller>> /\ caller.pc \in {"idle", "abort"} /\ ~Interrupt(port)
  BY QuietBus
<1>2. /\ port.MSR = {} /\ ~port.TDIE /\ port.rx = 0 /\ port.irq /\ bus.phase = "ready"
      /\ bus.nak = "none" /\ bus.moved = 0
  BY <1>1, Uninterrupted DEF Reading
<1>3. /\ Queued("RECEIVE") /\ ~Queued("STOP") /\ ~Queued("TRANSMIT") /\ port.tx # <<>>
      /\ Head(port.tx).arg = drv.buff.size /\ HoldsStop(Tail(port.tx))
  BY NextCommand DEF Reading, Queued
<1>4. PopReceive
  BY <1>1, <1>2, <1>3 DEF Transfer, PopTransmit, PopStop, AddressAcked, ByteAcked, Nacked,
        ByteReceived, AutoStop, StopSent, DiscardStop, FifoError, ArbitrationLost, MBF
<1>5. /\ HoldsStop(port'.tx) /\ port'.rx = 0 /\ port'.MSR = {} /\ ~port'.TDIE /\ port'.irq
      /\ bus'.phase = "receiving" /\ bus'.owed = drv.buff.size /\ bus'.moved = 0
      /\ bus'.nak = "none"
  BY <1>2, <1>3, <1>4, BusSteps, WireSteps
<1>6. drv.buff.size > 0 /\ drv.buff.next_index = 0 /\ drv.state = "starting" /\ drv.ignore_tdf
      /\ (Accepted => drv.error = "ok" /\ drv.buff.size = caller.n)
  BY DEF Reading, Loaded, initialise
<1>7. Common' /\ caller.answer # "none"
  <2>1. ~Rest
    BY <1>3 DEF Rest
  <2> QED
    BY <1>1, <1>5, <1>6, <2>1, BusCommon DEF OutcomeInv
<1>8. Winding'
  BY <1>1, <1>5, <1>6 DEF Winding, CannotBegin, Accepted
<1>9. Accepted => Truthful'
  <2>1. Accepted => Account'
    BY <1>1, <1>5, <1>6, Fields DEF Account, InFlight
  <2> QED
    BY <1>1, <1>5, <1>6, <2>1 DEF Truthful
<1> QED
  BY <1>1, <1>7, <1>8, <1>9 DEF OutcomeInv, Situation, Accepted

LEMMA WindingBus ==
    ASSUME PromptSystem, Inv, OutcomeInv, Winding, UseBus
    PROVE  OutcomeInv'
<1>1. Transfer /\ UNCHANGED <<drv, caller>> /\ caller.pc \in {"idle", "abort"} /\ ~Interrupt(port)
  BY QuietBus
<1>2. /\ port.MSR = {} /\ port.rx = 0 /\ ~port.TDIE /\ port.irq /\ drv.state # "stopped"
      /\ CannotBegin /\ (Accepted => drv.state # "idle")
      /\ (bus.phase = "receiving" => drv.ignore_tdf)
      /\ HoldsStop(port.tx) \/ (port.tx = <<>> /\ bus.phase = "stop")
      /\ (bus.phase = "idle" => drv.state = "stopping")
  BY <1>1, Uninterrupted DEF Winding
<1>3. /\ ~Queued("TRANSMIT") /\ ~Queued("RECEIVE")
      /\ HoldsStop(port.tx) => Queued("STOP") /\ Tail(port.tx) = <<>> /\ port.tx # <<>>
      /\ port.tx = <<>> => ~Queued("STOP")
  BY <1>2, NextCommand DEF Queued
<1>4. bus.phase = "receiving" <=> bus.owed > 0
  BY DEF OutcomeInv, Common
<1>5. ~Rest
  BY <1>2, <1>3 DEF Rest
<1>6. \/ PopStop \/ AddressAcked \/ ByteAcked \/ Nacked \/ ByteReceived \/ ArbitrationLost
      \/ StopSent \/ DiscardStop
  BY <1>1, <1>2, <1>3 DEF Transfer, PopTransmit, PopReceive, AutoStop, FifoError, MBF
<1>7. ASSUME Accepted PROVE Truthful /\ (drv.error = "ok" => Account)
  BY <1>2, <1>7 DEF Truthful, OutcomeInv
<1>8. CASE PopStop
  <2>1. /\ port'.tx = <<>> /\ port'.rx = 0 /\ port'.MSR = {} /\ ~port'.TDIE /\ port'.irq
        /\ bus'.phase = "stop" /\ bus'.moved = bus.moved /\ bus'.owed = 0 /\ bus.owed = 0
        /\ bus'.nak = bus.nak /\ bus.phase \in {"ready", "nacked"}
    <3>1. bus.owed = 0 /\ bus.phase \in {"ready", "nacked"}
      BY <1>4, <1>8, Fields DEF PopStop
    <3>2. /\ port.tx # <<>> /\ port'.tx = Tail(port.tx) /\ port'.MSR = port.MSR
          /\ port'.rx = port.rx /\ port'.TDIE = port.TDIE /\ port'.irq = port.irq
      BY <1>8, BusSteps
    <3>3. bus'.phase = "stop" /\ bus'.moved = bus.moved /\ bus'.owed = bus.owed
          /\ bus'.nak = bus.nak
      BY <1>8, WireSteps
    <3> QED
      BY <1>2, <1>3, <3>1, <3>2, <3>3
  <2>2. Common' /\ caller.answer # "none"
    BY <1>1, <1>5, <2>1, BusCommon DEF OutcomeInv
  <2>3. Winding'
    BY <1>1, <1>2, <2>1 DEF Winding, CannotBegin, Accepted
  <2>4. Accepted => Truthful'
    <3>1. Account => Account'
      BY <1>1, <1>2, <2>1 DEF Account, InFlight
    <3> QED
      BY <1>1, <1>2, <1>7, <2>1, <3>1 DEF Truthful
  <2> QED
    BY <1>1, <2>2, <2>3, <2>4 DEF OutcomeInv, Situation, Accepted
<1>9. CASE AddressAcked \/ ByteAcked
  <2>1. /\ UNCHANGED port /\ bus'.phase = "ready" /\ bus'.owed = 0 /\ bus.owed = 0
        /\ bus'.nak = bus.nak /\ bus.phase \in {"address", "sending"}
        /\ bus'.moved = bus.moved + InFlight
    BY <1>4, <1>9, WireSteps, Fields DEF AddressAcked, ByteAcked, InFlight
  <2>2. Common' /\ caller.answer # "none"
    BY <1>1, <1>2, <1>5, <2>1, BusCommon DEF OutcomeInv
  <2>3. Winding'
    BY <1>1, <1>2, <2>1 DEF Winding, CannotBegin, Accepted
  <2>4. Accepted => Truthful'
    <3>1. Account => Account'
      BY <1>1, <1>2, <2>1, Fields DEF Account, InFlight
    <3> QED
      BY <1>1, <1>2, <1>7, <2>1, <3>1 DEF Truthful
  <2> QED
    BY <1>1, <2>2, <2>3, <2>4 DEF OutcomeInv, Situation, Accepted
<1>10. CASE Nacked \/ ArbitrationLost
  <2>1. /\ port'.tx = port.tx /\ port'.rx = 0 /\ ~port'.TDIE /\ port'.irq /\ HoldsStop(port.tx)
        /\ bus'.owed = 0 /\ bus.phase \in {"address", "sending"}
        /\ \/ port'.MSR = {"NDF"} /\ bus'.phase = "nacked" /\ bus'.nak # "none"
           \/ port'.MSR = {"ALF"} /\ bus'.phase = "idle" /\ bus'.nak = bus.nak
              /\ "ALF" \in Faults
    <3>1. bus.owed = 0 /\ bus.phase \in {"address", "sending"}
      BY <1>4, <1>10, Fields DEF Nacked, ArbitrationLost
    <3>2. CASE Nacked
      BY <1>2, <3>1, <3>2, BusSteps, WireSteps
    <3>3. CASE ArbitrationLost
      BY <1>2, <3>1, <3>3, BusSteps, WireSteps DEF ArbitrationLost
    <3> QED
      BY <1>10, <3>2, <3>3
  <2>2. Common' /\ caller.answer # "none"
    BY <1>1, <1>5, <2>1, BusCommon DEF OutcomeInv
  <2>3. Winding'
    BY <1>1, <1>2, <2>1 DEF Winding, CannotBegin, Accepted
  <2>4. Accepted => Truthful'
    <3>1. Accepted => bus.nak = "none"
      BY <1>7, <2>1 DEF Truthful, Account
    <3> QED
      BY <1>1, <2>1, <3>1 DEF Truthful
  <2>5. ~Rest'
    BY <1>3, <2>1 DEF Rest
  <2> QED
    BY <1>1, <2>2, <2>3, <2>4, <2>5 DEF OutcomeInv, Situation, Accepted
<1>11. CASE ByteReceived
  <2>1. /\ port'.tx = port.tx /\ port'.rx = 1 /\ port'.MSR = {} /\ ~port'.TDIE /\ port'.irq
        /\ bus.phase = "receiving" /\ bus.owed > 0 /\ HoldsStop(port.tx) /\ drv.ignore_tdf
        /\ bus'.phase = (IF bus.owed > 1 THEN "receiving" ELSE "ready")
        /\ bus'.owed = bus.owed - 1 /\ bus'.moved = bus.moved + 1 /\ bus'.nak = bus.nak
    BY <1>2, <1>11, BusSteps, WireSteps DEF ByteReceived
  <2>2. Common' /\ caller.answer # "none"
    <3>1. bus'.phase = "receiving" <=> bus'.owed > 0
      BY <2>1, Fields
    <3> QED
      BY <1>1, <1>5, <2>1, <3>1, BusCommon DEF OutcomeInv
  <2>3. Winding'
    BY <1>1, <1>2, <2>1 DEF Winding, CannotBegin, Accepted
  <2>4. Accepted => Truthful'
    <3> SUFFICES ASSUME Accepted PROVE Truthful'
      OBVIOUS
    <3>1. drv.error = "ok" /\ Account /\ (drv.buff.next_index = 0 \/ drv.state = "transferring")
      BY <1>7, <2>1 DEF Truthful
    <3>2. bus.moved + bus.owed = caller.n /\ caller.n > 0
      BY <2>1, <3>1, Fields DEF Account, InFlight
    <3>3. drv.buff.size = caller.n /\ drv.buff.next_index + bus.owed = caller.n
      BY <1>2, <3>1, <3>2, Fields DEF Account
    <3>4. InFlight' = 0
      BY <2>1 DEF InFlight
    <3>5. bus'.moved + InFlight' + bus'.owed = caller.n
          /\ drv.buff.next_index + port'.rx + bus'.owed = caller.n
      BY <2>1, <3>2, <3>3, <3>4, Fields
    <3>6. Account'
      BY <1>1, <2>1, <3>1, <3>2, <3>3, <3>5 DEF Account
    <3> QED
      BY <1>1, <2>1, <3>1, <3>6 DEF Truthful, Account
  <2>5. ~Rest'
    BY <1>3, <2>1 DEF Rest
  <2> QED
    BY <1>1, <2>2, <2>3, <2>4, <2>5 DEF OutcomeInv, Situation, Accepted
<1>12. CASE StopSent \/ DiscardStop
  <2>1. /\ port'.tx = <<>> /\ port'.rx = 0 /\ ~port'.TDIE /\ port'.irq
        /\ port'.MSR \subseteq {"SDF"} /\ bus'.phase = "idle" /\ bus.phase \in {"stop", "idle"}
        /\ bus'.moved = bus.moved /\ bus'.owed = 0 /\ bus'.nak = bus.nak /\ bus.owed = 0
    <3>1. CASE StopSent
      BY <1>2, <1>3, <1>4, <3>1, BusSteps, WireSteps, Fields DEF StopSent
    <3>2. CASE DiscardStop
      <4>1. UNCHANGED bus /\ bus.phase = "idle"
        BY <3>2 DEF DiscardStop, MBF
      <4>2. bus.owed = 0
        BY <1>4, <4>1, Fields
      <4>3. /\ port.tx # <<>> /\ port'.tx = Tail(port.tx) /\ port'.MSR = port.MSR
            /\ port'.rx = port.rx /\ port'.TDIE = port.TDIE /\ port'.irq = port.irq
        BY <3>2, BusSteps
      <4> QED
        BY <1>2, <1>3, <4>1, <4>2, <4>3
    <3> QED
      BY <1>12, <3>1, <3>2
  <2>2. Common' /\ caller.answer # "none"
    BY <1>1, <1>5, <2>1, BusCommon DEF OutcomeInv
  <2>3. Rest'
    BY <1>1, <1>2, <2>1 DEF Rest, CannotBegin
  <2>4. Accepted => Truthful'
    <3>1. Account => Account'
      BY <1>1, <1>2, <2>1 DEF Account, InFlight
    <3> QED
      BY <1>1, <1>2, <1>7, <2>1, <3>1 DEF Truthful
  <2> QED
    BY <1>1, <2>2, <2>3, <2>4 DEF OutcomeInv, Situation, Accepted
<1> QED
  BY <1>6, <1>8, <1>9, <1>10, <1>11, <1>12

\* In a prompt system nobody holds a line low.
LEMMA BusOutcome ==
    ASSUME PromptSystem, Inv, OutcomeInv, BeginOnBus \/ UseBus \/ DisturbBus
    PROVE  OutcomeInv'
<1>1. CASE BeginOnBus
  BY <1>1, BeginOnBusOutcome
<1>2. CASE UseBus
  BY <1>2, QuietBus, RestBus, StartedBus, WritingBus, ReadingBus, WindingBus
     DEF OutcomeInv, Situation
<1>3. ~DisturbBus
  BY DEF DisturbBus, HoldPin, PinHeldLow, PinReleased, PromptSystem, OutcomeInv, Common
<1> QED
  BY <1>1, <1>2, <1>3

------------------------------------------------------------------------------
LEMMA InitOutcome == Init => OutcomeInv
<1> SUFFICES ASSUME Init PROVE OutcomeInv
  OBVIOUS
<1>1. Rest /\ port.MSR = {} /\ bus.moved = 0
  BY DEF Init, Rest, ResetPort, IdleBus
<1>2. Common
  BY <1>1 DEF Init, Common, ResetPort, IdleBus
<1> QED
  BY <1>1, <1>2 DEF Init, OutcomeInv, Situation, Accepted

LEMMA NextKeepsOutcome ==
    ASSUME PromptSystem, Inv, OutcomeInv, [Next]_vars
    PROVE  OutcomeInv'
<1>1. CASE ISR
  BY <1>1, ISRKeepsOutcome
<1>2. CASE begin \/ end
  BY <1>2, RestartOutcome
<1>3. CASE MakeCall
  BY <1>3, StartCallOutcome, RejectCallOutcome, RefuseReadOutcome DEF MakeCall
<1>4. CASE FinishCall
  BY <1>4, FinishCallOutcome
<1>5. CASE BeginOnBus \/ UseBus \/ DisturbBus
  BY <1>5, BusOutcome
<1>6. CASE UNCHANGED vars
  BY <1>6 DEF vars, OutcomeInv, Common, Situation, Rest, Started, StartedWith, ToArm, ToEnable,
        ToReceive, ToPushStop, ReadyToWrite, ReadyToRead, ReadyToProbe, BehindStart, Loaded,
        Writing, Reading, Winding, FailedWith, InFlight, CannotBegin, Accepted, Truthful,
        Account, Queued
<1> QED
  BY <1>1, <1>2, <1>3, <1>4, <1>5, <1>6 DEF Next

\* Wherever a prompt system is, it is in one of the five situations.
THEOREM OutcomeInvariance ==
    ASSUME PromptSystem
    PROVE  Spec => [](Inv /\ OutcomeInv)
<1>1. Init => Inv /\ OutcomeInv
  BY InitInv, InitOutcome
<1>2. Inv /\ OutcomeInv /\ [Next]_vars => (Inv /\ OutcomeInv)'
  BY NextKeepsInv, NextKeepsOutcome
<1> QED
  BY <1>1, <1>2, PTL DEF Spec

------------------------------------------------------------------------------
(***************************************************************************)
(* What the situations say of a driver that is free.                       *)
(***************************************************************************)
\* A driver that is free after an accepted call is at rest, with no error pending.
LEMMA AcceptedAtRest ==
    ASSUME Inv, OutcomeInv, Free, Accepted
    PROVE  Rest /\ Truthful /\ bus.phase = "idle" /\ bus.owed = 0 /\ port.MSR \subseteq {"SDF"}
<1>1. drv.state \in {"idle", "stopped"} /\ bus.phase = "idle" /\ caller.pc = "idle"
  BY DEF Free, finished, MBF, OutcomeInv, Common
<1>2. Rest
  BY <1>1 DEF OutcomeInv, Situation, Started, Writing, Reading, Winding
<1> QED
  BY <1>1, <1>2, Fields DEF OutcomeInv, Rest, Common

LEMMA CompleteInvariant == Inv /\ OutcomeInv => Complete
<1> SUFFICES ASSUME Inv, OutcomeInv, Free, Accepted, drv.error = "ok"
             PROVE  /\ bus.moved = caller.n /\ bus.nak = "none"
                    /\ caller.n > 0 => get_bytes_transferred(drv.buff) = caller.n
                    /\ caller.stop => ~MBF
  BY DEF Complete
<1>1. Account /\ bus.phase = "idle" /\ bus.owed = 0 /\ port.rx = 0
  BY AcceptedAtRest DEF Truthful, Rest
<1> QED
  BY <1>1, Fields DEF Account, InFlight, get_bytes_transferred, MBF

\* When finished() is true, no error means that every byte was acknowledged or received,
\* that get_bytes_transferred() says so and that the STOP is out: whatever the FIFO, the
\* lengths and the moments at which a call is rejected, a slave NACKs, another master
\* wins the bus or begin() and end() are called.
THEOREM CompleteWhenFinished ==
    ASSUME PromptSystem
    PROVE  Spec => []Complete
BY OutcomeInvariance, CompleteInvariant, PTL

LEMMA NakInvariant == Inv /\ OutcomeInv => NakReported
BY AcceptedAtRest DEF NakReported, Truthful

\* A NACK is never lost among the interrupts that follow it, nor overwritten by the
\* branches of the ISR that set _error back to ok for a first byte.
THEOREM NakIsReported ==
    ASSUME PromptSystem
    PROVE  Spec => []NakReported
BY OutcomeInvariance, NakInvariant, PTL

\* start() never finds a command or a byte that an earlier call left in the FIFOs.
THEOREM FifosAreEmptyAtStart ==
    ASSUME PromptSystem
    PROVE  Spec => []FifosEmptyAtStart
<1>1. OutcomeInv => FifosEmptyAtStart
  BY DEF OutcomeInv, Common, FifosEmptyAtStart
<1> QED
  BY <1>1, OutcomeInvariance, PTL

LEMMA NoFifoErrorInvariant == OutcomeInv => NoFifoError
BY DEF OutcomeInv, Situation, Rest, Started, Writing, Reading, Winding, NoFifoError

\* Data never reaches the head of the queue without a START before it.
THEOREM NoProgrammingError ==
    ASSUME PromptSystem
    PROVE  Spec => []NoFifoError
BY OutcomeInvariance, NoFifoErrorInvariant, PTL

------------------------------------------------------------------------------
(***************************************************************************)
(* BufferReleased and StaysFinished.                                       *)
(***************************************************************************)
LEMMA BufferReleasedStep ==
    ASSUME PromptSystem, Inv, OutcomeInv, [Next]_vars, Free \/ caller.pc \in {"start", "arm"}
    PROVE  drv'.buff = drv.buff \/ ArmWrite \/ ArmRead
<1>1. CASE ISR
  <2>1. CASE Rest
    BY <1>1, <2>1, RestISR
  <2>2. CASE Winding
    <3>1. caller.pc = "idle" /\ finished /\ bus.phase = "idle"
      BY <2>2 DEF Winding, Free, finished, MBF, OutcomeInv, Common
    <3>2. port.MSR = {"ALF"} /\ port.rx = 0 /\ HoldsStop(port.tx) /\ port.tx # <<>>
      BY <2>2, <3>1, EmptySeq DEF Winding, finished, OutcomeInv, Common, HoldsStop
    <3>3. SameOwner
      BY <1>1, <3>1, <3>2, ISRLost DEF OutcomeInv, Common, MBF
    <3> QED
      BY <3>3 DEF SameOwner
  <2>3. CASE Writing \/ Reading
    BY <2>3 DEF Writing, Reading, Free, finished
  <2>4. CASE Started
    <3>1. caller.pc = "arm"
      BY <2>4 DEF Started, StartedWith, ToArm, ToEnable, ToReceive, ToPushStop, ReadyToWrite,
                  ReadyToRead, ReadyToProbe, Free, finished
    <3>2. ~Interrupt(port)
      BY <2>4, <3>1, InCallStarted DEF Started, ToArm, Interrupt, RDF
    <3> QED
      BY <1>1, <3>2 DEF ISR
  <2> QED
    BY <2>1, <2>2, <2>3, <2>4 DEF OutcomeInv, Situation
<1>2. CASE begin \/ end
  BY <1>2 DEF begin, end
<1>3. CASE MakeCall
  BY <1>3 DEF MakeCall, StartCall, RejectCall, RefuseRead, Inv, TypeOK, DriverType
<1>4. CASE FinishCall
  BY <1>4, FinishCallOutcome
<1>5. CASE BeginOnBus \/ UseBus \/ DisturbBus
  BY <1>5 DEF BeginOnBus, UseBus, DisturbBus
<1>6. CASE UNCHANGED vars
  BY <1>6 DEF vars
<1> QED
  BY <1>1, <1>2, <1>3, <1>4, <1>5, <1>6 DEF Next

\* Once finished() is true the array is the caller's again: no interrupt moves the
\* cursor any more, not even between the start of the next call and its initialise().
THEOREM BufferIsReleased ==
    ASSUME PromptSystem
    PROVE  Spec => BufferReleased
<1>1. Inv /\ OutcomeInv /\ [Next]_vars =>
        [Free \/ caller.pc \in {"start", "arm"} => drv'.buff = drv.buff \/ ArmWrite \/ ArmRead]_vars
  BY BufferReleasedStep
<1> QED
  BY <1>1, OutcomeInvariance, PTL DEF Spec, BufferReleased

\* Nobody else on the bus to lose it to.
SingleMaster == PromptSystem /\ Faults \subseteq {"NAK"}

LEMMA FreeAtRest ==
    ASSUME SingleMaster, Inv, OutcomeInv, Free
    PROVE  Rest /\ drv.state \in {"idle", "stopped"} /\ bus.phase = "idle" /\ port.tx = <<>>
<1>1. "ALF" \notin port.MSR
  BY DEF SingleMaster, OutcomeInv, Common
<1> QED
  BY <1>1, FinishedAtRest DEF Free, Rest

LEMMA StaysFinishedStep ==
    ASSUME SingleMaster, Inv, OutcomeInv, [Next]_vars, Free
    PROVE  finished' \/ StartCall
<1>1. Rest /\ drv.state \in {"idle", "stopped"} /\ bus.phase = "idle" /\ port.tx = <<>>
      /\ caller.pc = "idle" /\ finished /\ PromptSystem
  BY FreeAtRest DEF Free, SingleMaster
<1>2. CASE ISR
  BY <1>1, <1>2, RestISR DEF finished, MBF, Rest
<1>3. CASE begin \/ end
  <2>1. Rest' /\ drv' = drv
    BY <1>3, RestartOutcome DEF begin, end
  <2> QED
    BY <1>1, <2>1 DEF finished, MBF, Rest
<1>4. CASE MakeCall
  <2>1. CASE RefuseRead
    BY <1>1, <2>1 DEF RefuseRead, finished, MBF, Inv, TypeOK, DriverType
  <2> QED
    BY <1>1, <1>4, <2>1 DEF MakeCall, RejectCall
<1>5. ~FinishCall
  BY <1>1 DEF FinishCall, Abort, AbortStop, Rejected, SendStart, Probe, ArmWrite, EnableTransmit,
              ArmRead, PushReceive, PushStop, At
<1>6. ~(BeginOnBus \/ UseBus \/ DisturbBus)
  BY <1>1, RestBus DEF BeginOnBus, PopStart, Queued, UseBus, DisturbBus, HoldPin, PinHeldLow,
                       PinReleased, PromptSystem, OutcomeInv, Common
<1>7. CASE UNCHANGED vars
  BY <1>1, <1>7 DEF vars, finished, MBF
<1> QED
  BY <1>2, <1>3, <1>4, <1>5, <1>6, <1>7 DEF Next

\* Without another master, finished() stays true until the next call is made: no late
\* flag, and no STOP that is left in the queue, makes the driver busy again.
THEOREM FinishedStays ==
    ASSUME SingleMaster
    PROVE  Spec => StaysFinished
<1>1. Inv /\ OutcomeInv /\ [Next]_vars => [Free => finished' \/ StartCall]_vars
  BY StaysFinishedStep
<1>2. Spec => [](Inv /\ OutcomeInv)
  BY OutcomeInvariance DEF SingleMaster
<1> QED
  BY <1>1, <1>2, PTL DEF Spec, StaysFinished

------------------------------------------------------------------------------
(***************************************************************************)
(* NoInterruptStorm: the ISR takes back whatever it was called for.        *)
(***************************************************************************)
\* Giving up a transaction touches no flag, and drops the bytes received.
LEMMA AbortSignals ==
    ASSUME NEW m, MachineInv(m)
    PROVE  abort_transaction_async(m).port.MSR = m.port.MSR /\ abort_transaction_async(m).port.rx = 0
<1> DEFINE cleared == Cleared(m.port)
<1>1. cleared \in PortType /\ cleared.MSR = m.port.MSR /\ cleared.rx = 0 /\ cleared.tx = <<>>
  <2>1. PortInv(cleared)
    BY ClearedInv DEF MachineInv
  <2> QED
    BY <2>1 DEF PortInv, MachineInv, PortType, Cleared
<1>2. \/ abort_transaction_async(m) = [m EXCEPT !.port = cleared]
      \/ abort_transaction_async(m) = [m EXCEPT !.port = Push(cleared, STOP)]
  BY DEF abort_transaction_async
<1> HIDE DEF cleared
<1>3. Push(cleared, STOP).MSR = cleared.MSR /\ Push(cleared, STOP).rx = cleared.rx
  BY <1>1, PushEmpty, StopCommand DEF PortType
<1>4. [m EXCEPT !.port = cleared].port = cleared
      /\ [m EXCEPT !.port = Push(cleared, STOP)].port = Push(cleared, STOP)
  BY DEF MachineInv
<1> QED
  BY <1>1, <1>2, <1>3, <1>4

LEMMA ErrorSignals ==
    ASSUME NEW m, MachineInv(m), ~bus.pin_low
    PROVE  /\ HandleErrors(m, m.port.MSR).port.MSR = m.port.MSR \ ErrorFlags
           /\ HandleErrors(m, m.port.MSR).port.rx \in {0, m.port.rx}
<1> DEFINE d == [m.drv EXCEPT !.error = ErrorAfter(m.drv, m.port.MSR)]
           p == ClearFlags(m.port, m.port.MSR \cap ErrorFlags)
           stopped == [drv |-> [d EXCEPT !.state = "stopping"], port |-> p]
<1>1. PortInv(p) /\ p.MSR = m.port.MSR \ ErrorFlags /\ p.rx = m.port.rx
  <2>1. PortInv(p)
    BY ClearFlagsInv DEF MachineInv
  <2>2. p.MSR = m.port.MSR \ (m.port.MSR \cap ErrorFlags) /\ p.rx = m.port.rx
    BY DEF ClearFlags, MachineInv, PortInv, PortType
  <2> HIDE DEF p
  <2> QED
    BY <2>1, <2>2
<1>2. MachineInv(stopped)
  <2>1. DriverInv(d)
    BY ErrorAfterType DEF MachineInv, DriverInv, DriverType
  <2>2. DriverInv([d EXCEPT !.state = "stopping"])
    BY <2>1 DEF DriverInv, DriverType, State
  <2> QED
    BY <1>1, <2>2, MachineParts
<1>3. m.port.MSR \cap ErrorFlags # {} =>
        HandleErrors(m, m.port.MSR) \in {[drv |-> d, port |-> p], abort_transaction_async(stopped)}
  BY DEF HandleErrors
<1>4. m.port.MSR \cap ErrorFlags = {} => HandleErrors(m, m.port.MSR) = m
  BY DEF HandleErrors
<1>5. /\ abort_transaction_async(stopped).port.MSR = p.MSR
      /\ abort_transaction_async(stopped).port.rx = 0
  BY <1>2, AbortSignals
<1> HIDE DEF d, p, stopped
<1> QED
  BY <1>1, <1>3, <1>4, <1>5

LEMMA StopSignals ==
    ASSUME NEW m, MachineInv(m), ~bus.pin_low, NEW msr
    PROVE  /\ "SDF" \in msr => HandleStop(m, msr).port.MSR = m.port.MSR \ {"SDF"}
           /\ "SDF" \notin msr => HandleStop(m, msr).port.MSR = m.port.MSR
           /\ HandleStop(m, msr).port.rx = m.port.rx
BY DEF HandleStop, ClearFlags, MachineInv, PortInv, PortType

LEMMA ReceiveSignals ==
    ASSUME NEW m, MachineInv(m), NEW rdf
    PROVE  /\ HandleReceive(m, rdf).port.MSR = m.port.MSR
           /\ ~rdf => HandleReceive(m, rdf) = m
           /\ rdf => HandleReceive(m, rdf).port.rx = 0 \/ HandleReceive(m, rdf).port.rx < m.port.rx
<1>1. CASE ~rdf
  BY <1>1 DEF HandleReceive
<1>2. CASE rdf /\ ~m.drv.ignore_tdf
  <2> DEFINE stopped == [m EXCEPT !.drv.state = "stopping"]
  <2>1. MachineInv(stopped) /\ stopped.port = m.port
    <3>1. stopped = [drv |-> [m.drv EXCEPT !.state = "stopping"], port |-> m.port]
      BY DEF MachineInv
    <3>2. DriverInv([m.drv EXCEPT !.state = "stopping"]) /\ PortInv(m.port)
      BY DEF MachineInv, DriverInv, DriverType, State
    <3> QED
      BY <3>1, <3>2, MachineParts
  <2>2. HandleReceive(m, rdf) = abort_transaction_async(stopped)
    BY <1>2 DEF HandleReceive
  <2> HIDE DEF stopped
  <2> QED
    BY <1>2, <2>1, <2>2, AbortSignals
<1>3. CASE rdf /\ m.drv.ignore_tdf
  <2> DEFINE taken == TakeByte(m)
             next == IF tx_fifo_count(taken.port) = 1 THEN "stopping" ELSE "transfer_complete"
             over == [drv  |-> [taken.drv EXCEPT !.state = next],
                      port |-> [taken.port EXCEPT !.MEN = FALSE]]
  <2>1. /\ taken.port \in PortType /\ taken.port.MSR = m.port.MSR
        /\ taken.port.rx = 0 \/ taken.port.rx < m.port.rx
    <3>1. m.port \in PortType /\ m.port.rx \in Nat
      BY HardwareAssumption DEF MachineInv, PortInv, PortType
    <3>2. taken.port \in PortType
      BY TakeByteInv DEF MachineInv, PortInv
    <3>3. taken.port \in {[m.port EXCEPT !.rx = IF @ > 0 THEN @ - 1 ELSE 0], [m.port EXCEPT !.rx = 0]}
      BY DEF TakeByte
    <3> HIDE DEF taken
    <3> QED
      BY <3>1, <3>2, <3>3 DEF PortType
  <2>2. HandleReceive(m, rdf) = taken \/ HandleReceive(m, rdf) = over
    BY <1>3 DEF HandleReceive
  <2> HIDE DEF taken, next
  <2>3. over.port.MSR = taken.port.MSR /\ over.port.rx = taken.port.rx
    BY <2>1 DEF PortType
  <2> HIDE DEF over
  <2> QED
    BY <1>3, <2>1, <2>2, <2>3
<1> QED
  BY <1>1, <1>2, <1>3

LEMMA TransmitSignals ==
    ASSUME NEW m, MachineInv(m), NEW tdf
    PROVE  /\ HandleTransmit(m, tdf).port.MSR = m.port.MSR
           /\ HandleTransmit(m, tdf).port.rx = m.port.rx
<1> DEFINE begun == [drv |-> Begun(m.drv), port |-> m.port]
           filled == FillFifo(begun)
<1>1. MachineInv(begun)
  BY BegunInv, MachineParts DEF MachineInv
<1>2. MachineInv(filled) /\ filled.port.MSR = m.port.MSR /\ filled.port.rx = m.port.rx
  <2>1. MachineInv(filled)
    <3> HIDE DEF begun
    <3> QED
      BY <1>1, FillFifoInv
  <2>2. PICK k : filled.port = TransmitK(m.port, k)
    BY DEF FillFifo
  <2> HIDE DEF filled
  <2> QED
    BY <2>1, <2>2 DEF TransmitK, MachineInv, PortInv, PortType
<1>3. /\ EndOfWrite(filled).port.MSR = filled.port.MSR
      /\ EndOfWrite(filled).port.rx = filled.port.rx
  <2> DEFINE p == [filled.port EXCEPT !.TDIE = FALSE, !.MEN = FALSE]
  <2> HIDE DEF filled
  <2>1. p.MSR = filled.port.MSR /\ p.rx = filled.port.rx /\ p \in PortType
    BY <1>2 DEF MachineInv, PortInv, PortType
  <2>2. Push(p, STOP).MSR = p.MSR /\ Push(p, STOP).rx = p.rx
    <3> HIDE DEF p
    <3> QED
      BY <2>1 DEF Push, PortType
  <2>3. EndOfWrite(filled).port = p \/ EndOfWrite(filled).port = Push(p, STOP)
    BY <1>2 DEF EndOfWrite, MachineInv
  <2> HIDE DEF p
  <2> QED
    BY <2>1, <2>2, <2>3
<1>4. [m EXCEPT !.drv = Begun(@)] = begun
  BY DEF MachineInv
<1>5. HandleTransmit(m, tdf) \in {m, begun, filled, EndOfWrite(filled)}
  <2> HIDE DEF begun
  <2> QED
    BY <1>4 DEF HandleTransmit
<1>6. begun.port = m.port
  OBVIOUS
<1> HIDE DEF filled, begun
<1> QED
  BY <1>2, <1>3, <1>5, <1>6

\* The ISR clears every flag and takes a byte, wherever the system is, as long as no line
\* is held low.
LEMMA SignalsTakenBack ==
    ASSUME Inv, ~bus.pin_low
    PROVE  /\ ServiceInterrupt(Machine).port.MSR = {}
           /\ RDF(port) => ServiceInterrupt(Machine).port.rx # port.rx
<1> DEFINE e == HandleErrors(Machine, port.MSR)
           s == HandleStop(e, port.MSR)
           r == HandleReceive(s, RDF(port))
           t == HandleTransmit(r, TDF(port))
<1>1. MachineInv(Machine) /\ Machine.port = port /\ port.MSR \subseteq LatchedFlags
      /\ port.rx \in Nat
  BY MachineOfInv, HardwareAssumption DEF Machine, Inv, TypeOK, PortType
<1>2. MachineInv(e) /\ e.port.MSR = port.MSR \ ErrorFlags /\ e.port.rx \in {0, port.rx}
  BY <1>1, HandleErrorsInv, ErrorSignals
<1> HIDE DEF e
<1>3. MachineInv(s) /\ s.port.MSR = {} /\ s.port.rx \in {0, port.rx}
  <2>1. MachineInv(s) /\ s.port.rx = e.port.rx
    BY <1>2, HandleStopInv, StopSignals
  <2>2. s.port.MSR = {}
    BY <1>1, <1>2, StopSignals DEF LatchedFlags
  <2> QED
    BY <1>2, <2>1, <2>2
<1> HIDE DEF s
<1>4. MachineInv(r) /\ r.port.MSR = {} /\ (RDF(port) => r.port.rx # port.rx)
  <2>1. MachineInv(r) /\ r.port.MSR = {}
    BY <1>3, HandleReceiveInv, ReceiveSignals
  <2>2. RDF(port) => r.port.rx = 0 \/ r.port.rx < s.port.rx
    BY <1>3, ReceiveSignals
  <2>3. r.port.rx \in Nat
    BY <2>1, HardwareAssumption DEF MachineInv, PortInv, PortType
  <2> HIDE DEF r
  <2> QED
    BY <1>1, <1>3, <2>1, <2>2, <2>3 DEF RDF
<1> HIDE DEF r
<1>5. t.port.MSR = r.port.MSR /\ t.port.rx = r.port.rx
  BY <1>4, TransmitSignals
<1>6. ServiceInterrupt(Machine) = t
  BY <1>1 DEF ServiceInterrupt, e, s, r
<1> HIDE DEF t
<1> QED
  BY <1>4, <1>5, <1>6

LEMMA StormInvariant == Inv /\ OutcomeInv => NoInterruptStorm
<1> SUFFICES ASSUME Inv, OutcomeInv, Interrupt(port), ServiceInterrupt(Machine) = Machine
             PROVE  FALSE
  BY DEF NoInterruptStorm
<1>1. ~bus.pin_low /\ Machine.port = port /\ Machine.drv = drv
  BY DEF OutcomeInv, Common, Machine
<1>2. port.MSR = {} /\ ~RDF(port) /\ port.rx = 0
  <2>1. port.MSR = {} /\ ~RDF(port)
    BY <1>1, SignalsTakenBack
  <2>2. port.rx \in Nat
    BY HardwareAssumption DEF Inv, TypeOK, PortType
  <2> QED
    BY <2>1, <2>2 DEF RDF
<1>3. port.TDIE /\ port.tx = <<>>
  BY <1>2 DEF Interrupt, TDF
<1>4. /\ ~drv.ignore_tdf /\ drv.stop_on_completion
      /\ \/ not_started(drv.buff) /\ ~all_done(drv.buff)
         \/ ~not_started(drv.buff) /\ drv.state = "transferring"
  <2>1. CASE Started
    <3>1. ReadyToWrite(<<>>)
      <4>1. BehindStart = <<>>
        BY <1>3, <2>1 DEF Started, BehindStart, Queued
      <4> QED
        BY <1>3, <2>1, <4>1, EmptySeq DEF Started, StartedWith, ToArm, ToEnable, ToReceive,
             ToPushStop, ReadyToWrite, ReadyToRead, ReadyToProbe
    <3> QED
      BY <3>1 DEF ReadyToWrite, Loaded, initialise, not_started, all_done
  <2>2. CASE Writing
    BY <2>2 DEF Writing, not_started
  <2> QED
    BY <1>3, <2>1, <2>2 DEF OutcomeInv, Situation, Rest, Reading, Winding
<1>5. drv \in DriverType /\ drv.buff \in Buffer
  BY DEF Inv, TypeOK, DriverType
<1>6. CASE ~all_done(drv.buff)
  <2>1. PICK run \in Seq(Command) :
          /\ run # <<>> /\ HoldsTransmits(run)
          /\ ServiceInterrupt(Machine) = [drv  |-> [Begun(drv) EXCEPT !.buff = read(@, Len(run))],
                                          port |-> [port EXCEPT !.tx = run]]
    BY <1>2, <1>3, <1>4, <1>6, FillService
  <2>2. [port EXCEPT !.tx = run] = port
    BY <1>1, <2>1
  <2>3. port.tx = run
    <3>1. port \in PortType
      BY DEF Inv, TypeOK
    <3> QED
      BY <2>2, <3>1 DEF PortType
  <2> QED
    BY <1>3, <2>1, <2>3
<1>7. CASE all_done(drv.buff)
  <2>1. EndOfWrite(Machine).drv = drv
    BY <1>1, <1>2, <1>3, <1>4, <1>7, EndOfWriteService
  <2>2. EndOfWrite(Machine).drv = [drv EXCEPT !.state = "stopping"]
    BY <1>4 DEF EndOfWrite, Machine
  <2>3. drv.state = "stopping"
    BY <1>5, <2>1, <2>2 DEF DriverType
  <2> QED
    BY <1>4, <1>7, <2>3
<1> QED
  BY <1>6, <1>7

\* The ISR is never entered again for what it was entered for: it clears each flag, takes
\* the byte, and either fills the queue or disables the interrupt.
THEOREM NoStorm ==
    ASSUME PromptSystem
    PROVE  Spec => []NoInterruptStorm
BY OutcomeInvariance, StormInvariant, PTL

------------------------------------------------------------------------------
(***************************************************************************)
(* The driver does nothing but what I2CTransfer promises.                  *)
(***************************************************************************)
\* A START waits in the queue only while the bus is idle.
LEMMA StartWaits == Inv /\ OutcomeInv /\ Queued("START") => Started /\ bus.phase = "idle"
<1> SUFFICES ASSUME Inv, OutcomeInv, Queued("START") PROVE Started /\ bus.phase = "idle"
  OBVIOUS
<1>1. ~Queued("STOP") /\ ~Queued("RECEIVE") /\ ~Queued("TRANSMIT") /\ port.tx # <<>>
  BY DEF Queued
<1>2. ~HoldsStop(port.tx) /\ ~HoldsRead(port.tx, drv.buff.size) /\ ~HoldsTransmits(port.tx)
  BY <1>1, NextCommand
<1>3. Started
  BY <1>1, <1>2 DEF OutcomeInv, Situation, Rest, Writing, Reading, Winding
<1>4. ASSUME bus.phase = "address" PROVE FALSE
  <2>1. StartedWith(port.tx)
    BY <1>3, <1>4 DEF Started, BehindStart
  <2>2. ~HoldsReceive(port.tx, caller.n)
    BY <1>1, Fields, CommandKinds DEF HoldsReceive, Queued
  <2> QED
    BY <1>1, <1>2, <2>1, <2>2 DEF StartedWith, ToArm, ToEnable, ToReceive, ToPushStop,
          ReadyToWrite, ReadyToRead, ReadyToProbe
<1> QED
  BY <1>3, <1>4 DEF Started

LEMMA StartWaitsNext ==
    (Inv /\ OutcomeInv)' /\ Queued("START")' => Started' /\ (bus.phase = "idle")'
BY StartWaits, PTL

\* A byte on its way was asked for by the call.
LEMMA ByteWanted ==
    ASSUME Inv, OutcomeInv, Accepted, port.MSR = {}, bus.phase \in {"sending", "receiving"}
    PROVE  bus.moved < caller.n
<1>1. CASE Writing
  <2>1. bus.moved + 1 + Len(port.tx) = drv.buff.next_index /\ drv.buff.size = caller.n
    BY <1>1, Fields DEF Writing, InFlight, OutcomeInv, Common
  <2> QED
    BY <2>1, Fields DEF Inv, BufferInBounds
<1>2. CASE Winding
  <2>1. Account
    BY <1>2 DEF OutcomeInv, Truthful
  <2> QED
    BY <2>1, Fields DEF Account, InFlight, OutcomeInv, Common
<1> QED
  BY <1>1, <1>2 DEF OutcomeInv, Situation, Rest, Started, Reading

\* status, outcome and moved, by what the driver and the caller are doing.
LEMMA FreeMeans == OutcomeInv => (Free <=> /\ caller.pc = "idle" /\ bus.phase = "idle"
                                           /\ drv.state \in {"idle", "stopped"})
BY DEF OutcomeInv, Common, Free, finished, MBF

LEMMA FreeMeansNext ==
    OutcomeInv' => (Free' <=> /\ (caller.pc = "idle")' /\ (bus.phase = "idle")'
                              /\ (drv.state \in {"idle", "stopped"})')
BY FreeMeans, PTL

LEMMA CompleteNext == (Inv /\ OutcomeInv)' => Complete'
BY CompleteInvariant, PTL

LEMMA NoFifoErrorNext == OutcomeInv' => NoFifoError'
BY NoFifoErrorInvariant, PTL

Status == IF Free THEN "finished" ELSE "busy"
Sees == <<Status, outcomeOfCall, caller.n, bytesMoved>>

\* Nothing that I2CTransfer speaks of changes.
LEMMA Unseen ==
    ASSUME ~Free, ~Free', caller.answer' = caller.answer, caller.n' = caller.n,
           bytesMoved' = bytesMoved
    PROVE  UNCHANGED Sees
BY DEF Sees, Status, outcomeOfCall, Accepted

\* An interrupt ends a transfer, or is not seen.
LEMMA ISRPromise ==
    ASSUME SingleMaster, Inv, OutcomeInv, ISR
    PROVE  Promise!Next \/ UNCHANGED Sees
<1>1. /\ UNCHANGED <<bus, caller>> /\ Interrupt(port) /\ Inv' /\ OutcomeInv'
      /\ caller'.answer = caller.answer /\ caller'.n = caller.n
  BY ISRKeepsInv, ISRKeepsOutcome DEF ISR
<1>2. CASE Rest /\ caller.pc = "idle"
  <2>1. /\ Rest' /\ port.MSR = {"SDF"} /\ drv'.state = "stopped" /\ drv'.error = drv.error
        /\ caller.pc = "idle" /\ bus.phase = "idle"
    BY <1>1, <1>2, RestISR DEF Rest
  <2>2. Free' /\ ~Queued("START") /\ ~Queued("START")'
    BY <1>1, <1>2, <2>1, FreeMeansNext DEF Rest, Queued
  <2>3. CASE Free
    <3>1. outcomeOfCall' = outcomeOfCall
      BY <1>1, <2>1, <2>2, <2>3 DEF outcomeOfCall, Accepted
    <3> QED
      BY <1>1, <2>1, <2>2, <2>3, <3>1 DEF Sees, Status, bytesMoved
  <2>4. CASE ~Free
    <3>1. caller.answer # "none"
      BY <2>1 DEF OutcomeInv, Common
    <3>2. CASE Accepted
      <4>1. outcomeOfCall = "none" /\ bytesMoved = bus.moved
        BY <2>1, <2>2, <2>4, <3>2 DEF outcomeOfCall, Accepted, bytesMoved
      <4>2. CASE drv.error = "ok"
        <5>1. bus.moved = caller.n
          BY <1>1, <2>1, <2>2, <3>2, <4>2, CompleteNext DEF Complete, Accepted
        <5>2. outcomeOfCall' = "success" /\ bytesMoved' = bus.moved
          BY <1>1, <2>1, <2>2, <3>2, <4>2 DEF outcomeOfCall, Accepted, bytesMoved
        <5> QED
          BY <1>1, <2>2, <2>4, <4>1, <5>1, <5>2 DEF Promise!Next, Promise!End
      <4>3. CASE drv.error # "ok"
        <5>1. outcomeOfCall' = "failure" /\ bytesMoved' = 0
          BY <1>1, <2>1, <2>2, <3>2, <4>3 DEF outcomeOfCall, Accepted, bytesMoved
        <5> QED
          BY <1>1, <2>2, <2>4, <5>1 DEF Promise!Next, Promise!End
      <4> QED
        BY <4>2, <4>3
    <3>3. CASE caller.answer = "refused"
      <4>1. outcomeOfCall' = "failure" /\ bytesMoved' = 0
        BY <1>1, <3>3 DEF outcomeOfCall, Accepted, bytesMoved
      <4> QED
        BY <1>1, <2>2, <2>4, <4>1 DEF Promise!Next, Promise!End
    <3> QED
      BY <3>1, <3>2, <3>3 DEF Accepted, Inv, TypeOK, CallerType
  <2> QED
    BY <2>3, <2>4
<1>3. CASE Rest /\ caller.pc # "idle"
  <2>1. caller.pc = "abort" /\ caller.answer = "refused"
    BY <1>1, <1>3, RestISR DEF Rest, OutcomeInv, Common
  <2> QED
    BY <1>1, <2>1 DEF Sees, Status, Free, outcomeOfCall, Accepted, bytesMoved
<1>4. CASE ~Rest
  <2>1. bus.phase # "idle"
    <3>1. "ALF" \notin port.MSR
      BY DEF SingleMaster, OutcomeInv, Common
    <3>2. CASE Started
      BY <1>1, <3>2, StartedISR DEF Started, Interrupt, RDF, TDF, Queued
    <3>3. CASE Writing
      BY <3>1, <3>3 DEF Writing, FailedWith
    <3>4. CASE Reading
      BY <3>1, <3>4 DEF Reading, FailedWith
    <3>5. CASE Winding
      BY <1>1, <3>1, <3>5 DEF Winding, Interrupt, RDF
    <3> QED
      BY <1>4, <3>2, <3>3, <3>4, <3>5 DEF OutcomeInv, Situation
  <2>2. ~Free /\ ~Free' /\ ~Queued("START") /\ ~Queued("START")'
    BY <1>1, <2>1, FreeMeans, FreeMeansNext, StartWaits, StartWaitsNext
  <2>3. outcomeOfCall' = outcomeOfCall
    BY <1>1, <2>2 DEF outcomeOfCall, Accepted
  <2>4. bytesMoved' = bytesMoved
    BY <1>1, <2>2, <2>3 DEF bytesMoved
  <2> QED
    BY <1>1, <2>2, <2>4, Unseen
<1> QED
  BY <1>2, <1>3, <1>4

LEMMA RestartPromise ==
    ASSUME SingleMaster, PatientRestart, Inv, OutcomeInv, begin \/ end
    PROVE  Promise!Next
<1>1. Free /\ drv' = drv /\ caller'.answer = "none" /\ caller'.n = caller.n /\ caller'.pc = "idle"
      /\ bus'.moved = 0
  BY DEF begin, end, At, Free, Inv, TypeOK, CallerType, IdleBus
<1>2. OutcomeInv' /\ Rest'
  BY RestartOutcome
<1>3. Free'
  BY <1>1, <1>2, FreeMeans, FreeMeansNext DEF Rest
<1>4. outcomeOfCall' = "none" /\ bytesMoved' = 0
  BY <1>1 DEF outcomeOfCall, Accepted, bytesMoved
<1> QED
  BY <1>1, <1>3, <1>4 DEF Promise!Next, Promise!Restart

LEMMA MakeCallPromise ==
    ASSUME SingleMaster, Inv, OutcomeInv, MakeCall
    PROVE  Promise!Next
<1>1. caller'.n \in Nat
  BY MakeCallKeepsInv, HardwareAssumption DEF Inv, TypeOK, CallerType
<1>2. CASE StartCall
  <2>1. PICK op \in {"write", "read"}, n \in Lengths, stop \in SendStop :
          /\ op = "read" => n <= MAX_MASTER_READ_LENGTH
          /\ caller' = [pc |-> "start", op |-> op, n |-> n, stop |-> stop, answer |-> "none"]
          /\ drv' = [drv EXCEPT !.ignore_tdf = (op = "read"), !.error = "ok",
                                !.state = "starting"]
    BY <1>2, Zenon DEF StartCall
  <2>2. caller'.pc = "start" /\ caller'.answer = "none"
    BY <2>1
  <2>3. Free /\ ~Free' /\ outcomeOfCall' = "none" /\ bytesMoved' = 0
    BY <1>2, <2>2 DEF StartCall, MayCall, At, Free, outcomeOfCall, Accepted, bytesMoved
  <2> QED
    BY <1>1, <2>3 DEF Promise!Next, Promise!Start
<1>3. CASE RejectCall
  <2>1. caller'.pc = "abort" /\ caller'.answer = "refused"
    BY <1>3 DEF RejectCall
  <2>2. ~Free /\ ~Free' /\ outcomeOfCall' = "failure" /\ bytesMoved' = 0
    BY <1>3, <2>1 DEF RejectCall, Free, outcomeOfCall, Accepted, bytesMoved
  <2> QED
    BY <1>1, <2>2 DEF Promise!Next, Promise!Refuse
<1>4. CASE RefuseRead
  <2>1. /\ caller.pc = "idle" /\ caller'.pc = "idle" /\ caller'.answer = "refused"
        /\ UNCHANGED bus /\ drv'.state = drv.state
    BY <1>4 DEF RefuseRead, MayCall, At, Inv, TypeOK, DriverType
  <2>2. (Free' <=> Free) /\ outcomeOfCall' = "failure" /\ bytesMoved' = 0
    BY <2>1 DEF Free, finished, MBF, outcomeOfCall, Accepted, bytesMoved
  <2> QED
    BY <1>1, <2>2 DEF Promise!Next, Promise!Refuse
<1> QED
  BY <1>2, <1>3, <1>4 DEF MakeCall

LEMMA FinishCallPromise ==
    ASSUME SingleMaster, Inv, OutcomeInv, FinishCall
    PROVE  Promise!Next \/ UNCHANGED Sees
<1>1. Inv' /\ OutcomeInv' /\ (Abort \/ AbortStop \/ Rejected \/ Started')
  BY FinishCallKeepsInv, FinishCallOutcome
<1>2. CASE Rejected
  <2>1. /\ caller.pc = "reject" /\ caller.answer = "refused"
        /\ caller'.answer = "refused" /\ caller'.n = caller.n
    BY <1>2 DEF Rejected, At, Return, Inv, TypeOK, CallerType, OutcomeInv, Common
  <2>2. ~Free /\ outcomeOfCall = "failure" /\ outcomeOfCall' = "failure"
        /\ bytesMoved = 0 /\ bytesMoved' = 0
    BY <2>1 DEF Free, outcomeOfCall, Accepted, bytesMoved
  <2>3. CASE Free'
    BY <2>1, <2>2, <2>3 DEF Promise!Next, Promise!End
  <2>4. CASE ~Free'
    BY <2>1, <2>2, <2>4 DEF Sees, Status
  <2> QED
    BY <2>3, <2>4
<1>3. CASE Abort \/ AbortStop
  <2>1. /\ caller.pc \in {"abort", "abort_stop"} /\ caller.answer = "refused"
        /\ caller'.answer = "refused" /\ caller'.pc # "idle" /\ caller'.n = caller.n
    BY <1>3 DEF Abort, AbortStop, At, Goto, Inv, TypeOK, CallerType, OutcomeInv, Common
  <2> QED
    BY <2>1 DEF Sees, Status, Free, outcomeOfCall, Accepted, bytesMoved
<1>4. CASE ~(Abort \/ AbortStop \/ Rejected)
  <2>1. /\ caller.pc \notin {"idle", "abort", "abort_stop", "reject"} /\ UNCHANGED bus
        /\ caller'.n = caller.n /\ caller'.pc # "start" /\ caller.answer = "none"
    <3>1. caller.pc \notin {"idle", "abort", "abort_stop", "reject"}
      BY <1>4 DEF FinishCall, SendStart, Probe, ArmWrite, EnableTransmit, ArmRead, PushReceive,
                  PushStop, At
    <3>2. UNCHANGED bus /\ caller'.n = caller.n /\ caller'.pc # "start"
      BY <1>4 DEF FinishCall, SendStart, Probe, ArmWrite, EnableTransmit, ArmRead, PushReceive,
                  PushStop, Goto, Return, Inv, TypeOK, CallerType
    <3> QED
      BY <3>1, <3>2 DEF OutcomeInv, Common
  <2>2. Started' /\ drv'.state = "starting"
    BY <1>1, <1>4 DEF Started
  <2>3. ~Free /\ ~Free'
    BY <1>1, <2>1, <2>2, FreeMeans, FreeMeansNext
  <2>4. caller'.answer # "refused"
    <3>1. CASE caller'.pc = "idle"
      <4>1. CASE SendStart
        BY <3>1, <4>1, SendStartOutcome
      <4>2. CASE ~SendStart
        BY <1>4, <3>1, <4>2 DEF FinishCall, Probe, ArmWrite, EnableTransmit, ArmRead, PushReceive,
           PushStop, Goto, Return, Inv, TypeOK, CallerType
      <4> QED
        BY <4>1, <4>2
    <3>2. CASE caller'.pc # "idle"
      <4>1. caller'.pc \notin {"abort", "abort_stop", "reject"}
        BY <1>4, <3>2 DEF FinishCall, SendStart, Probe, ArmWrite, EnableTransmit, ArmRead,
           PushReceive, PushStop, Goto, Return, Inv, TypeOK, CallerType
      <4> QED
        BY <1>1, <3>2, <4>1 DEF OutcomeInv, Common
    <3> QED
      BY <3>1, <3>2
  <2>5. outcomeOfCall = "none" /\ outcomeOfCall' = "none"
    BY <2>1, <2>3, <2>4 DEF outcomeOfCall, Accepted
  <2>6. bytesMoved' = bytesMoved
    <3>1. CASE bus.phase = "idle"
      <4>1. Queued("START")'
        BY <2>1, <2>2, <3>1 DEF Started
      <4>2. caller.pc = "start" \/ Queued("START")
        BY <2>1, <3>1, InCallStarted DEF Started
      <4> QED
        BY <4>1, <4>2 DEF bytesMoved
    <3>2. CASE bus.phase # "idle"
      <4>1. ~Queued("START") /\ ~Queued("START")'
        BY <1>1, <2>1, <3>2, StartWaits, StartWaitsNext
      <4>2. caller.pc # "start"
        BY <3>2 DEF OutcomeInv, Situation, Rest, Started, StartedWith, ToArm, ToEnable, ToReceive,
           ToPushStop, ReadyToWrite, ReadyToRead, ReadyToProbe, Writing, Reading, Winding
      <4> QED
        BY <2>1, <2>5, <4>1, <4>2 DEF bytesMoved
    <3> QED
      BY <3>1, <3>2
  <2> QED
    BY <2>1, <2>3, <2>5, <2>6 DEF Sees, Status
<1> QED
  BY <1>2, <1>3, <1>4

LEMMA BeginOnBusPromise ==
    ASSUME SingleMaster, Inv, OutcomeInv, BeginOnBus
    PROVE  UNCHANGED Sees
<1>1. /\ Queued("START") /\ UNCHANGED <<drv, caller>> /\ Inv' /\ OutcomeInv'
      /\ bus'.phase = "address" /\ bus'.moved = 0
  BY BeginOnBusOutcome, BusKeepsInv, WireSteps DEF BeginOnBus, PopStart
<1>2. Started /\ drv.state = "starting" /\ ~Queued("START")'
  BY <1>1, StartWaits, StartWaitsNext DEF Started
<1>3. ~Free /\ ~Free'
  BY <1>1, <1>2, FreeMeans, FreeMeansNext
<1>4. bytesMoved = 0 /\ bytesMoved' = 0
  BY <1>1 DEF bytesMoved
<1> QED
  BY <1>1, <1>3, <1>4, Unseen

LEMMA UseBusPromise ==
    ASSUME SingleMaster, Inv, OutcomeInv, UseBus
    PROVE  Promise!Next \/ UNCHANGED Sees
<1>1. /\ Transfer /\ UNCHANGED <<drv, caller>> /\ caller.pc \in {"idle", "abort"} /\ ~Interrupt(port)
      /\ Inv' /\ OutcomeInv'
  BY QuietBus, BusKeepsInv, BusOutcome DEF SingleMaster
<1>2. ~Rest /\ ~Free
  BY <1>1, RestBus, FreeAtRest
<1>3. caller.answer # "none"
  BY <1>1, <1>2 DEF OutcomeInv, Common
<1>4. ~Queued("START")
  <2> SUFFICES ASSUME Queued("START") PROVE FALSE
    OBVIOUS
  <2>1. bus.phase = "idle" /\ ~Queued("STOP") /\ ~Queued("RECEIVE") /\ ~Queued("TRANSMIT")
    BY StartWaits DEF Queued
  <2> QED
    BY <1>1, <2>1 DEF Transfer, PopTransmit, PopReceive, PopStop, AddressAcked, ByteAcked,
          Nacked, ByteReceived, AutoStop, StopSent, DiscardStop, FifoError, ArbitrationLost
<1>5. CASE bus'.phase # "idle"
  <2>1. ~Free' /\ ~Queued("START")'
    BY <1>1, <1>5, FreeMeansNext, StartWaitsNext
  <2>2. outcomeOfCall' = outcomeOfCall /\ outcomeOfCall \in {"none", "failure"}
        /\ (outcomeOfCall = "none" <=> Accepted)
    BY <1>1, <1>2, <1>3, <2>1 DEF outcomeOfCall, Accepted, Inv, TypeOK, CallerType
  <2>3. /\ bytesMoved = IF outcomeOfCall = "failure" THEN 0 ELSE bus.moved
        /\ bytesMoved' = IF outcomeOfCall = "failure" THEN 0 ELSE bus'.moved
    BY <1>1, <1>4, <2>1, <2>2 DEF bytesMoved
  <2>4. CASE bus'.moved = bus.moved \/ ~Accepted
    BY <1>1, <1>2, <2>1, <2>2, <2>3, <2>4, Unseen
  <2>5. CASE bus'.moved # bus.moved /\ Accepted
    <3>1. ByteAcked \/ ByteReceived
      BY <1>1, <2>5, WireSteps DEF Transfer, DiscardStop, FifoError, AutoStop, Inv, TypeOK, BusType
    <3>2. bus.phase \in {"sending", "receiving"} /\ bus'.moved = bus.moved + 1
      BY <3>1, WireSteps DEF ByteAcked, ByteReceived
    <3>3. port.MSR = {}
      <4>1. port.irq
        BY <3>2 DEF OutcomeInv, Situation, Rest, Started, Writing, Reading, Winding
      <4> QED
        BY <1>1, <4>1, Uninterrupted
    <3>4. bus.moved < caller.n
      BY <2>5, <3>2, <3>3, ByteWanted
    <3> QED
      BY <1>1, <1>2, <2>1, <2>2, <2>3, <2>5, <3>2, <3>4 DEF Promise!Next, Promise!Move
  <2> QED
    BY <2>4, <2>5
<1>6. CASE bus'.phase = "idle"
  <2>1. StopSent \/ DiscardStop
    <3>1. ~ArbitrationLost
      BY DEF ArbitrationLost, SingleMaster
    <3>2. ~FifoError
      <4>1. NoFifoError'
        BY <1>1, NoFifoErrorNext
      <4> QED
        BY <4>1 DEF FifoError, NoFifoError, Inv, TypeOK, PortType
    <3> QED
      BY <1>1, <1>6, <3>1, <3>2, WireSteps DEF Transfer, AutoStop, Inv, TypeOK, BusType
  <2>2. bus'.moved = bus.moved
    BY <2>1, WireSteps DEF DiscardStop
  <2>3. Winding /\ port'.tx = <<>>
    <3>1. "ALF" \notin port.MSR /\ (bus.phase = "stop" \/ (bus.phase = "idle" /\ Queued("STOP")))
      BY <2>1 DEF StopSent, DiscardStop, MBF, SingleMaster, OutcomeInv, Common
    <3>2. Winding
      BY <1>2, <1>4, <3>1 DEF OutcomeInv, Situation, Started, Writing, Reading, FailedWith
    <3>3. HoldsStop(port.tx) => Queued("STOP") /\ Tail(port.tx) = <<>>
      BY NextCommand
    <3>4. CASE StopSent
      <4>1. port'.tx = IF Queued("STOP") THEN Tail(port.tx) ELSE port.tx
        BY <3>4, BusSteps
      <4> QED
        BY <3>2, <3>3, <4>1 DEF Winding, Queued
    <3>5. CASE DiscardStop
      <4>1. port'.tx = Tail(port.tx) /\ port.tx # <<>>
        BY <3>5, BusSteps
      <4> QED
        BY <3>2, <3>3, <4>1 DEF Winding
    <3> QED
      BY <2>1, <3>2, <3>4, <3>5
  <2>4. ~Queued("START")'
    BY <2>3 DEF Queued
  <2>5. CASE Free'
    <3>1. drv.state = "idle"
      BY <1>1, <2>3, <2>5, FreeMeansNext DEF Winding
    <3>2. caller.answer = "refused"
      BY <1>3, <2>3, <3>1 DEF Winding, Accepted, Inv, TypeOK, CallerType
    <3>3. outcomeOfCall' = "failure" /\ bytesMoved' = 0
      BY <1>1, <3>2 DEF outcomeOfCall, Accepted, bytesMoved
    <3> QED
      BY <1>1, <1>2, <2>5, <3>3 DEF Promise!Next, Promise!End
  <2>6. CASE ~Free'
    <3>1. outcomeOfCall' = outcomeOfCall
      BY <1>1, <1>2, <2>6 DEF outcomeOfCall, Accepted
    <3>2. bytesMoved' = bytesMoved
      BY <1>1, <1>4, <2>2, <2>4, <3>1 DEF bytesMoved
    <3> QED
      BY <1>1, <1>2, <2>6, <3>2, Unseen
  <2> QED
    BY <2>5, <2>6
<1> QED
  BY <1>5, <1>6

LEMMA PromiseStep ==
    ASSUME SingleMaster, PatientRestart, Inv, OutcomeInv, [Next]_vars
    PROVE  Promise!Next \/ UNCHANGED Sees
<1>1. CASE ISR
  BY <1>1, ISRPromise
<1>2. CASE begin \/ end
  BY <1>2, RestartPromise
<1>3. CASE MakeCall
  BY <1>3, MakeCallPromise
<1>4. CASE FinishCall
  BY <1>4, FinishCallPromise
<1>5. CASE BeginOnBus \/ UseBus
  BY <1>5, BeginOnBusPromise, UseBusPromise
<1>6. ~DisturbBus
  BY DEF DisturbBus, HoldPin, PinHeldLow, PinReleased, SingleMaster, PromptSystem, OutcomeInv, Common
<1>7. CASE UNCHANGED vars
  BY <1>7 DEF vars, Sees, Status, Free, finished, MBF, outcomeOfCall, Accepted, bytesMoved, Queued
<1> QED
  BY <1>1, <1>2, <1>3, <1>4, <1>5, <1>6, <1>7 DEF Next

LEMMA PromiseInit == Init => Promise!Init
<1> SUFFICES ASSUME Init PROVE Promise!Init
  OBVIOUS
<1>1. /\ caller.pc = "idle" /\ caller.answer = "none" /\ caller.n = 0 /\ drv.state = "idle"
      /\ bus.phase = "idle" /\ bus.moved = 0
  BY DEF Init, IdleBus
<1>2. Free /\ outcomeOfCall = "none" /\ bytesMoved = 0
  BY <1>1 DEF Free, finished, MBF, outcomeOfCall, Accepted, bytesMoved
<1> QED
  BY <1>1, <1>2 DEF Promise!Init

\* Register by register and interrupt by interrupt, the driver does only what I2CTransfer
\* allows: a call is answered by one outcome, no byte moves that was not asked for, and
\* success means all of them. That every call ends as well is for TLC to say.
THEOREM ImplementsTransfer ==
    ASSUME SingleMaster, PatientRestart
    PROVE  Spec => Promise!Safety
<1>1. Inv /\ OutcomeInv /\ [Next]_vars => [Promise!Next]_<<Status, outcomeOfCall, caller.n, bytesMoved>>
  BY PromiseStep DEF Sees
<1>2. Spec => [](Inv /\ OutcomeInv)
  BY OutcomeInvariance DEF SingleMaster
<1> QED
  BY <1>1, <1>2, PromiseInit, PTL DEF Spec, Promise!Safety, Promise!vars, Status
==============================================================================
