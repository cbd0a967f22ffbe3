--------------------------- MODULE I2CMasterProofs ---------------------------
(***************************************************************************)
(* What is proved of I2CMaster for every FIFO depth, transfer length, set  *)
(* of faults and timing of the ISR and of the caller: nothing here assumes *)
(* PromptISR, PromptCaller or PatientCaller.                               *)
(*                                                                         *)
(* The three invariants are inductive only together: the cursor keeps its  *)
(* type (bytes_left is a natural number) because it is in bounds, and the  *)
(* FIFO keeps its bound because the space is computed from it.             *)
(***************************************************************************)
EXTENDS I2CMaster, TLAPS, SequenceTheorems

Inv == TypeOK /\ BufferInBounds /\ OneStart

\* The same invariant, of the driver and the port a handler is given.
PortInv(p) == p \in PortType /\ Len(p.tx) <= FifoSize /\ OnlyFirstStarts(p.tx)
DriverInv(d) == d \in DriverType /\ d.buff.next_index <= d.buff.size
MachineInv(m) ==
    /\ m = [drv |-> m.drv, port |-> m.port]
    /\ DriverInv(m.drv)
    /\ PortInv(m.port)

------------------------------------------------------------------------------
\* Replacing the command queue by a good one keeps the port in order.
LEMMA QueueInv ==
    ASSUME NEW p, PortInv(p), NEW q \in Seq(Command), Len(q) <= FifoSize, OnlyFirstStarts(q)
    PROVE  /\ PortInv([p EXCEPT !.tx = q])
           /\ [p EXCEPT !.tx = q].tx = q
BY DEF PortInv, PortType

\* A queue stays well formed when a command that is not a START joins it.
LEMMA AppendQueue ==
    ASSUME NEW q \in Seq(Command), OnlyFirstStarts(q), NEW c \in Command, c.cmd # "START"
    PROVE  Append(q, c) \in Seq(Command) /\ OnlyFirstStarts(Append(q, c))
<1>1. Append(q, c) \in Seq(Command) /\ Len(Append(q, c)) = Len(q) + 1
  OBVIOUS
<1>2. ASSUME NEW i \in 2..Len(Append(q, c))
      PROVE  Append(q, c)[i].cmd # "START"
  <2>1. CASE i <= Len(q)
    BY <1>1, <2>1 DEF OnlyFirstStarts
  <2>2. CASE i = Len(q) + 1
    BY <1>1, <2>2
  <2> QED
    BY <1>1, <2>1, <2>2
<1> QED
  BY <1>1, <1>2 DEF OnlyFirstStarts

\* Queueing a command that is not a START keeps the port in order (writes to MTDR).
LEMMA PushInv ==
    ASSUME NEW p, PortInv(p), NEW c \in Command, c.cmd # "START"
    PROVE  PortInv(Push(p, c))
<1>1. p.tx \in Seq(Command) /\ Len(p.tx) <= FifoSize /\ OnlyFirstStarts(p.tx)
  BY DEF PortInv, PortType
<1>2. CASE Len(p.tx) < FifoSize
  <2>1. Append(p.tx, c) \in Seq(Command) /\ OnlyFirstStarts(Append(p.tx, c))
    BY <1>1, AppendQueue
  <2>2. Len(Append(p.tx, c)) <= FifoSize
    BY <1>1, <1>2, HardwareAssumption
  <2>3. Push(p, c) = [p EXCEPT !.tx = Append(p.tx, c)]
    BY <1>2 DEF Push
  <2> QED
    BY <2>1, <2>2, <2>3, QueueInv
<1>3. CASE ~(Len(p.tx) < FifoSize)
  BY <1>1, <1>3, QueueInv DEF Push
<1> QED
  BY <1>2, <1>3

\* The words the driver queues itself are well formed and are not STARTs.
LEMMA StopCommand == STOP \in Command /\ STOP.cmd # "START"
BY HardwareAssumption DEF STOP, Command

LEMMA TransmitCommand == TRANSMIT \in Command /\ TRANSMIT.cmd # "START"
BY HardwareAssumption DEF TRANSMIT, Command

\* Clearing flags of MSR disturbs nothing else.
LEMMA ClearFlagsInv ==
    ASSUME NEW p, PortInv(p), NEW flags
    PROVE  PortInv(ClearFlags(p, flags)) /\ ClearFlags(p, flags).tx = p.tx
BY DEF PortInv, PortType, ClearFlags

\* Resetting the FIFOs and disabling the transmit interrupt (RTF, RRF, MIER).
LEMMA ClearedInv ==
    ASSUME NEW p, PortInv(p)
    PROVE  PortInv(Cleared(p))
<1>1. <<>> \in Seq(Command) /\ Len(<<>>) = 0
  OBVIOUS
<1>2. [p EXCEPT !.TDIE = FALSE, !.tx = <<>>, !.rx = 0] \in PortType
  <2>1. p \in PortType /\ 0 \in 0..FifoSize
    BY HardwareAssumption DEF PortInv
  <2> QED
    BY <1>1, <2>1 DEF PortType
<1>3. [p EXCEPT !.TDIE = FALSE, !.tx = <<>>, !.rx = 0].tx = <<>>
  BY DEF PortInv, PortType
<1> QED
  BY <1>1, <1>2, <1>3, HardwareAssumption DEF Cleared, PortInv, OnlyFirstStarts

\* abort_transaction_async() leaves the cursor alone and at most a STOP queued.
LEMMA AbortInv ==
    ASSUME NEW m, MachineInv(m)
    PROVE  MachineInv(abort_transaction_async(m))
<1> DEFINE cleared == Cleared(m.port)
<1>1. PortInv(cleared)
  BY ClearedInv DEF MachineInv
<1>2. PortInv(Push(cleared, STOP))
  BY <1>1, PushInv, StopCommand
<1>3. \/ abort_transaction_async(m) = [m EXCEPT !.port = cleared]
      \/ abort_transaction_async(m) = [m EXCEPT !.port = Push(cleared, STOP)]
  BY DEF abort_transaction_async
<1> HIDE DEF cleared
<1> QED
  BY <1>1, <1>2, <1>3 DEF MachineInv

------------------------------------------------------------------------------
(***************************************************************************)
(* The handlers of the interrupt service routine, in the ISR's order.      *)
(***************************************************************************)
\* A machine in order has its two parts in order, and the other way round.
LEMMA MachineParts ==
    ASSUME NEW d, NEW p, DriverInv(d), PortInv(p)
    PROVE  MachineInv([drv |-> d, port |-> p])
BY DEF MachineInv

\* What a handler of an error flag records is an error.
LEMMA ErrorAfterType ==
    ASSUME NEW d, d \in DriverType, NEW msr
    PROVE  ErrorAfter(d, msr) \in I2CError
<1>1. d.error \in I2CError
  BY DEF DriverType
<1> QED
  BY <1>1 DEF ErrorAfter, I2CError

\* The error handlers (NDF, ALF, FEF, PLTF) keep the machine in order.
LEMMA HandleErrorsInv ==
    ASSUME NEW m, MachineInv(m), NEW msr
    PROVE  MachineInv(HandleErrors(m, msr))
<1> DEFINE d == [m.drv EXCEPT !.error = ErrorAfter(m.drv, msr)]
           p == ClearFlags(m.port, msr \cap ErrorFlags)
           seen == [drv |-> d, port |-> p]
           stopped == [drv |-> [d EXCEPT !.state = "stopping"], port |-> p]
<1>1. DriverInv(d)
  BY ErrorAfterType DEF MachineInv, DriverInv, DriverType
<1>2. DriverInv([d EXCEPT !.state = "stopping"])
  BY <1>1 DEF DriverInv, DriverType, State
<1>3. PortInv(p)
  BY ClearFlagsInv DEF MachineInv
<1>4. MachineInv(seen) /\ MachineInv(stopped)
  BY <1>1, <1>2, <1>3, MachineParts
<1>5. MachineInv(abort_transaction_async(stopped))
  BY <1>4, AbortInv
<1>6. [seen EXCEPT !.drv.state = "stopping"] = stopped
  OBVIOUS
<1>7. HandleErrors(m, msr) \in {m, seen, abort_transaction_async(stopped)}
  BY <1>6 DEF HandleErrors
<1> HIDE DEF seen, stopped
<1> QED
  BY <1>4, <1>5, <1>7

\* The handler of SDF keeps the machine in order.
LEMMA HandleStopInv ==
    ASSUME NEW m, MachineInv(m), NEW msr
    PROVE  MachineInv(HandleStop(m, msr))
<1> DEFINE d == [m.drv EXCEPT !.state = "stopped"]
           quiet == [m.port EXCEPT !.TDIE = FALSE]
<1>1. DriverInv(d)
  BY DEF MachineInv, DriverInv, DriverType, State
<1>2. PortInv(quiet)
  BY DEF MachineInv, PortInv, PortType
<1>3. PortInv(ClearFlags(quiet, {"SDF"}))
  BY <1>2, ClearFlagsInv
<1>4. MachineInv([drv |-> d, port |-> ClearFlags(quiet, {"SDF"})])
  BY <1>1, <1>3, MachineParts
<1> HIDE DEF d
<1>5. HandleStop(m, msr) \in {m, [drv |-> d, port |-> ClearFlags(quiet, {"SDF"})]}
  BY DEF HandleStop, d
<1> QED
  BY <1>4, <1>5

\* The first byte of a transfer keeps the driver's fields in order.
LEMMA BegunInv ==
    ASSUME NEW d, DriverInv(d)
    PROVE  DriverInv(Begun(d)) /\ Begun(d).buff = d.buff
BY DEF DriverInv, DriverType, State, I2CError, Begun

\* I2CBuffer::write() moves the cursor by at most one and never past the end.
LEMMA WriteInv ==
    ASSUME NEW b \in Buffer, b.next_index <= b.size
    PROVE  write(b) \in Buffer /\ write(b).next_index <= write(b).size
BY DEF Buffer, write, all_done

\* Taking a byte from the receive FIFO keeps the machine in order.
LEMMA TakeByteInv ==
    ASSUME NEW m, MachineInv(m)
    PROVE  MachineInv(TakeByte(m))
<1> DEFINE d == Begun(m.drv)
           written == [d EXCEPT !.buff = write(@)]
           taken == [m.port EXCEPT !.rx = IF @ > 0 THEN @ - 1 ELSE 0]
           emptied == [m.port EXCEPT !.rx = 0]
<1>1. DriverInv(d)
  BY BegunInv DEF MachineInv
<1>2. d.buff \in Buffer /\ d.buff.next_index <= d.buff.size
  BY <1>1 DEF DriverInv, DriverType
<1>3. DriverInv(written)
  <2>1. write(d.buff) \in Buffer /\ write(d.buff).next_index <= write(d.buff).size
    BY <1>2, WriteInv
  <2> HIDE DEF d
  <2> QED
    BY <1>1, <2>1 DEF DriverInv, DriverType
<1>4. PortInv(taken) /\ PortInv(emptied)
  <2>1. m.port \in PortType /\ Len(m.port.tx) <= FifoSize /\ OnlyFirstStarts(m.port.tx)
    BY DEF MachineInv, PortInv
  <2>2. 0 \in 0..FifoSize /\ (IF m.port.rx > 0 THEN m.port.rx - 1 ELSE 0) \in 0..FifoSize
    BY <2>1, HardwareAssumption DEF PortType
  <2>3. taken.tx = m.port.tx /\ emptied.tx = m.port.tx
    BY <2>1 DEF PortType
  <2>4. taken \in PortType /\ emptied \in PortType
    BY <2>1, <2>2 DEF PortType
  <2> HIDE DEF taken, emptied
  <2> QED
    BY <2>1, <2>3, <2>4 DEF PortInv
<1>5. MachineInv([drv |-> written, port |-> taken]) /\ MachineInv([drv |-> d, port |-> emptied])
  BY <1>1, <1>3, <1>4, MachineParts
<1>6. TakeByte(m) \in {[drv |-> written, port |-> taken], [drv |-> d, port |-> emptied]}
  BY DEF TakeByte
<1> QED
  BY <1>5, <1>6

\* The handler of RDF keeps the machine in order.
LEMMA HandleReceiveInv ==
    ASSUME NEW m, MachineInv(m), NEW rdf
    PROVE  MachineInv(HandleReceive(m, rdf))
<1> DEFINE stopped == [drv |-> [m.drv EXCEPT !.state = "stopping"], port |-> m.port]
           taken == TakeByte(m)
           over(s) == [drv |-> [taken.drv EXCEPT !.state = s], port |-> [taken.port EXCEPT !.MEN = FALSE]]
<1>1. MachineInv(abort_transaction_async(stopped))
  <2>1. DriverInv([m.drv EXCEPT !.state = "stopping"]) /\ PortInv(m.port)
    BY DEF MachineInv, DriverInv, DriverType, State
  <2> QED
    BY <2>1, MachineParts, AbortInv
<1>2. MachineInv(taken)
  BY TakeByteInv
<1>3. ASSUME NEW s \in State PROVE MachineInv(over(s))
  <2> HIDE DEF taken
  <2>1. DriverInv([taken.drv EXCEPT !.state = s])
    BY <1>2 DEF MachineInv, DriverInv, DriverType
  <2>2. PortInv([taken.port EXCEPT !.MEN = FALSE])
    BY <1>2 DEF MachineInv, PortInv, PortType
  <2> QED
    BY <2>1, <2>2, MachineParts
<1>4. MachineInv(over("stopping")) /\ MachineInv(over("transfer_complete"))
  BY <1>3 DEF State
<1>5. HandleReceive(m, rdf) \in
        {m, abort_transaction_async(stopped), taken, over("stopping"), over("transfer_complete")}
  <2>1. [m EXCEPT !.drv.state = "stopping"] = stopped
    BY DEF MachineInv
  <2> DEFINE next == IF tx_fifo_count(taken.port) = 1 THEN "stopping" ELSE "transfer_complete"
  <2>2. over(next) \in {over("stopping"), over("transfer_complete")}
    <3>1. next = "stopping" \/ next = "transfer_complete"
      OBVIOUS
    <3> HIDE DEF next
    <3> QED
      BY <3>1
  <2>3. \/ HandleReceive(m, rdf) = m
        \/ HandleReceive(m, rdf) = abort_transaction_async([m EXCEPT !.drv.state = "stopping"])
        \/ HandleReceive(m, rdf) = taken
        \/ HandleReceive(m, rdf) = over(next)
    BY DEF HandleReceive
  <2> HIDE DEF over, stopped, next, taken
  <2> QED
    BY <2>1, <2>2, <2>3
<1> HIDE DEF over, stopped, taken
<1> QED
  BY <1>1, <1>2, <1>4, <1>5

\* A run of k TRANSMIT words.
LEMMA TransmitRun ==
    ASSUME NEW k \in Nat
    PROVE  /\ [i \in 1..k |-> TRANSMIT] \in Seq(Command)
           /\ Len([i \in 1..k |-> TRANSMIT]) = k
<1> DEFINE run == [i \in 1..k |-> TRANSMIT]
<1>1. run \in [1..k -> Command]
  BY TransmitCommand
<1>2. run \in Seq(Command) /\ Len(run) = k
  <2> HIDE DEF run
  <2> QED
    BY <1>1
<1> QED
  BY <1>2

\* Queueing k bytes that fit in the command FIFO keeps the port in order.
LEMMA TransmitKInv ==
    ASSUME NEW p, PortInv(p), NEW k \in Nat, Len(p.tx) + k <= FifoSize
    PROVE  PortInv(TransmitK(p, k)) /\ Len(TransmitK(p, k).tx) = Len(p.tx) + k
<1> DEFINE run == [i \in 1..k |-> TRANSMIT]
           q == p.tx \o run
<1>1. p.tx \in Seq(Command) /\ OnlyFirstStarts(p.tx)
  BY DEF PortInv, PortType
<1>2. run \in Seq(Command) /\ Len(run) = k
  BY TransmitRun
<1>3. /\ q \in Seq(Command) /\ Len(q) = Len(p.tx) + k
      /\ \A i \in 1..Len(p.tx) + k : q[i] = IF i <= Len(p.tx) THEN p.tx[i] ELSE run[i - Len(p.tx)]
  <2> HIDE DEF run
  <2> QED
    BY <1>1, <1>2, ConcatProperties
<1>4. ASSUME NEW i \in 2..Len(q) PROVE q[i].cmd # "START"
  <2>1. CASE i <= Len(p.tx)
    <3>1. q[i] = p.tx[i] /\ i \in 2..Len(p.tx)
      BY <1>1, <1>3, <2>1
    <3> QED
      BY <1>1, <3>1 DEF OnlyFirstStarts
  <2>2. CASE i > Len(p.tx)
    <3>1. i - Len(p.tx) \in 1..k /\ q[i] = run[i - Len(p.tx)]
      BY <1>1, <1>3, <2>2
    <3>2. q[i] = TRANSMIT
      BY <3>1
    <3> QED
      BY <3>2, TransmitCommand
  <2> QED
    BY <1>1, <1>3, <2>1, <2>2
<1>5. OnlyFirstStarts(q)
  BY <1>4 DEF OnlyFirstStarts
<1>6. TransmitK(p, k) = [p EXCEPT !.tx = q]
  BY DEF TransmitK
<1> HIDE DEF q
<1> QED
  BY <1>3, <1>5, <1>6, QueueInv

\* Filling the command FIFO reads no further than the end of the buffer and
\* queues no more than fits.
LEMMA FillFifoInv ==
    ASSUME NEW m, MachineInv(m)
    PROVE  MachineInv(FillFifo(m))
<1> DEFINE b == m.drv.buff
           space == FifoSize - tx_fifo_count(m.port)
           k == IF bytes_left(b) < space THEN bytes_left(b) ELSE space
<1>1. DriverInv(m.drv) /\ PortInv(m.port)
  BY DEF MachineInv
<1>2. b \in Buffer /\ b.next_index <= b.size
  BY <1>1 DEF DriverInv, DriverType
<1>3. Len(m.port.tx) \in Nat /\ Len(m.port.tx) <= FifoSize
  BY <1>1 DEF PortInv, PortType
<1>4. k \in Nat /\ k <= bytes_left(b) /\ Len(m.port.tx) + k <= FifoSize
  <2>1. bytes_left(b) \in Nat
    BY <1>2 DEF bytes_left, Buffer
  <2>2. space \in Nat /\ space = FifoSize - Len(m.port.tx)
    BY <1>3, HardwareAssumption DEF tx_fifo_count
  <2> HIDE DEF space
  <2> QED
    BY <1>3, <2>1, <2>2, HardwareAssumption
<1>5. FillFifo(m) = [drv |-> [m.drv EXCEPT !.buff = read(@, k)], port |-> TransmitK(m.port, k)]
  BY DEF FillFifo
<1> HIDE DEF k
<1>6. PortInv(TransmitK(m.port, k))
  BY <1>1, <1>4, TransmitKInv
<1>7. read(b, k) \in Buffer /\ read(b, k).next_index <= read(b, k).size
  BY <1>2, <1>4 DEF read, Buffer, bytes_left
<1>8. DriverInv([m.drv EXCEPT !.buff = read(@, k)])
  <2> DEFINE after == read(b, k)
  <2>1. after \in Buffer /\ after.next_index <= after.size
    BY <1>7
  <2> HIDE DEF after
  <2>2. DriverInv([m.drv EXCEPT !.buff = after])
    BY <1>1, <2>1 DEF DriverInv, DriverType
  <2> QED
    BY <2>2 DEF after
<1> QED
  BY <1>5, <1>6, <1>8, MachineParts

\* Ending a write keeps the machine in order.
LEMMA EndOfWriteInv ==
    ASSUME NEW m, MachineInv(m)
    PROVE  MachineInv(EndOfWrite(m))
<1> DEFINE p == [m.port EXCEPT !.TDIE = FALSE, !.MEN = FALSE]
           d(s) == [m.drv EXCEPT !.state = s]
<1>1. DriverInv(d("stopping")) /\ DriverInv(d("transfer_complete"))
  BY DEF MachineInv, DriverInv, DriverType, State
<1>2. PortInv(p)
  BY DEF MachineInv, PortInv, PortType
<1>3. PortInv(Push(p, STOP))
  <2> HIDE DEF p
  <2> QED
    BY <1>2, PushInv, StopCommand
<1>4. \/ EndOfWrite(m) = [drv |-> d("stopping"), port |-> Push(p, STOP)]
      \/ EndOfWrite(m) = [drv |-> d("transfer_complete"), port |-> p]
  BY DEF EndOfWrite, MachineInv
<1> HIDE DEF d, p
<1> QED
  BY <1>1, <1>2, <1>3, <1>4, MachineParts

\* The handler of TDF keeps the machine in order.
LEMMA HandleTransmitInv ==
    ASSUME NEW m, MachineInv(m), NEW tdf
    PROVE  MachineInv(HandleTransmit(m, tdf))
<1> DEFINE begun == [drv |-> Begun(m.drv), port |-> m.port]
           filled == FillFifo(begun)
<1>1. MachineInv(begun)
  BY BegunInv, MachineParts DEF MachineInv
<1>2. MachineInv(filled) /\ MachineInv(EndOfWrite(filled))
  <2> HIDE DEF begun
  <2> QED
    BY <1>1, FillFifoInv, EndOfWriteInv
<1>3. [m EXCEPT !.drv = Begun(@)] = begun
  BY DEF MachineInv
<1>4. HandleTransmit(m, tdf) \in {m, begun, filled, EndOfWrite(filled)}
  <2> HIDE DEF begun
  <2> QED
    BY <1>3 DEF HandleTransmit
<1> HIDE DEF filled, begun
<1> QED
  BY <1>1, <1>2, <1>4

\* The whole interrupt service routine keeps the machine in order.
LEMMA ServiceInterruptInv ==
    ASSUME NEW m, MachineInv(m)
    PROVE  MachineInv(ServiceInterrupt(m))
BY HandleErrorsInv, HandleStopInv, HandleReceiveInv, HandleTransmitInv DEF ServiceInterrupt

------------------------------------------------------------------------------
(***************************************************************************)
(* The invariant, step by step.                                            *)
(***************************************************************************)
\* The invariant puts the driver and the port in order, and the other way round.
LEMMA InvParts ==
    Inv <=> /\ DriverInv(drv) /\ PortInv(port)
            /\ bus \in BusType /\ caller \in CallerType
BY DEF Inv, TypeOK, BufferInBounds, OneStart, DriverInv, PortInv

\* The same of the next state.
LEMMA InvPartsNext ==
    ASSUME DriverInv(drv'), PortInv(port'), bus' \in BusType, caller' \in CallerType
    PROVE  Inv'
BY DEF Inv, TypeOK, BufferInBounds, OneStart, DriverInv, PortInv

\* An action that leaves a machine in order behind keeps driver and port in order.
LEMMA BecomesInv ==
    ASSUME NEW m, MachineInv(m), Becomes(m)
    PROVE  DriverInv(drv') /\ PortInv(port')
BY DEF MachineInv, Becomes

LEMMA MachineOfInv ==
    ASSUME Inv
    PROVE  MachineInv(Machine)
BY InvParts, MachineParts DEF Machine

\* The reset state.
LEMMA ResetInv ==
    ASSUME NEW irq \in BOOLEAN
    PROVE  PortInv([ResetPort EXCEPT !.irq = irq]) /\ PortInv(ResetPort)
<1>1. <<>> \in Seq(Command) /\ Len(<<>>) = 0 /\ 0 <= FifoSize /\ 0 \in 0..FifoSize
  BY HardwareAssumption
<1>2. OnlyFirstStarts(<<>>)
  BY <1>1 DEF OnlyFirstStarts
<1>3. ResetPort \in PortType /\ [ResetPort EXCEPT !.irq = irq] \in PortType
  BY <1>1 DEF PortType, ResetPort
<1>4. ResetPort.tx = <<>> /\ [ResetPort EXCEPT !.irq = irq].tx = <<>>
  BY DEF ResetPort
<1> QED
  BY <1>1, <1>2, <1>3, <1>4 DEF PortInv

LEMMA IdleBusType ==
    ASSUME NEW low \in BOOLEAN
    PROVE  [IdleBus EXCEPT !.pin_low = low] \in BusType /\ IdleBus \in BusType
BY HardwareAssumption DEF BusType, IdleBus, BusPhase

LEMMA InitInv == Init => Inv
<1> SUFFICES ASSUME Init PROVE Inv
  OBVIOUS
<1>1. DriverInv(drv)
  BY DEF Init, DriverInv, DriverType, State, I2CError, NoBuffer, Buffer
<1>2. PortInv(port) /\ bus \in BusType
  BY ResetInv, IdleBusType DEF Init
<1>3. caller \in CallerType
  BY HardwareAssumption DEF Init, CallerType
<1> QED
  BY <1>1, <1>2, <1>3, InvParts

\* The interrupt service routine.
LEMMA ISRKeepsInv == Inv /\ ISR => Inv'
<1> SUFFICES ASSUME Inv, ISR PROVE Inv'
  OBVIOUS
<1>1. MachineInv(ServiceInterrupt(Machine))
  BY MachineOfInv, ServiceInterruptInv
<1>2. DriverInv(drv') /\ PortInv(port')
  BY <1>1, BecomesInv DEF ISR
<1> QED
  BY <1>2, InvParts, InvPartsNext DEF ISR

\* begin() and end().
LEMMA RestartKeepsInv == Inv /\ (begin \/ end) => Inv'
<1> SUFFICES ASSUME Inv, begin \/ end PROVE Inv'
  OBVIOUS
<1>1. PortInv(port')
  BY ResetInv DEF begin, end
<1>2. bus' \in BusType
  <2>1. bus.pin_low \in BOOLEAN
    BY InvParts DEF BusType
  <2> QED
    BY <2>1, IdleBusType DEF begin, end
<1>3. caller' \in CallerType
  BY InvParts DEF begin, end, CallerType
<1> QED
  BY <1>1, <1>2, <1>3, InvParts, InvPartsNext DEF begin, end

\* The steps with which a call begins.
LEMMA MakeCallKeepsInv == Inv /\ MakeCall => Inv'
<1> SUFFICES ASSUME Inv, MakeCall PROVE Inv'
  OBVIOUS
<1>1. DriverInv(drv) /\ PortInv(port) /\ bus \in BusType /\ caller \in CallerType
  BY InvParts
<1>2. caller' \in CallerType
  BY <1>1, MasterAssumption DEF MakeCall, StartCall, RejectCall, RefuseRead, CallerType
<1>3. CASE StartCall
  <2>1. DriverInv(drv')
    BY <1>1, <1>3 DEF StartCall, DriverInv, DriverType, State, I2CError
  <2> QED
    BY <1>1, <1>2, <1>3, <2>1, InvPartsNext DEF StartCall
<1>4. CASE RefuseRead
  <2>1. DriverInv(drv')
    BY <1>1, <1>4 DEF RefuseRead, DriverInv, DriverType, I2CError
  <2> QED
    BY <1>1, <1>2, <1>4, <2>1, InvPartsNext DEF RefuseRead
<1>5. CASE RejectCall
  BY <1>1, <1>2, <1>5, InvPartsNext DEF RejectCall
<1> QED
  BY <1>3, <1>4, <1>5 DEF MakeCall

\* The first command of a call goes to an empty queue.
LEMMA FirstPushInv ==
    ASSUME NEW p, PortInv(p), p.tx = <<>>, NEW c \in Command
    PROVE  PortInv(Push(p, c))
<1>1. /\ Append(<<>>, c) \in Seq(Command)
      /\ Len(Append(<<>>, c)) = 1 /\ 1 <= FifoSize
  BY HardwareAssumption
<1>2. OnlyFirstStarts(Append(<<>>, c))
  BY <1>1 DEF OnlyFirstStarts
<1>3. Push(p, c) = [p EXCEPT !.tx = Append(<<>>, c)]
  BY HardwareAssumption DEF Push
<1> QED
  BY <1>1, <1>2, <1>3, QueueInv

LEMMA SendStartKeepsInv == Inv /\ SendStart => Inv'
<1> SUFFICES ASSUME Inv, SendStart PROVE Inv'
  OBVIOUS
<1>1. DriverInv(drv) /\ PortInv(port) /\ bus \in BusType /\ caller \in CallerType
  BY InvParts
<1>2. caller' \in CallerType
  BY <1>1 DEF SendStart, Goto, Return, CallerType
<1>3. CASE port.tx # <<>> \/ port.rx > 0
  <2> DEFINE failed == [drv |-> [drv EXCEPT !.error = "master_fifos_not_empty"], port |-> port]
  <2>1. DriverInv([drv EXCEPT !.error = "master_fifos_not_empty"])
    BY <1>1 DEF DriverInv, DriverType, I2CError
  <2>2. MachineInv(failed)
    BY <1>1, <2>1, MachineParts
  <2>3. [Machine EXCEPT !.drv.error = "master_fifos_not_empty"] = failed
    BY DEF Machine
  <2>4. Becomes(abort_transaction_async(failed))
    BY <1>3, <2>3 DEF SendStart
  <2> HIDE DEF failed
  <2>5. DriverInv(drv') /\ PortInv(port')
    BY <2>2, <2>4, AbortInv, BecomesInv
  <2> QED
    BY <1>1, <1>2, <2>5, InvPartsNext DEF SendStart
<1>4. CASE ~(port.tx # <<>> \/ port.rx > 0)
  <2> DEFINE cleared == ClearFlags(port, LatchedFlags)
             on == [cleared EXCEPT !.MEN = TRUE]
             word == START(IF caller.op = "read" THEN MASTER_READ ELSE MASTER_WRITE)
  <2>1. word \in Command
    BY HardwareAssumption DEF START, MASTER_READ, MASTER_WRITE, Command
  <2>2. PortInv(cleared) /\ cleared.tx = <<>>
    BY <1>1, <1>4, ClearFlagsInv
  <2>3. port' = Push(on, word)
    BY <1>4 DEF SendStart
  <2>4. PortInv(on) /\ on.tx = <<>>
    <3> HIDE DEF cleared
    <3> QED
      BY <2>2 DEF PortInv, PortType
  <2> HIDE DEF on, word
  <2>5. PortInv(port')
    BY <2>1, <2>3, <2>4, FirstPushInv
  <2> QED
    BY <1>1, <1>2, <1>4, <2>5, InvPartsNext DEF SendStart
<1> QED
  BY <1>3, <1>4

\* The steps that finish a call.
LEMMA FinishCallKeepsInv == Inv /\ FinishCall => Inv'
<1> SUFFICES ASSUME Inv, FinishCall PROVE Inv'
  OBVIOUS
<1>1. DriverInv(drv) /\ PortInv(port) /\ bus \in BusType /\ caller \in CallerType
  BY InvParts
<1>2. CASE Rejected
  <2>1. DriverInv(drv')
    BY <1>1, <1>2 DEF Rejected, DriverInv, DriverType, State, I2CError
  <2>2. caller' \in CallerType
    BY <1>1, <1>2 DEF Rejected, Return, CallerType
  <2> QED
    BY <1>1, <1>2, <2>1, <2>2, InvPartsNext DEF Rejected
<1>3. CASE SendStart
  BY <1>3, SendStartKeepsInv
<1>4. CASE Probe
  <2>1. DriverInv(drv')
    BY <1>1, <1>4 DEF Probe, DriverInv, DriverType
  <2>2. PortInv(port')
    BY <1>1, <1>4, PushInv, StopCommand DEF Probe
  <2>3. caller' \in CallerType
    BY <1>1, <1>4 DEF Probe, Return, CallerType
  <2> QED
    BY <1>1, <1>4, <2>1, <2>2, <2>3, InvPartsNext DEF Probe
<1>5. CASE ArmWrite \/ ArmRead
  <2>1. initialise(caller.n) \in Buffer
        /\ initialise(caller.n).next_index <= initialise(caller.n).size
    BY <1>1, HardwareAssumption DEF initialise, Buffer, CallerType
  <2>2. DriverInv(drv')
    <3> DEFINE b == initialise(caller.n)
    <3>1. b \in Buffer /\ b.next_index <= b.size
      BY <2>1
    <3>2. \/ drv' = [drv EXCEPT !.buff = b]
          \/ drv' = [drv EXCEPT !.buff = b, !.stop_on_completion = caller.stop]
      BY <1>5 DEF ArmWrite, ArmRead
    <3>3. caller.stop \in BOOLEAN
      BY <1>1 DEF CallerType
    <3> HIDE DEF b
    <3> QED
      BY <1>1, <3>1, <3>2, <3>3 DEF DriverInv, DriverType
  <2>3. caller' \in CallerType
    BY <1>1, <1>5 DEF ArmWrite, ArmRead, Goto, CallerType
  <2> QED
    BY <1>1, <1>5, <2>2, <2>3, InvPartsNext DEF ArmWrite, ArmRead
<1>6. CASE EnableTransmit
  <2>1. PortInv(port')
    BY <1>1, <1>6 DEF EnableTransmit, PortInv, PortType
  <2>2. caller' \in CallerType
    BY <1>1, <1>6 DEF EnableTransmit, Return, CallerType
  <2> QED
    BY <1>1, <1>6, <2>1, <2>2, InvPartsNext DEF EnableTransmit
<1>7. CASE PushReceive
  <2>1. RECEIVE(caller.n) \in Command /\ RECEIVE(caller.n).cmd # "START"
    BY <1>1, HardwareAssumption DEF RECEIVE, Command, CallerType
  <2>2. PortInv(port')
    BY <1>1, <1>7, <2>1, PushInv DEF PushReceive
  <2>3. caller' \in CallerType
    BY <1>1, <1>7 DEF PushReceive, Goto, Return, CallerType
  <2> QED
    BY <1>1, <1>7, <2>2, <2>3, InvPartsNext DEF PushReceive
<1>8. CASE PushStop
  <2>1. PortInv(port')
    BY <1>1, <1>8, PushInv, StopCommand DEF PushStop
  <2>2. caller' \in CallerType
    BY <1>1, <1>8 DEF PushStop, Return, CallerType
  <2> QED
    BY <1>1, <1>8, <2>1, <2>2, InvPartsNext DEF PushStop
<1>9. CASE Abort \/ AbortStop
  <2>1. PortInv(port')
    BY <1>1, <1>9, ClearedInv, PushInv, StopCommand DEF Abort, AbortStop
  <2>2. caller' \in CallerType
    BY <1>1, <1>9 DEF Abort, AbortStop, Goto, CallerType
  <2> QED
    BY <1>1, <1>9, <2>1, <2>2, InvPartsNext DEF Abort, AbortStop
<1> QED
  BY <1>2, <1>3, <1>4, <1>5, <1>6, <1>7, <1>8, <1>9 DEF FinishCall

\* The commands that are left are in order as well.
LEMMA TailQueue ==
    ASSUME NEW q \in Seq(Command), q # <<>>, OnlyFirstStarts(q)
    PROVE  /\ Tail(q) \in Seq(Command) /\ Len(Tail(q)) <= Len(q)
           /\ OnlyFirstStarts(Tail(q)) /\ Head(q) \in Command
<1>1. /\ Tail(q) \in Seq(Command) /\ Len(Tail(q)) = Len(q) - 1 /\ Head(q) \in Command
      /\ Len(q) \in Nat
  OBVIOUS
<1>2. ASSUME NEW i \in 2..Len(Tail(q)) PROVE Tail(q)[i].cmd # "START"
  <2>1. i + 1 \in 2..Len(q) /\ Tail(q)[i] = q[i + 1]
    BY <1>1
  <2> QED
    BY <2>1 DEF OnlyFirstStarts
<1> QED
  BY <1>1, <1>2 DEF OnlyFirstStarts

\* The peripheral raises flags and takes commands; it never adds any.
LEMMA HardwareInv ==
    ASSUME NEW p, PortInv(p), NEW flags \in SUBSET LatchedFlags
    PROVE  /\ PortInv([p EXCEPT !.MSR = @ \cup flags])
           /\ p.tx # <<>> => /\ PortInv([p EXCEPT !.tx = Tail(@)])
                             /\ PortInv([p EXCEPT !.tx = Tail(@), !.MSR = @ \cup flags])
           /\ p.rx < FifoSize => PortInv([p EXCEPT !.rx = @ + 1])
<1>1. p \in PortType /\ Len(p.tx) \in Nat /\ Len(p.tx) <= FifoSize /\ OnlyFirstStarts(p.tx)
  BY DEF PortInv, PortType
<1>2. PortInv([p EXCEPT !.MSR = @ \cup flags])
  BY <1>1 DEF PortInv, PortType
<1>3. ASSUME p.tx # <<>>
      PROVE  /\ PortInv([p EXCEPT !.tx = Tail(@)])
             /\ PortInv([p EXCEPT !.tx = Tail(@), !.MSR = @ \cup flags])
  <2>1. /\ Tail(p.tx) \in Seq(Command) /\ Len(Tail(p.tx)) <= Len(p.tx)
        /\ OnlyFirstStarts(Tail(p.tx)) /\ Len(Tail(p.tx)) \in Nat
    BY <1>1, <1>3, TailQueue DEF PortType
  <2> DEFINE rest == Tail(p.tx)
  <2>2. Len(rest) <= FifoSize
    BY <1>1, <2>1, HardwareAssumption
  <2> HIDE DEF rest
  <2>3. PortInv([p EXCEPT !.tx = rest]) /\ PortInv([p EXCEPT !.tx = rest, !.MSR = @ \cup flags])
    BY <1>1, <2>1, <2>2 DEF PortInv, PortType, rest
  <2> QED
    BY <2>3 DEF rest
<1>4. ASSUME p.rx < FifoSize PROVE PortInv([p EXCEPT !.rx = @ + 1])
  <2>1. p.rx + 1 \in 0..FifoSize
    BY <1>1, <1>4, HardwareAssumption DEF PortType
  <2> QED
    BY <1>1, <2>1 DEF PortInv, PortType
<1> QED
  BY <1>2, <1>3, <1>4

\* Every step of the peripheral and of the bus.
LEMMA TransferKeepsInv ==
    ASSUME PortInv(port), bus \in BusType, Transfer
    PROVE  PortInv(port') /\ bus' \in BusType
<1>1. /\ port.tx \in Seq(Command) /\ port.rx \in 0..FifoSize
      /\ bus.moved \in Nat /\ bus.owed \in 0..MaxLength + 1
  BY DEF PortInv, PortType, BusType
<1>2. ASSUME NEW flag \in LatchedFlags
      PROVE  /\ PortInv([port EXCEPT !.MSR = @ \cup {flag}])
             /\ port.tx # <<>> => /\ PortInv([port EXCEPT !.tx = Tail(@)])
                                  /\ PortInv([port EXCEPT !.tx = Tail(@), !.MSR = @ \cup {flag}])
             /\ port.rx < FifoSize => PortInv([port EXCEPT !.rx = @ + 1])
  BY HardwareInv
<1>3. {"NDF", "ALF", "FEF", "SDF"} \subseteq LatchedFlags
  BY DEF LatchedFlags, ErrorFlags
<1>4. CASE PopTransmit \/ PopStop \/ DiscardStop
  BY <1>2, <1>3, <1>4 DEF PopTransmit, PopStop, DiscardStop, Pop, Queued, BusType, BusPhase
<1>5. CASE PopReceive
  <2>1. port.tx # <<>> /\ Head(port.tx) \in Command
    BY <1>1, <1>5 DEF PopReceive, Queued
  <2>2. Head(port.tx).arg \in 0..MaxLength + 1
    BY <2>1 DEF Command
  <2> DEFINE count == Head(port.tx).arg
  <2>3. bus' = [bus EXCEPT !.phase = "receiving", !.owed = count]
    BY <1>5 DEF PopReceive
  <2>4. port' = [port EXCEPT !.tx = Tail(@)]
    BY <1>5 DEF PopReceive, Pop
  <2> HIDE DEF count
  <2>5. bus' \in BusType
    BY <2>2, <2>3 DEF BusType, BusPhase, count
  <2> QED
    BY <1>2, <1>3, <2>1, <2>4, <2>5
<1>6. CASE AddressAcked \/ ByteAcked \/ AutoStop
  <2>1. port' = port
    BY <1>6 DEF AddressAcked, ByteAcked, AutoStop
  <2>2. bus.moved + 1 \in Nat
    BY <1>1
  <2>3. bus' \in BusType
    BY <1>6, <2>2 DEF AddressAcked, ByteAcked, AutoStop, BusType, BusPhase
  <2> QED
    BY <2>1, <2>3
<1>7. CASE Nacked \/ ArbitrationLost
  <2>1. port' = [port EXCEPT !.MSR = @ \cup {"NDF"}] \/ port' = [port EXCEPT !.MSR = @ \cup {"ALF"}]
    BY <1>7 DEF Nacked, ArbitrationLost, Raise
  <2>2. PortInv(port')
    BY <1>2, <1>3, <2>1
  <2>3. bus' \in BusType
    BY <1>7 DEF Nacked, ArbitrationLost, BusType, BusPhase
  <2> QED
    BY <2>2, <2>3
<1>8. CASE ByteReceived
  <2>1. bus.owed - 1 \in 0..MaxLength + 1 /\ bus.moved + 1 \in Nat
    BY <1>1, <1>8, HardwareAssumption DEF ByteReceived
  <2>2. bus' \in BusType
    BY <1>8, <2>1 DEF ByteReceived, BusType, BusPhase
  <2>3. port.rx < FifoSize /\ port' = [port EXCEPT !.rx = @ + 1]
    BY <1>8 DEF ByteReceived
  <2> QED
    BY <1>2, <1>3, <2>2, <2>3
<1>9. CASE StopSent
  <2>1. bus' \in BusType
    BY <1>9 DEF StopSent, BusType, BusPhase
  <2>2. CASE Queued("STOP")
    <3>1. port.tx # <<>> /\ port' = [port EXCEPT !.tx = Tail(@), !.MSR = @ \cup {"SDF"}]
      BY <1>9, <2>2 DEF StopSent, Queued, PortInv, PortType
    <3> QED
      BY <1>2, <1>3, <2>1, <3>1
  <2>3. CASE ~Queued("STOP")
    <3>1. port' = [port EXCEPT !.MSR = @ \cup {"SDF"}]
      BY <1>9, <2>3 DEF StopSent, PortInv, PortType
    <3> QED
      BY <1>2, <1>3, <2>1, <3>1
  <2> QED
    BY <2>2, <2>3
<1>10. CASE FifoError
  <2>1. port.tx # <<>> /\ port' = [port EXCEPT !.tx = Tail(@), !.MSR = @ \cup {"FEF"}]
    BY <1>10 DEF FifoError, Queued
  <2> QED
    BY <1>2, <1>3, <1>10, <2>1 DEF FifoError
<1> QED
  BY <1>4, <1>5, <1>6, <1>7, <1>8, <1>9, <1>10 DEF Transfer

LEMMA BusKeepsInv == Inv /\ (BeginOnBus \/ UseBus \/ DisturbBus) => Inv'
<1> SUFFICES ASSUME Inv, BeginOnBus \/ UseBus \/ DisturbBus PROVE Inv'
  OBVIOUS
<1>1. DriverInv(drv) /\ PortInv(port) /\ bus \in BusType /\ caller \in CallerType
  BY InvParts
<1>2. DriverInv(drv') /\ caller' \in CallerType
  BY <1>1 DEF BeginOnBus, UseBus, DisturbBus
<1>3. CASE BeginOnBus
  <2>1. port.tx # <<>> /\ port' = [port EXCEPT !.tx = Tail(@)]
    BY <1>3 DEF BeginOnBus, PopStart, Pop, Queued
  <2>2. {} \in SUBSET LatchedFlags
    OBVIOUS
  <2>3. PortInv(port')
    BY <1>1, <2>1, <2>2, HardwareInv
  <2>4. bus' \in BusType
    <3>1. bus' = [bus EXCEPT !.phase = "address", !.moved = 0, !.nak = "none", !.owed = 0]
      BY <1>3 DEF BeginOnBus, PopStart
    <3>2. 0 \in Nat /\ 0 \in 0..MaxLength + 1
      BY HardwareAssumption
    <3> QED
      BY <1>1, <3>1, <3>2 DEF BusType, BusPhase
  <2> QED
    BY <1>2, <2>3, <2>4, InvPartsNext
<1>4. CASE UseBus
  <2>1. PortInv(port') /\ bus' \in BusType
    BY <1>1, <1>4, TransferKeepsInv DEF UseBus
  <2> QED
    BY <1>2, <2>1, InvPartsNext
<1>5. CASE DisturbBus
  <2>1. bus' \in BusType
    BY <1>1, <1>5 DEF DisturbBus, HoldPin, PinHeldLow, PinReleased, BusType
  <2>2. PortInv(port')
    <3>1. {"PLTF"} \in SUBSET LatchedFlags
      BY DEF LatchedFlags, ErrorFlags
    <3>2. PortInv([port EXCEPT !.MSR = @ \cup {"PLTF"}])
      BY <1>1, <3>1, HardwareInv
    <3> QED
      BY <1>1, <1>5, <3>2 DEF DisturbBus, HoldPin, PinHeldLow, PinReleased, Raise
  <2> QED
    BY <1>2, <2>1, <2>2, InvPartsNext
<1> QED
  BY <1>3, <1>4, <1>5

\* One step of the system.
LEMMA NextKeepsInv == Inv /\ [Next]_vars => Inv'
<1> SUFFICES ASSUME Inv, [Next]_vars PROVE Inv'
  OBVIOUS
<1>1. CASE ISR
  BY <1>1, ISRKeepsInv
<1>2. CASE begin \/ end
  BY <1>2, RestartKeepsInv
<1>3. CASE MakeCall
  BY <1>3, MakeCallKeepsInv
<1>4. CASE FinishCall
  BY <1>4, FinishCallKeepsInv
<1>5. CASE BeginOnBus \/ UseBus \/ DisturbBus
  BY <1>5, BusKeepsInv
<1>6. CASE UNCHANGED vars
  BY <1>6 DEF vars, Inv, TypeOK, BufferInBounds, OneStart
<1> QED
  BY <1>1, <1>2, <1>3, <1>4, <1>5, <1>6 DEF Next

------------------------------------------------------------------------------
\* The inductive invariant of the master driver: types, cursor and command
\* queue together, whatever the ISR and the caller interrupt.
THEOREM Invariance == Spec => []Inv
BY InitInv, NextKeepsInv, PTL DEF Spec

\* Types, and the command FIFO never holds more words than it has room for: the
\* space FillFifo computes from MFSR cannot be negative (cpp 373).
THEOREM TypeCorrect == Spec => []TypeOK
<1>1. Inv => TypeOK
  BY DEF Inv
<1> QED
  BY <1>1, Invariance, PTL

\* The cursor never leaves the caller's array, whatever the timing of ISR, caller
\* and bus and whichever errors occur.
THEOREM CursorInBounds == Spec => []BufferInBounds
<1>1. Inv => BufferInBounds
  BY DEF Inv
<1> QED
  BY <1>1, Invariance, PTL

\* No START ever waits behind the commands of another call.
THEOREM StartComesFirst == Spec => []OneStart
<1>1. Inv => OneStart
  BY DEF Inv
<1> QED
  BY <1>1, Invariance, PTL
==============================================================================
