-------------------------- MODULE I2CClientsProofs --------------------------
(***************************************************************************)
(* Wire never touches a byte outside its two arrays, for every length of   *)
(* the arrays, whatever is asked for, whatever the bus does and wherever   *)
(* the slave's callbacks interrupt the thread.                             *)
(*                                                                         *)
(* requestFrom() takes the driver's count for the number of bytes it has,  *)
(* also when the call was refused and the count is of an earlier one. So   *)
(* the invariant goes down to the driver: once Wire is in use every array  *)
(* it has been lent is no longer than Wire's, and its cursor is inside.    *)
(*                                                                         *)
(* A slave may write() in loop(), with its callbacks in between, or in     *)
(* those callbacks. With one that does both it is false: the cursor that   *)
(* write() adds to may then have moved on since write() compared it.       *)
(***************************************************************************)
EXTENDS I2CClients, I2CMasterProofs

\* Only arrays of Wire's size have been lent to the driver, or are about to be.
LentByWire == wire.role # "unused" => caller.n <= BufferLength /\ drv.buff.size <= BufferLength

\* No slave write()s both in loop() and in its callbacks.
OneFiller == {"loop", "callbacks"} \notin Fillings

\* While write() is under way the callbacks do not write(): they leave the cursor or reset it.
FillsInv ==
    /\ wire.role # "slave" => wire.fills = {}
    /\ "loop" \in wire.fills => "callbacks" \notin wire.fills
    /\ wire.adding > 0 => "callbacks" \notin wire.fills

WireInv ==
    /\ CursorsInBuffers
    /\ wire.rx_bytes_available <= BufferLength
    /\ FillsInv
    /\ LentByWire

\* Who is in one of Wire's calls uses Wire.
CallsWire(t) == t.pc \in {"endTransmission", "requestFrom"} => wire.role # "unused"

ClientInv == Inv /\ ClientsTypeOK /\ WireInv /\ CallsWire(thread)

Limit == BufferLength \in Nat \ {0} /\ BufferLength <= MaxLength /\ MaxLength \in Nat

LEMMA Limits == Limit
BY WireAssumption, HardwareAssumption DEF Limit

------------------------------------------------------------------------------
(* The driver: it keeps the array it has been lent until the next call.    *)

SameArray(m, w) == w.drv.buff.size = m.drv.buff.size

LEMMA ErrorsKeepArray ==
    ASSUME NEW m, MachineInv(m), NEW msr
    PROVE  SameArray(m, HandleErrors(m, msr))
<1> DEFINE error == ErrorAfter(m.drv, msr)
           noted == [m.drv EXCEPT !.error = error]
           seen == [drv |-> noted, port |-> ClearFlags(m.port, msr \cap ErrorFlags)]
           stopping == [seen EXCEPT !.drv.state = "stopping"]
<1> HIDE DEF error
<1>1. noted.buff = m.drv.buff /\ [noted EXCEPT !.state = "stopping"].buff = m.drv.buff
  BY DEF MachineInv, DriverInv, DriverType
<1>2. seen.drv = noted /\ stopping.drv = [noted EXCEPT !.state = "stopping"]
  OBVIOUS
<1>3. abort_transaction_async(stopping).drv = stopping.drv
  BY DEF abort_transaction_async
<1>4. HandleErrors(m, msr) \in {m, seen, abort_transaction_async(stopping)}
  BY DEF HandleErrors, error
<1> HIDE DEF noted, seen, stopping
<1> QED
  BY <1>1, <1>2, <1>3, <1>4 DEF SameArray

LEMMA StopKeepsArray ==
    ASSUME NEW m, MachineInv(m), NEW msr
    PROVE  SameArray(m, HandleStop(m, msr))
BY DEF SameArray, HandleStop, MachineInv, DriverInv, DriverType

LEMMA TakeKeepsArray ==
    ASSUME NEW m, MachineInv(m)
    PROVE  SameArray(m, TakeByte(m))
<1> DEFINE d == Begun(m.drv)
<1>1. m.drv \in DriverType /\ d \in DriverType /\ d.buff = m.drv.buff
  BY BegunInv DEF MachineInv, DriverInv
<1> HIDE DEF d
<1>2. write(d.buff).size = d.buff.size
  BY <1>1 DEF write, DriverType, Buffer
<1>3. [d EXCEPT !.buff = write(@)].buff = write(d.buff)
  BY <1>1 DEF DriverType
<1>4. TakeByte(m).drv \in {d, [d EXCEPT !.buff = write(@)]}
  BY DEF TakeByte, d
<1> QED
  BY <1>1, <1>2, <1>3, <1>4 DEF SameArray

LEMMA ReceiveKeepsArray ==
    ASSUME NEW m, MachineInv(m), NEW rdf
    PROVE  SameArray(m, HandleReceive(m, rdf))
<1> DEFINE stopping == [m EXCEPT !.drv.state = "stopping"]
           taken == TakeByte(m)
           next == IF tx_fifo_count(taken.port) = 1 THEN "stopping" ELSE "transfer_complete"
           over == [drv |-> [taken.drv EXCEPT !.state = next], port |-> [taken.port EXCEPT !.MEN = FALSE]]
<1>1. stopping.drv.buff = m.drv.buff /\ abort_transaction_async(stopping).drv = stopping.drv
  BY DEF MachineInv, DriverInv, DriverType, abort_transaction_async
<1>2. MachineInv(taken) /\ SameArray(m, taken)
  BY TakeByteInv, TakeKeepsArray
<1>3. HandleReceive(m, rdf) \in {m, abort_transaction_async(stopping), taken, over}
  BY DEF HandleReceive
<1> HIDE DEF taken
<1>4. over.drv.buff = taken.drv.buff
  BY <1>2 DEF MachineInv, DriverInv, DriverType
<1> HIDE DEF over, stopping
<1> QED
  BY <1>1, <1>2, <1>3, <1>4 DEF SameArray

LEMMA TransmitKeepsArray ==
    ASSUME NEW m, MachineInv(m), NEW tdf
    PROVE  SameArray(m, HandleTransmit(m, tdf))
<1> DEFINE begun == [m EXCEPT !.drv = Begun(@)]
           filled == FillFifo(begun)
<1>1. MachineInv(begun) /\ begun.drv.buff = m.drv.buff
  <2>1. DriverInv(Begun(m.drv)) /\ Begun(m.drv).buff = m.drv.buff
    BY BegunInv DEF MachineInv, DriverInv
  <2>2. begun = [drv |-> Begun(m.drv), port |-> m.port]
    BY DEF MachineInv
  <2> QED
    BY <2>1, <2>2, MachineParts DEF MachineInv
<1> HIDE DEF begun
<1>2. MachineInv(filled)
  BY <1>1, FillFifoInv
<1>3. SameArray(begun, filled)
  <2> DEFINE k == IF bytes_left(begun.drv.buff) < FifoSize - tx_fifo_count(begun.port)
                  THEN bytes_left(begun.drv.buff) ELSE FifoSize - tx_fifo_count(begun.port)
  <2>1. filled.drv = [begun.drv EXCEPT !.buff = read(@, k)]
    BY DEF FillFifo
  <2> HIDE DEF k, filled
  <2> QED
    BY <1>1, <2>1 DEF SameArray, read, MachineInv, DriverInv, DriverType, Buffer
<1> HIDE DEF filled
<1>4. SameArray(filled, EndOfWrite(filled))
  <2> DEFINE quiet == [filled EXCEPT !.port.TDIE = FALSE, !.port.MEN = FALSE]
  <2>1. quiet.drv = filled.drv
    BY <1>2 DEF MachineInv
  <2>2. EndOfWrite(filled).drv \in {[filled.drv EXCEPT !.state = "stopping"],
                                    [filled.drv EXCEPT !.state = "transfer_complete"]}
    BY <1>2, <2>1 DEF EndOfWrite, MachineInv
  <2> QED
    BY <1>2, <2>2 DEF SameArray, MachineInv, DriverInv, DriverType
<1>5. HandleTransmit(m, tdf) \in {m, begun, filled, EndOfWrite(filled)}
  BY DEF HandleTransmit, begun, filled
<1> QED
  BY <1>1, <1>3, <1>4, <1>5 DEF SameArray

LEMMA InterruptKeepsArray ==
    ASSUME NEW m, MachineInv(m)
    PROVE  SameArray(m, ServiceInterrupt(m))
<1> DEFINE msr == m.port.MSR
           noted == HandleErrors(m, msr)
           ended == HandleStop(noted, msr)
           received == HandleReceive(ended, RDF(m.port))
<1>1. MachineInv(noted) /\ SameArray(m, noted)
  BY HandleErrorsInv, ErrorsKeepArray
<1> HIDE DEF noted
<1>2. MachineInv(ended) /\ SameArray(noted, ended)
  BY <1>1, HandleStopInv, StopKeepsArray
<1> HIDE DEF ended
<1>3. MachineInv(received) /\ SameArray(ended, received)
  BY <1>2, HandleReceiveInv, ReceiveKeepsArray
<1> HIDE DEF received
<1>4. SameArray(received, HandleTransmit(received, TDF(m.port)))
  BY <1>3, TransmitKeepsArray
<1>5. ServiceInterrupt(m) = HandleTransmit(received, TDF(m.port))
  BY DEF ServiceInterrupt, received, ended, noted
<1> QED
  BY <1>1, <1>2, <1>3, <1>4, <1>5 DEF SameArray

\* Only a call sets what the next array is going to be, and only initialise() replaces the
\* one there is, with that.
LEMMA DriverKeeps ==
    ASSUME Inv, ISR \/ FinishCall \/ BeginOnBus \/ UseBus \/ begin \/ end \/ UNCHANGED driver
    PROVE  Inv' /\ caller'.n = caller.n /\ drv'.buff.size \in {drv.buff.size, caller.n}
<1>1. MachineInv(Machine) /\ Machine.drv = drv /\ Machine.port = port
  BY MachineOfInv DEF Machine
<1>2. caller \in CallerType /\ drv \in DriverType
  BY DEF Inv, TypeOK
<1>3. Inv'
  <2>1. [Next]_vars
    BY DEF Next, vars, driver
  <2> QED
    BY <2>1, NextKeepsInv
<1>4. CASE ISR
  <2>1. SameArray(Machine, ServiceInterrupt(Machine))
    BY <1>1, InterruptKeepsArray
  <2> QED
    BY <1>1, <1>3, <1>4, <2>1 DEF ISR, Becomes, SameArray
<1>5. CASE FinishCall
  <2>1. caller'.n = caller.n
    BY <1>2, <1>5 DEF FinishCall, Abort, AbortStop, Rejected, SendStart, Probe, ArmWrite,
                      EnableTransmit, ArmRead, PushReceive, PushStop, Goto, Return, CallerType
  <2>2. CASE SendStart
    <3> DEFINE noted == [Machine EXCEPT !.drv.error = "master_fifos_not_empty"]
    <3>1. noted.drv.buff = drv.buff /\ abort_transaction_async(noted).drv = noted.drv
      BY <1>1, <1>2 DEF MachineInv, DriverType, abort_transaction_async
    <3> HIDE DEF noted
    <3>2. drv' = drv \/ drv' = abort_transaction_async(noted).drv
      BY <2>2 DEF SendStart, Becomes, noted
    <3> QED
      BY <1>3, <2>1, <3>1, <3>2
  <2>3. CASE Abort \/ AbortStop \/ Rejected \/ Probe \/ EnableTransmit \/ PushReceive \/ PushStop
    <3>1. drv'.buff = drv.buff
      BY <1>2, <2>3 DEF Abort, AbortStop, Rejected, Probe, EnableTransmit, PushReceive, PushStop,
                        DriverType
    <3> QED
      BY <1>3, <2>1, <3>1
  <2>4. CASE ArmWrite \/ ArmRead
    <3>1. drv'.buff = initialise(caller.n)
      BY <1>2, <2>4 DEF ArmWrite, ArmRead, DriverType
    <3> QED
      BY <1>3, <2>1, <3>1 DEF initialise
  <2> QED
    BY <1>5, <2>2, <2>3, <2>4 DEF FinishCall
<1>6. CASE BeginOnBus \/ UseBus \/ begin \/ end \/ UNCHANGED driver
  <2>1. drv' = drv
    BY <1>6 DEF BeginOnBus, UseBus, begin, end, driver
  <2>2. caller'.n = caller.n
    BY <1>2, <1>6 DEF BeginOnBus, UseBus, begin, end, driver, CallerType
  <2> QED
    BY <1>3, <2>1, <2>2
<1> QED
  BY <1>4, <1>5, <1>6

LEMMA CallKeeps ==
    ASSUME Inv, MakeCall
    PROVE  Inv' /\ drv'.buff.size = drv.buff.size
<1>1. drv \in DriverType /\ MachineInv(Machine) /\ Machine.drv = drv
  BY MachineOfInv DEF Inv, TypeOK, Machine
<1>2. drv'.buff = drv.buff
  <2>1. CASE StartCall \/ RefuseRead
    BY <1>1, <2>1 DEF StartCall, RefuseRead, DriverType
  <2>2. CASE RejectCall
    BY <2>2 DEF RejectCall
  <2> QED
    BY <2>1, <2>2 DEF MakeCall
<1> QED
  BY <1>2, MakeCallKeepsInv

------------------------------------------------------------------------------
(* The thread.                                                             *)

\* A call, of the driver and for the client.
LEMMA AsyncType ==
    ASSUME ClientInv, NEW pc \in {"write", "select", "read", "endTransmission", "requestFrom"},
           NEW n \in 0..MaxLength, NEW op, NEW length, NEW stop, Async(pc, n, op, length, stop)
    PROVE  /\ Inv' /\ thread' \in ThreadType /\ thread'.pc = pc
           /\ caller'.n = length /\ drv'.buff.size = drv.buff.size
<1>1. MakeCall /\ caller'.n = length
  BY DEF Async
<1>2. thread' \in ThreadType /\ thread'.pc = pc
  <2>1. thread \in ThreadType /\ 0 \in 0..MaxLength
    BY Limits DEF ClientInv, ClientsTypeOK, Limit
  <2> DEFINE fault == thread.fault /\ thread.pc # "idle"
  <2>2. fault \in BOOLEAN
    BY <2>1 DEF ThreadType
  <2>3. thread' = [thread EXCEPT !.pc = pc, !.n = n, !.got = 0, !.waiting = TRUE, !.fault = fault]
    BY DEF Async
  <2> HIDE DEF fault
  <2> QED
    BY <2>1, <2>2, <2>3 DEF ThreadType
<1> QED
  BY <1>1, <1>2, CallKeeps DEF ClientInv

LEMMA ReturnType ==
    ASSUME thread \in ThreadType, NEW ok \in BOOLEAN, ReturnToClient(ok)
    PROVE  thread' \in ThreadType /\ thread'.pc = "idle"
BY DEF ReturnToClient, ThreadType

LEMMA FinishType ==
    ASSUME thread \in ThreadType, finish
    PROVE  thread' \in ThreadType /\ thread'.pc = thread.pc
BY DEF finish, Finished, TimedOut, ThreadType

LEMMA BusStepType ==
    ASSUME thread \in ThreadType, BusStep
    PROVE  thread' \in ThreadType /\ thread'.pc = thread.pc
<1> DEFINE fault == thread.fault \/ Faulted
           got == IF port'.rx > port.rx /\ thread.got < MaxLength THEN thread.got + 1 ELSE thread.got
<1>1. fault \in BOOLEAN
  BY DEF ThreadType
<1>2. got \in 0..MaxLength
  BY Limits DEF ThreadType, Limit
<1>3. thread' = [thread EXCEPT !.fault = fault, !.got = got]
  BY DEF BusStep
<1> HIDE DEF fault, got
<1> QED
  BY <1>1, <1>2, <1>3 DEF ThreadType

\* A step in which Wire's cursors and arrays do not take part.
LEMMA WireUnchanged ==
    ASSUME ClientInv, UNCHANGED wire, Inv', thread' \in ThreadType, CallsWire(thread'),
           wire.role # "unused" => caller'.n <= BufferLength /\ drv'.buff.size <= BufferLength
    PROVE  ClientInv'
BY DEF ClientInv, ClientsTypeOK, WireInv, FillsInv, CursorsInBuffers, LentByWire, CallsWire

\* A step of Wire's cursors alone.
LEMMA DriverUnchanged ==
    ASSUME ClientInv, UNCHANGED <<driver, thread>>, wire' \in WireType,
           wire'.role = wire.role, CursorsInBuffers', wire'.rx_bytes_available <= BufferLength,
           FillsInv'
    PROVE  ClientInv'
<1>1. Inv'
  BY DriverKeeps DEF ClientInv, driver
<1> QED
  BY <1>1 DEF ClientInv, ClientsTypeOK, WireInv, LentByWire, CallsWire, driver

------------------------------------------------------------------------------
(* The invariant, step by step.                                            *)

\* begin() and end() of the driver, and Wire's own.
LEMMA RestartKeeps ==
    ASSUME ClientInv, OneFiller,
           (Begin /\ UNCHANGED wire) \/ BeginMaster \/ BeginSlave \/ EndWire
    PROVE  ClientInv'
<1>1. begin \/ end \/ UNCHANGED driver
  BY DEF Begin, BeginMaster, BeginSlave, EndWire, EndMaster
<1>2. Inv' /\ caller'.n = caller.n /\ drv'.buff.size \in {drv.buff.size, caller.n}
  BY <1>1, DriverKeeps DEF ClientInv
<1>3. CASE Begin /\ UNCHANGED wire
  BY <1>2, <1>3, WireUnchanged DEF Begin, ClientInv, ClientsTypeOK, WireInv, LentByWire, CallsWire
<1>4. CASE BeginMaster \/ BeginSlave \/ EndWire
  <2>1. PICK role \in {"none", "master", "slave"}, where \in SUBSET {"loop", "callbacks"} :
          /\ wire' = [wire EXCEPT !.role = role, !.fills = where]
          /\ IF role = "slave" THEN where \in Fillings ELSE where = {}
    <3>1. CASE BeginMaster \/ EndWire
      <4>1. \E role \in {"none", "master"} : wire' = [wire EXCEPT !.role = role, !.fills = {}]
        BY <3>1 DEF BeginMaster, EndWire
      <4> QED
        BY <4>1
    <3>2. CASE BeginSlave
      BY <3>2, WireAssumption DEF BeginSlave
    <3> QED
      BY <1>4, <3>1, <3>2
  <2>2. /\ InThread /\ thread' = thread
    BY <1>4 DEF BeginMaster, BeginSlave, EndWire
  <2>3. /\ wire' \in WireType /\ wire'.role = role /\ wire'.fills = where
        /\ \A f \in DOMAIN wire \ {"role", "fills"} : wire'[f] = wire[f]
    BY <2>1 DEF ClientInv, ClientsTypeOK, WireType
  <2>4. wire'.adding = 0 /\ CursorsInBuffers' /\ wire'.rx_bytes_available <= BufferLength /\ FillsInv'
    <3>1. "loop" \in where => "callbacks" \notin where
      <4>1. where # {"loop", "callbacks"}
        BY <2>1 DEF OneFiller
      <4> QED
        BY <4>1
    <3> QED
      BY <2>1, <2>2, <2>3, <3>1
      DEF ClientInv, ClientsTypeOK, WireType, WireInv, CursorsInBuffers, FillsInv, InThread
  <2>5. WireInv'
    <3>1. caller.n <= BufferLength /\ drv.buff.size <= BufferLength
      BY <2>2 DEF ClientInv, WireInv, LentByWire, InThread
    <3> QED
      BY <1>2, <2>4, <3>1 DEF WireInv, LentByWire
  <2>6. CallsWire(thread)'
    BY <2>2 DEF CallsWire, InThread, InClient
  <2> QED
    BY <1>2, <2>2, <2>3, <2>5, <2>6 DEF ClientInv, ClientsTypeOK
<1> QED
  BY <1>3, <1>4

LEMMA DeviceKeeps ==
    ASSUME ClientInv, OneFiller, wire.role = "unused", DeviceStep, UNCHANGED wire
    PROVE  ClientInv'
<1>1. CASE Begin
  BY <1>1, RestartKeeps
<1>2. CASE Write
  <2>1. \A n \in Sizes : n \in 0..MaxLength /\ n + 1 \in 0..MaxLength
    BY DeviceAssumption, Limits DEF Limit
  <2>2. Inv' /\ thread' \in ThreadType /\ CallsWire(thread')
    BY <1>2, <2>1, AsyncType DEF Write, CallsWire
  <2> QED
    BY <2>2, WireUnchanged
<1>3. CASE Read
  <2>1. \A n \in Sizes : n \in 0..MaxLength
    BY DeviceAssumption, Limits DEF Limit
  <2>2. Inv' /\ thread' \in ThreadType /\ CallsWire(thread')
    BY <1>3, <2>1, AsyncType DEF Read, CallsWire
  <2> QED
    BY <2>2, WireUnchanged
<1>4. CASE Selected
  <2>1. CASE ReturnToClient(FALSE) /\ UNCHANGED driver
    BY <2>1, ReturnType, DriverKeeps, WireUnchanged DEF ClientInv, ClientsTypeOK, CallsWire
  <2>2. CASE \E stop \in SendStop : Async("read", thread.n, "read", thread.n, stop)
    <3>1. thread.n \in 0..MaxLength
      BY DEF ClientInv, ClientsTypeOK, ThreadType
    <3>2. Inv' /\ thread' \in ThreadType /\ CallsWire(thread')
      BY <2>2, <3>1, AsyncType DEF CallsWire
    <3> QED
      BY <3>2, WireUnchanged
  <2> QED
    BY <1>4, <2>1, <2>2 DEF Selected
<1>5. CASE Done
  <2>1. ReturnToClient(~has_error) /\ UNCHANGED driver
    BY <1>5 DEF Done
  <2>2. Inv' /\ thread' \in ThreadType /\ CallsWire(thread')
    BY <2>1, ReturnType, DriverKeeps DEF ClientInv, ClientsTypeOK, CallsWire
  <2> QED
    BY <2>2, WireUnchanged
<1> QED
  BY <1>1, <1>2, <1>3, <1>4, <1>5 DEF DeviceStep

\* The driver, its ISR and the bus.
LEMMA SystemKeeps ==
    ASSUME ClientInv, DriverStep \/ finish \/ BusStep, UNCHANGED wire
    PROVE  ClientInv'
<1>1. ISR \/ FinishCall \/ BeginOnBus \/ UseBus \/ UNCHANGED driver
  BY DEF DriverStep, finish, Finished, TimedOut, BusStep
<1>2. Inv' /\ caller'.n = caller.n /\ drv'.buff.size \in {drv.buff.size, caller.n}
  BY <1>1, DriverKeeps DEF ClientInv
<1>3. thread' \in ThreadType /\ CallsWire(thread')
  BY FinishType, BusStepType DEF ClientInv, ClientsTypeOK, DriverStep, CallsWire
<1> QED
  BY <1>2, <1>3, WireUnchanged DEF ClientInv, WireInv, LentByWire

\* Wire's calls of the master driver. A call lends an array of Wire's, in part or whole.
LEMMA LendsKeeps ==
    ASSUME ClientInv, endTransmission \/ requestFrom
    PROVE  ClientInv'
<1>1. wire \in WireType /\ BufferLength \in Nat \ {0} /\ BufferLength <= MaxLength /\ MaxLength \in Nat
  BY Limits DEF ClientInv, ClientsTypeOK, Limit
<1>2. CASE endTransmission
  <2>1. PICK stop \in SendStop :
          Async("endTransmission", wire.tx_next_byte_to_write, "write", wire.tx_next_byte_to_write, stop)
    BY <1>2 DEF endTransmission
  <2>2. wire.tx_next_byte_to_write \in 0..MaxLength /\ wire.tx_next_byte_to_write <= BufferLength
    BY <1>1 DEF WireType
  <2>3. /\ Inv' /\ thread' \in ThreadType /\ wire.role = "master"
        /\ caller'.n = wire.tx_next_byte_to_write /\ drv'.buff.size = drv.buff.size
    BY <1>2, <2>1, <2>2, AsyncType DEF endTransmission
  <2> QED
    BY <1>2, <2>2, <2>3, WireUnchanged
    DEF endTransmission, CallsWire, ClientInv, WireInv, LentByWire
<1>3. CASE requestFrom
  <2>1. PICK quantity \in Quantities, stop \in SendStop :
          LET n == Min({quantity, BufferLength}) IN Async("requestFrom", n, "read", n, stop)
    BY <1>3 DEF requestFrom
  <2> DEFINE n == Min({quantity, BufferLength})
  <2>2. n \in 0..MaxLength /\ n <= BufferLength
    <3>1. quantity \in Nat
      BY WireAssumption
    <3>2. n \in {quantity, BufferLength} /\ \A x \in {quantity, BufferLength} : n <= x
      <4>1. \E x \in {quantity, BufferLength} : \A y \in {quantity, BufferLength} : x <= y
        BY <1>1, <3>1
      <4> QED
        BY <4>1 DEF Min
    <3> HIDE DEF n
    <3> QED
      BY <1>1, <3>1, <3>2
  <2> HIDE DEF n
  <2>3. Inv' /\ thread' \in ThreadType /\ caller'.n = n /\ drv'.buff.size = drv.buff.size
    BY <2>1, <2>2, AsyncType DEF n
  <2>4. wire' = [wire EXCEPT !.rx_bytes_available = 0, !.rx_next_byte_to_read = 0] /\ wire.role = "master"
    BY <1>3 DEF requestFrom
  <2>5. /\ wire' \in WireType /\ wire'.rx_bytes_available = 0 /\ wire'.rx_next_byte_to_read = 0
        /\ wire'.role = wire.role /\ wire'.tx_next_byte_to_write = wire.tx_next_byte_to_write
        /\ wire'.dest = wire.dest /\ wire'.adding = wire.adding /\ wire'.index = wire.index
        /\ wire'.fills = wire.fills
    BY <1>1, <2>4 DEF WireType
  <2>6. WireInv'
    BY <1>1, <2>2, <2>3, <2>5 DEF ClientInv, WireInv, FillsInv, CursorsInBuffers, LentByWire
  <2> QED
    BY <2>3, <2>4, <2>5, <2>6 DEF ClientInv, ClientsTypeOK, CallsWire
<1> QED
  BY <1>2, <1>3

\* The count of a read, also of one that was refused, is in the array it was made for.
LEMMA CountKeeps ==
    ASSUME ClientInv, TransmissionEnded \/ BytesRequested
    PROVE  ClientInv'
<1>1. ReturnToClient(drv.error = "ok") /\ UNCHANGED driver
  BY DEF TransmissionEnded, BytesRequested
<1>2. /\ Inv' /\ caller' = caller /\ drv' = drv
      /\ thread' \in ThreadType /\ thread'.pc = "idle" /\ wire.role # "unused"
  BY <1>1, ReturnType, DriverKeeps
  DEF ClientInv, ClientsTypeOK, CallsWire, driver, TransmissionEnded, BytesRequested, InClient
<1>3. CASE TransmissionEnded
  BY <1>2, <1>3, WireUnchanged DEF TransmissionEnded, ClientInv, WireInv, LentByWire, CallsWire
<1>4. CASE BytesRequested
  <2> DEFINE count == get_bytes_transferred(drv.buff)
  <2>1. count \in Nat /\ count <= BufferLength
    BY <1>2, Limits
    DEF ClientInv, WireInv, LentByWire, Inv, TypeOK, BufferInBounds, DriverType, Buffer,
        get_bytes_transferred, Limit
  <2>2. wire' = [wire EXCEPT !.rx_bytes_available = count]
    BY <1>4 DEF BytesRequested
  <2> HIDE DEF count
  <2>3. /\ wire' \in WireType /\ wire'.rx_bytes_available = count
        /\ wire'.rx_next_byte_to_read = wire.rx_next_byte_to_read /\ wire'.role = wire.role
        /\ wire'.tx_next_byte_to_write = wire.tx_next_byte_to_write
        /\ wire'.dest = wire.dest /\ wire'.adding = wire.adding /\ wire'.index = wire.index
        /\ wire'.fills = wire.fills
    BY <2>1, <2>2 DEF ClientInv, ClientsTypeOK, WireType
  <2>4. WireInv'
    BY <1>2, <2>1, <2>3 DEF ClientInv, WireInv, FillsInv, CursorsInBuffers, LentByWire
  <2> QED
    BY <1>2, <2>3, <2>4 DEF ClientInv, ClientsTypeOK, CallsWire
<1> QED
  BY <1>3, <1>4

\* Wire's cursors: of the thread, and of the slave's callbacks.
CursorStep ==
    \/ beginTransmission \/ WriteBegins \/ WriteEnds \/ ReadBegins \/ ReadEnds
    \/ on_receive_wrapper \/ before_transmit

LEMMA CursorsKeep ==
    ASSUME ClientInv, CursorStep
    PROVE  ClientInv'
<1>1. /\ wire \in WireType /\ BufferLength \in Nat \ {0} /\ FillsInv
      /\ wire.dest + wire.adding <= BufferLength
      /\ wire.tx_next_byte_to_write + wire.adding <= BufferLength
      /\ wire.rx_next_byte_to_read <= BufferLength /\ wire.rx_bytes_available <= BufferLength
      /\ wire.index # NotReading => wire.index < BufferLength
  BY Limits DEF ClientInv, ClientsTypeOK, WireInv, CursorsInBuffers, Limit
<1>2. UNCHANGED <<driver, thread>>
  BY DEF CursorStep, beginTransmission, WriteBegins, WriteEnds, ReadBegins, ReadEnds,
         on_receive_wrapper, before_transmit
<1> DEFINE Good == /\ wire' \in WireType /\ wire'.role = wire.role /\ FillsInv'
                   /\ wire'.dest + wire'.adding <= BufferLength
                   /\ wire'.tx_next_byte_to_write + wire'.adding <= BufferLength
                   /\ wire'.rx_next_byte_to_read <= BufferLength
                   /\ wire'.rx_bytes_available <= BufferLength
                   /\ wire'.index # NotReading => wire'.index < BufferLength
<1>3. ASSUME beginTransmission PROVE Good
  BY <1>1, <1>3 DEF beginTransmission, InThread, WireType, FillsInv
<1>4. ASSUME WriteBegins PROVE Good
  <2>1. PICK n \in 1..BufferLength :
          /\ n <= avail
          /\ wire' = [wire EXCEPT !.dest = wire.tx_next_byte_to_write, !.adding = n]
    BY <1>4 DEF WriteBegins
  <2>2. n \in 0..BufferLength /\ wire.tx_next_byte_to_write + n <= BufferLength
    BY <1>1, <2>1 DEF avail, WireType
  <2>3. /\ wire' \in WireType /\ wire'.dest = wire.tx_next_byte_to_write /\ wire'.adding = n
        /\ \A f \in DOMAIN wire \ {"dest", "adding"} : wire'[f] = wire[f]
    BY <1>1, <2>1, <2>2 DEF WireType
  <2>4. "callbacks" \notin wire.fills
    BY <1>1, <1>4 DEF WriteBegins, FillsInv
  <2> QED
    BY <1>1, <2>2, <2>3, <2>4 DEF WireType, FillsInv
<1>5. ASSUME WriteEnds PROVE Good
  <2>1. PICK cursor \in {wire.dest, wire.tx_next_byte_to_write} :
          wire' = [wire EXCEPT !.tx_next_byte_to_write = cursor + wire.adding, !.dest = 0, !.adding = 0]
    BY <1>5 DEF WriteEnds
  <2> DEFINE n == cursor + wire.adding
  <2>2. n \in 0..BufferLength /\ 0 \in 0..BufferLength
    BY <1>1, <2>1 DEF WireType
  <2>3. wire' = [wire EXCEPT !.tx_next_byte_to_write = n, !.dest = 0, !.adding = 0]
    BY <2>1
  <2> HIDE DEF n
  <2>4. /\ wire' \in WireType /\ wire'.tx_next_byte_to_write = n /\ wire'.dest = 0 /\ wire'.adding = 0
        /\ \A f \in DOMAIN wire \ {"tx_next_byte_to_write", "dest", "adding"} : wire'[f] = wire[f]
    BY <1>1, <2>2, <2>3 DEF WireType
  <2>5. n + 0 <= BufferLength /\ 0 + 0 <= BufferLength /\ ~(0 > 0)
    BY <1>1, <2>2
  <2> QED
    BY <1>1, <2>4, <2>5 DEF WireType, FillsInv
<1>6. ASSUME ReadBegins PROVE Good
  BY <1>1, <1>6 DEF ReadBegins, WireType, NotReading, FillsInv
<1>7. ASSUME ReadEnds PROVE Good
  <2> DEFINE n == wire.index + 1
  <2>1. /\ n \in Nat /\ n <= BufferLength
        /\ NotReading \in 0..NotReading
    BY <1>1, <1>7 DEF ReadEnds, WireType, NotReading
  <2>2. wire' = [wire EXCEPT !.rx_next_byte_to_read = n, !.index = NotReading]
    BY <1>7 DEF ReadEnds
  <2> HIDE DEF n
  <2> QED
    BY <1>1, <2>1, <2>2 DEF WireType, FillsInv
\* A callback moves the cursor no further than the end, and not while write() adds to it.
<1>8. ASSUME NEW start \in 0..BufferLength, start <= wire.tx_next_byte_to_write, NEW cursor \in Written(start)
      PROVE  cursor \in 0..BufferLength /\ cursor + wire.adding <= BufferLength
  <2>1. CASE "callbacks" \in wire.fills
    <3>1. wire.adding = 0 /\ cursor \in start..BufferLength
      BY <1>1, <1>8, <2>1 DEF Written, FillsInv, WireType
    <3> QED
      BY <1>1, <3>1
  <2>2. CASE "callbacks" \notin wire.fills
    <3>1. cursor = start /\ wire.adding \in Nat /\ wire.tx_next_byte_to_write \in Nat
      BY <1>1, <1>8, <2>2 DEF Written, WireType
    <3> QED
      BY <1>1, <1>8, <3>1
  <2> QED
    BY <2>1, <2>2
<1>9. ASSUME on_receive_wrapper PROVE Good
  <2>1. PICK n \in 1..BufferLength, cursor \in Written(wire.tx_next_byte_to_write) :
          \E taken \in 0..n :
             wire' = [wire EXCEPT !.rx_bytes_available = n, !.rx_next_byte_to_read = taken,
                                  !.tx_next_byte_to_write = cursor]
    BY <1>9 DEF on_receive_wrapper
  <2>2. PICK taken \in 0..n :
          wire' = [wire EXCEPT !.rx_bytes_available = n, !.rx_next_byte_to_read = taken,
                               !.tx_next_byte_to_write = cursor]
    BY <2>1
  <2>3. n \in Nat /\ n <= BufferLength /\ taken \in Nat /\ taken <= BufferLength
    BY <1>1, <2>1, <2>2
  <2>4. cursor \in 0..BufferLength /\ cursor + wire.adding <= BufferLength
    BY <1>1, <1>8, <2>1 DEF WireType
  <2>5. /\ wire' \in WireType /\ wire'.rx_bytes_available = n /\ wire'.rx_next_byte_to_read = taken
        /\ wire'.tx_next_byte_to_write = cursor
        /\ \A f \in DOMAIN wire \ {"rx_bytes_available", "rx_next_byte_to_read", "tx_next_byte_to_write"} :
              wire'[f] = wire[f]
    BY <1>1, <2>2, <2>3, <2>4 DEF WireType
  <2> QED
    BY <1>1, <2>3, <2>4, <2>5 DEF WireType, FillsInv
<1>10. ASSUME before_transmit PROVE Good
  <2>1. PICK cursor \in Written(0) : wire' = [wire EXCEPT !.tx_next_byte_to_write = cursor]
    BY <1>10 DEF before_transmit
  <2>2. cursor \in 0..BufferLength /\ cursor + wire.adding <= BufferLength
    BY <1>1, <1>8, <2>1 DEF WireType
  <2>3. /\ wire' \in WireType /\ wire'.tx_next_byte_to_write = cursor
        /\ \A f \in DOMAIN wire \ {"tx_next_byte_to_write"} : wire'[f] = wire[f]
    BY <1>1, <2>1, <2>2 DEF WireType
  <2> QED
    BY <1>1, <2>2, <2>3 DEF WireType, FillsInv
<1>11. Good
  BY <1>3, <1>4, <1>5, <1>6, <1>7, <1>9, <1>10 DEF CursorStep
<1> QED
  BY <1>2, <1>11, DriverUnchanged DEF CursorsInBuffers

LEMMA ClientStep == ASSUME OneFiller PROVE ClientInv /\ [NextClients]_cvars => ClientInv'
<1> SUFFICES ASSUME ClientInv, [NextClients]_cvars PROVE ClientInv'
  OBVIOUS
<1>1. CASE wire.role = "unused" /\ DeviceStep /\ UNCHANGED wire
  BY <1>1, DeviceKeeps
<1>2. CASE (DriverStep \/ finish \/ BusStep) /\ UNCHANGED wire
  BY <1>2, SystemKeeps
<1>3. CASE BeginMaster \/ BeginSlave \/ EndWire
  BY <1>3, RestartKeeps
<1>4. CASE endTransmission \/ requestFrom
  BY <1>4, LendsKeeps
<1>5. CASE TransmissionEnded \/ BytesRequested
  BY <1>5, CountKeeps
<1>6. CASE CursorStep
  BY <1>6, CursorsKeep
<1>7. CASE UNCHANGED cvars
  BY <1>7, DriverUnchanged DEF cvars, driver, ClientInv, ClientsTypeOK, WireInv, FillsInv, CursorsInBuffers
<1> QED
  BY <1>1, <1>2, <1>3, <1>4, <1>5, <1>6, <1>7 DEF NextClients, WireStep, CursorStep

LEMMA ClientsInit == InitClients => ClientInv
<1> SUFFICES ASSUME InitClients PROVE ClientInv
  OBVIOUS
<1>1. Inv /\ caller.n = 0 /\ drv.buff.size = 0
  BY InitInv DEF InitClients, Init, NoBuffer
<1>2. thread \in ThreadType /\ thread.pc = "idle"
  BY Limits DEF InitClients, InitThread, ThreadType, Limit
<1>3. wire \in WireType /\ WireInv
  BY <1>1, Limits DEF InitClients, InitWire, WireType, NotReading, WireInv, FillsInv, CursorsInBuffers, LentByWire, Limit
<1> QED
  BY <1>1, <1>2, <1>3 DEF ClientInv, ClientsTypeOK, CallsWire

LEMMA ClientsInvariance == ASSUME OneFiller PROVE SpecClients => []ClientInv
<1>1. ClientInv /\ [NextClients]_cvars => ClientInv'
  BY ClientStep
<1> QED
  BY <1>1, ClientsInit, PTL DEF SpecClients

\* The fields of the clients keep their types: no cursor of Wire's is negative or past the
\* end, and no call asks the driver for more than an array holds (finish(), I2CDevice and
\* I2CDriverWire), if a slave write()s in loop() or in its callbacks, not in both.
THEOREM ClientTypesCorrect == ASSUME OneFiller PROVE SpecClients => []ClientsTypeOK
<1>1. ClientInv => ClientsTypeOK
  BY DEF ClientInv
<1> QED
  BY <1>1, ClientsInvariance, PTL

\* read() and write() stay inside Wire's arrays although the slave's callbacks reset the
\* cursors in the middle of them, whichever cursor the compiler has them use, and although
\* requestFrom() believes a count of the driver that may be an earlier call's; if a slave
\* write()s in loop() or in its callbacks, not in both (i2c_driver_wire.cpp).
THEOREM CursorsStayInBuffers == ASSUME OneFiller PROVE SpecClients => []CursorsInBuffers
<1>1. ClientInv => CursorsInBuffers
  BY DEF ClientInv, WireInv
<1> QED
  BY <1>1, ClientsInvariance, PTL
=============================================================================
