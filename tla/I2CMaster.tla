------------------------------ MODULE I2CMaster ------------------------------
(***************************************************************************)
(* IMX_RT1060_I2CMaster: the driver, the caller's thread and the interrupt *)
(* service routine, over the peripheral of LPI2CMaster.                    *)
(*                                                                         *)
(* A call of write_async() or read_async() is several steps, because the   *)
(* ISR can preempt it between any two register accesses; the ISR itself    *)
(* runs to completion, so it is one action made of the four handlers in    *)
(* the order the source has them.                                          *)
(***************************************************************************)
EXTENDS LPI2CMaster, I2CBuffer

CONSTANTS
    Lengths,                  \* the num_bytes callers ask for
    SendStop,                 \* the send_stop callers ask for
    MAX_MASTER_READ_LENGTH,   \* the code's 256
    PatientCaller,            \* TRUE: only calls when finished() is true
    PatientRestart,           \* TRUE: only calls begin() or end() when finished() is true
    PromptISR,                \* TRUE: the ISR runs before the next event on the bus
    PromptCaller              \* TRUE: the bus waits for a call (see CallerInTime)

ASSUME MasterAssumption ==
    /\ Lengths \subseteq 0..MaxLength /\ SendStop \subseteq BOOLEAN
    /\ MAX_MASTER_READ_LENGTH \in Nat
    /\ {PatientCaller, PatientRestart, PromptISR, PromptCaller} \subseteq BOOLEAN

VARIABLES
    drv,       \* the fields of IMX_RT1060_I2CMaster
    caller     \* where the caller's thread is and the call it made last

vars == <<port, bus, drv, caller>>

State == {"starting", "transferring", "stopping", "idle", "transfer_complete", "stopped"}
I2CError ==
    {"ok", "arbitration_lost", "invalid_request", "master_pin_low_timeout", "master_not_ready",
     "master_fifo_error", "master_fifos_not_empty", "address_nak", "data_nak"}

DriverType ==
    [state : State, error : I2CError, ignore_tdf : BOOLEAN,
     stop_on_completion : BOOLEAN, buff : Buffer]
CallerType ==
    [pc : {"idle", "start", "arm", "enable", "receive", "push_stop",
           "abort", "abort_stop", "reject"},
     op : {"write", "read"}, n : 0..MaxLength, stop : BOOLEAN, answer : {"none", "accepted", "refused"}]

Init ==
    /\ port = ResetPort /\ bus = IdleBus
    /\ drv = [state |-> "idle", error |-> "ok", ignore_tdf |-> FALSE,
              stop_on_completion |-> FALSE, buff |-> NoBuffer]
    /\ caller = [pc |-> "idle", op |-> "write", n |-> 0, stop |-> TRUE, answer |-> "none"]

\* Mutation: MSR[MBF] is not consulted.
finished_without_MBF == drv.state \in {"transfer_complete", "idle", "stopped"}

finished == drv.state = "transfer_complete" \/ (drv.state \in {"idle", "stopped"} /\ ~MBF)

tx_fifo_count(p) == Len(p.tx)

------------------------------------------------------------------------------
(***************************************************************************)
(* Handlers work on the driver's fields and the registers together.        *)
(***************************************************************************)
Machine == [drv |-> drv, port |-> port]
Becomes(m) == drv' = m.drv /\ port' = m.port

\* Mutation: MTDR keeps the commands that have not been sent.
Cleared_but_the_queue(p) == [p EXCEPT !.TDIE = FALSE, !.rx = 0]

\* No more TDF interrupts, and both FIFOs are emptied.
Cleared(p) == [p EXCEPT !.TDIE = FALSE, !.tx = <<>>, !.rx = 0]

\* Mutation: no STOP is queued.
NeedsStop_never(msr) == FALSE

\* MSR says that the bus is still ours and that no STOP has been sent.
NeedsStop(msr) == MBF /\ "SDF" \notin msr

abort_transaction_async(m) ==
    LET cleared == Cleared(m.port)
    IN  [m EXCEPT !.port = IF NeedsStop(cleared.MSR) THEN Push(cleared, STOP) ELSE cleared]

\* Mutation: only the address is expected to be NACKed.
ErrorAfter_address_only(d, msr) ==
    IF "NDF" \in msr /\ d.state = "starting" THEN "address_nak" ELSE d.error

\* What the handler of each flag, in turn, leaves in _error.
ErrorAfter(d, msr) ==
    CASE "PLTF" \in msr -> "master_pin_low_timeout"
      [] "PLTF" \notin msr /\ "ALF" \in msr -> "arbitration_lost"
      [] msr \cap {"PLTF", "ALF"} = {} /\ "NDF" \in msr ->
            IF d.state = "starting" THEN "address_nak" ELSE "data_nak"
      [] OTHER -> IF d.error = "ok" THEN "master_fifo_error" ELSE d.error

HandleErrors(m, msr) ==
    IF msr \cap ErrorFlags = {} THEN m
    ELSE LET seen == [drv  |-> [m.drv EXCEPT !.error = ErrorAfter(m.drv, msr)],
                      port |-> ClearFlags(m.port, msr \cap ErrorFlags)]
         IN  IF m.drv.state = "stopping" THEN seen
             ELSE abort_transaction_async([seen EXCEPT !.drv.state = "stopping"])

HandleStop(m, msr) ==
    IF "SDF" \notin msr THEN m
    ELSE [drv  |-> [m.drv EXCEPT !.state = "stopped"],
          port |-> ClearFlags([m.port EXCEPT !.TDIE = FALSE], {"SDF"})]

\* The first byte of a transfer puts the driver to work and forgets earlier errors.
Begun(d) == IF not_started(d.buff) THEN [d EXCEPT !.error = "ok", !.state = "transferring"] ELSE d

\* One byte per interrupt, or none if the driver is not in a transfer.
TakeByte(m) ==
    LET d == Begun(m.drv)
    IN  IF d.state = "transferring"
        THEN [drv  |-> [d EXCEPT !.buff = write(@)],
              port |-> [m.port EXCEPT !.rx = IF @ > 0 THEN @ - 1 ELSE 0]]
        ELSE [drv |-> d, port |-> [m.port EXCEPT !.rx = 0]]

\* Mutation: the transfer counts as complete while its STOP is still queued.
HandleReceive_early(m, rdf) ==
    IF ~rdf \/ ~m.drv.ignore_tdf THEN m
    ELSE LET taken == TakeByte(m)
         IN  IF ~all_done(taken.drv.buff) THEN taken
             ELSE [taken EXCEPT !.drv.state = "transfer_complete", !.port.MEN = FALSE]

HandleReceive(m, rdf) ==
    IF ~rdf THEN m
    ELSE IF ~m.drv.ignore_tdf
    THEN abort_transaction_async([m EXCEPT !.drv.state = "stopping"])
    ELSE LET taken == TakeByte(m)
         IN  IF ~all_done(taken.drv.buff) THEN taken
             ELSE [drv  |-> [taken.drv EXCEPT
                               !.state = IF tx_fifo_count(taken.port) = 1 THEN "stopping"
                                                                          ELSE "transfer_complete"],
                   port |-> [taken.port EXCEPT !.MEN = FALSE]]

TransmitK(p, k) == [p EXCEPT !.tx = @ \o [i \in 1..k |-> TRANSMIT]]

\* Mutation: the words already in the FIFO are not counted.
FillFifo_whole(m) ==
    LET k == bytes_left(m.drv.buff)
    IN  [drv |-> [m.drv EXCEPT !.buff = read(@, k)], port |-> TransmitK(m.port, k)]

\* Mutation: the FIFO is filled past the end of the buffer.
FillFifo_past_end(m) ==
    LET k == FifoSize - tx_fifo_count(m.port)
    IN  [drv |-> [m.drv EXCEPT !.buff = read(@, k)], port |-> TransmitK(m.port, k)]

FillFifo(m) ==
    LET space == FifoSize - tx_fifo_count(m.port)
        k == IF bytes_left(m.drv.buff) < space THEN bytes_left(m.drv.buff) ELSE space
    IN  [drv |-> [m.drv EXCEPT !.buff = read(@, k)], port |-> TransmitK(m.port, k)]

\* Mutation: the transmit interrupt stays enabled.
EndOfWrite_TDIE(m) ==
    LET quiet == [m EXCEPT !.port.MEN = FALSE]
    IN  IF m.drv.stop_on_completion
        THEN [quiet EXCEPT !.drv.state = "stopping", !.port = Push(@, STOP)]
        ELSE [quiet EXCEPT !.drv.state = "transfer_complete"]

\* The last byte has left the FIFO, so the slave has yet to answer it.
EndOfWrite(m) ==
    LET quiet == [m EXCEPT !.port.TDIE = FALSE, !.port.MEN = FALSE]
    IN  IF m.drv.stop_on_completion
        THEN [quiet EXCEPT !.drv.state = "stopping", !.port = Push(@, STOP)]
        ELSE [quiet EXCEPT !.drv.state = "transfer_complete"]

HandleTransmit(m, tdf) ==
    IF m.drv.ignore_tdf \/ ~tdf THEN m
    ELSE LET begun == [m EXCEPT !.drv = Begun(@)]
         IN  IF begun.drv.state # "transferring" THEN begun
             ELSE LET filled == FillFifo(begun)
                  IN  IF all_done(filled.drv.buff) /\ tx_fifo_count(filled.port) = 0
                      THEN EndOfWrite(filled) ELSE filled

\* MSR is read once; every handler decides on that copy.
ServiceInterrupt(m) ==
    LET msr == m.port.MSR
        ended == HandleStop(HandleErrors(m, msr), msr)
    IN  HandleTransmit(HandleReceive(ended, RDF(m.port)), TDF(m.port))

ISR ==
    /\ Interrupt(port)
    /\ Becomes(ServiceInterrupt(Machine))
    /\ UNCHANGED <<bus, caller>>

------------------------------------------------------------------------------
(***************************************************************************)
(* The caller's thread. A pending interrupt preempts it.                   *)
(***************************************************************************)
At(pc) == caller.pc = pc /\ ~Interrupt(port)
Goto(pc) == caller' = [caller EXCEPT !.pc = pc]
Return(answer) == caller' = [caller EXCEPT !.pc = "idle", !.answer = answer]
MayCall == At("idle") /\ port.irq /\ (PatientCaller => finished)

\* begin(): stop(), then configure the port. It resets the peripheral, not the driver.
begin ==
    /\ At("idle") /\ (PatientRestart => finished)
    /\ port' = [ResetPort EXCEPT !.irq = TRUE]
    /\ bus' = [IdleBus EXCEPT !.pin_low = bus.pin_low]
    /\ caller' = [caller EXCEPT !.answer = "none"]
    /\ UNCHANGED drv

end ==
    /\ At("idle") /\ port.irq /\ (PatientRestart => finished)
    /\ port' = ResetPort
    /\ bus' = [IdleBus EXCEPT !.pin_low = bus.pin_low]
    /\ caller' = [caller EXCEPT !.answer = "none"]
    /\ UNCHANGED drv

\* read_async() refuses a read that is too long whatever the driver is doing.
RefuseRead ==
    /\ MayCall
    /\ \E n \in Lengths, stop \in SendStop :
          /\ n > MAX_MASTER_READ_LENGTH
          /\ caller' = [pc |-> "idle", op |-> "read", n |-> n, stop |-> stop, answer |-> "refused"]
    /\ drv' = [drv EXCEPT !.error = "invalid_request"]
    /\ UNCHANGED <<port, bus>>

\* The first half of start(): the driver's fields, before any register is touched.
StartCall ==
    /\ MayCall /\ finished
    /\ \E op \in {"write", "read"}, n \in Lengths, stop \in SendStop :
          /\ op = "read" => n <= MAX_MASTER_READ_LENGTH
          /\ caller' = [pc |-> "start", op |-> op, n |-> n, stop |-> stop, answer |-> "none"]
          /\ drv' = [drv EXCEPT !.ignore_tdf = (op = "read"), !.error = "ok",
                                !.state = "starting"]
    /\ UNCHANGED <<port, bus>>

\* start() while the driver is busy: it finds finished() false...
RejectCall ==
    /\ MayCall /\ ~finished
    /\ \E op \in {"write", "read"}, n \in Lengths, stop \in SendStop :
          /\ op = "read" => n <= MAX_MASTER_READ_LENGTH
          /\ caller' = [pc |-> "abort", op |-> op, n |-> n, stop |-> stop, answer |-> "refused"]
    /\ UNCHANGED <<port, bus, drv>>

\* ... so abort_transaction_async() ends whatever is going on by now...
Abort ==
    /\ At("abort") /\ Goto(IF NeedsStop(port.MSR) THEN "abort_stop" ELSE "reject")
    /\ port' = Cleared(port)
    /\ UNCHANGED <<bus, drv>>

AbortStop ==
    /\ At("abort_stop") /\ Goto("reject")
    /\ port' = Push(port, STOP)
    /\ UNCHANGED <<bus, drv>>

\* Mutation: the driver stays in the state the abandoned transfer left it in.
Rejected_as_busy ==
    /\ At("reject") /\ Return("refused")
    /\ drv' = [drv EXCEPT !.error = "master_not_ready"]
    /\ UNCHANGED <<port, bus>>

\* ... and only then is the rejection recorded.
Rejected ==
    /\ At("reject") /\ Return("refused")
    /\ drv' = [drv EXCEPT !.error = "master_not_ready", !.state = "idle"]
    /\ UNCHANGED <<port, bus>>

\* Mutation: the FIFOs are taken to be empty.
SendStart_unchecked ==
    /\ At("start")
    /\ port' = Push([ClearFlags(port, LatchedFlags) EXCEPT !.MEN = TRUE],
                    START(IF caller.op = "read" THEN MASTER_READ ELSE MASTER_WRITE))
    /\ Goto("arm")
    /\ UNCHANGED <<drv, bus>>

\* The second half of start().
SendStart ==
    /\ At("start")
    /\ IF port.tx # <<>> \/ port.rx > 0
       THEN /\ Becomes(abort_transaction_async(
                          [Machine EXCEPT !.drv.error = "master_fifos_not_empty"]))
            /\ Return("refused")
       ELSE /\ port' = Push([ClearFlags(port, LatchedFlags) EXCEPT !.MEN = TRUE],
                            START(IF caller.op = "read" THEN MASTER_READ ELSE MASTER_WRITE))
            /\ Goto("arm")
            /\ UNCHANGED drv
    /\ UNCHANGED bus

\* An empty transfer probes for a slave: the STOP follows the address.
Probe ==
    /\ At("arm") /\ caller.n = 0
    /\ drv' = [drv EXCEPT !.ignore_tdf = TRUE]
    /\ port' = Push(port, STOP)
    /\ Return("accepted")
    /\ UNCHANGED bus

ArmWrite ==
    /\ At("arm") /\ caller.op = "write" /\ caller.n > 0
    /\ drv' = [drv EXCEPT !.buff = initialise(caller.n), !.stop_on_completion = caller.stop]
    /\ Goto("enable")
    /\ UNCHANGED <<port, bus>>

EnableTransmit ==
    /\ At("enable")
    /\ port' = [port EXCEPT !.TDIE = TRUE]
    /\ Return("accepted")
    /\ UNCHANGED <<bus, drv>>

ArmRead ==
    /\ At("arm") /\ caller.op = "read" /\ caller.n > 0
    /\ drv' = [drv EXCEPT !.buff = initialise(caller.n)]
    /\ Goto("receive")
    /\ UNCHANGED <<port, bus>>

PushReceive ==
    /\ At("receive")
    /\ port' = Push(port, RECEIVE(caller.n))
    /\ IF caller.stop THEN Goto("push_stop") ELSE Return("accepted")
    /\ UNCHANGED <<bus, drv>>

PushStop ==
    /\ At("push_stop")
    /\ port' = Push(port, STOP)
    /\ Return("accepted")
    /\ UNCHANGED <<bus, drv>>

FinishCall ==
    \/ Abort \/ AbortStop \/ Rejected
    \/ SendStart \/ Probe \/ ArmWrite \/ EnableTransmit \/ ArmRead \/ PushReceive \/ PushStop
MakeCall == StartCall \/ RejectCall \/ RefuseRead

------------------------------------------------------------------------------
ISRInTime == PromptISR => ~Interrupt(port)
CallerReturned == PromptCaller => caller.pc = "idle"
\* ... unless it has found finished() false and has yet to do something about it.
CallerInTime == CallerReturned \/ caller.pc = "abort"

BeginOnBus == ISRInTime /\ PopStart /\ UNCHANGED <<drv, caller>>
UseBus == ISRInTime /\ CallerInTime /\ Transfer /\ UNCHANGED <<drv, caller>>
\* PINLOW is many times the time of a byte.
HoldPin == ISRInTime /\ CallerReturned /\ PinHeldLow
DisturbBus == (HoldPin \/ PinReleased) /\ UNCHANGED <<drv, caller>>

Next == ISR \/ begin \/ end \/ MakeCall \/ FinishCall \/ BeginOnBus \/ UseBus \/ DisturbBus

Spec == Init /\ [][Next]_vars

(***************************************************************************)
(* The interrupt is taken, a call that was made returns, the peripheral    *)
(* works through its queue, the slave answers every byte and whoever holds *)
(* a line low lets go of it in the end.  Nobody has to make a call.        *)
(* UseBus needs the strong form: a caller who keeps calling can disable   *)
(* it (CallerInTime) for the length of a call, over and over.              *)
(***************************************************************************)
Fairness ==
    /\ WF_vars(ISR) /\ WF_vars(FinishCall) /\ WF_vars(BeginOnBus) /\ SF_vars(UseBus)
    /\ WF_vars(PinReleased /\ UNCHANGED <<drv, caller>>)
FairSpec == Spec /\ Fairness
\* As well, a caller who finds the driver busy tries again in the end.
RetrySpec == Spec /\ Fairness /\ SF_vars(RejectCall)

------------------------------------------------------------------------------
\* Every field of the driver, every register and the caller's thread keep their
\* types, and the driver never overfills the command FIFO.
TypeOK ==
    /\ port \in PortType /\ Len(port.tx) <= FifoSize
    /\ bus \in BusType
    /\ drv \in DriverType
    /\ caller \in CallerType

\* The cursor stays inside the array the caller passed, whatever the ISR
\* interrupts and however a transfer is abandoned: next_index is compared with
\* "==" in finished_writing() and finished_reading(), so a cursor that overran
\* would never be stopped.
BufferInBounds == drv.buff.next_index <= drv.buff.size

\* There is never a START behind another command: an aborted or rejected call
\* leaves none of its commands for the next call to trip over.
OnlyFirstStarts(q) == \A i \in 2..Len(q) : q[i].cmd # "START"
OneStart == OnlyFirstStarts(port.tx)

\* The caller's thread is outside the driver and finished() is true.
Free == caller.pc = "idle" /\ finished
Accepted == caller.answer = "accepted"

\* When finished() is true, no error means that every byte was acknowledged or
\* received, that get_bytes_transferred() says so, and that the STOP that was
\* asked for has been sent.
Complete ==
    Free /\ Accepted /\ drv.error = "ok" =>
        /\ bus.moved = caller.n /\ bus.nak = "none"
        /\ caller.n > 0 => get_bytes_transferred(drv.buff) = caller.n
        /\ caller.stop => ~MBF

\* A NACK from the slave is never lost: not among the interrupts that follow it
\* and not by the "first byte" branches that set _error back to ok.
NakReported ==
    Free /\ Accepted /\ bus.nak # "none" => drv.error \in {"address_nak", "data_nak"}

\* start() never meets a FIFO that is not empty ("This should never happen").
FifosEmptyAtStart == drv.error # "master_fifos_not_empty"

\* The peripheral never sees data without a START ("Programming error").
NoFifoError == "FEF" \notin port.MSR

\* The ISR always changes something: otherwise it would be entered again at
\* once, for ever, and the caller's thread would never run.
NoInterruptStorm == Interrupt(port) => ServiceInterrupt(Machine) # Machine

\* finished() stays true until the next call is made.
StaysFinished == [][Free => finished' \/ StartCall]_vars

\* Once finished() is true the array belongs to the caller again: the ISR does
\* not touch it, nor while the next call has yet to replace it.
BufferReleased ==
    [][Free \/ caller.pc \in {"start", "arm"} => drv'.buff = drv.buff \/ ArmWrite \/ ArmRead]_vars

\* Every call that is made ends, and finished() becomes true.
CallEnds == ~Free ~> Free

\* A caller who keeps trying gets the driver back, even after losing the bus to another
\* master, a line held low, or a begin() in the middle of a transaction; unless it is
\* ended.
RetryRecovers == []<>(finished \/ ~port.irq)

------------------------------------------------------------------------------
(***************************************************************************)
(* The driver keeps the promise of I2CTransfer.                            *)
(***************************************************************************)
outcomeOfCall ==
    CASE caller.answer = "refused" -> "failure"
      [] Accepted /\ Free -> IF drv.error = "ok" THEN "success" ELSE "failure"
      [] OTHER -> "none"
bytesMoved ==
    IF outcomeOfCall = "failure" \/ caller.pc = "start" \/ Queued("START") THEN 0 ELSE bus.moved

Promise == INSTANCE I2CTransfer WITH
    status <- IF Free THEN "finished" ELSE "busy",
    outcome <- outcomeOfCall,
    wanted <- caller.n,
    moved <- bytesMoved

\* finished(), error() and the bytes on the bus behave as I2CTransfer says.
KeepsPromise == Promise!Spec
==============================================================================
