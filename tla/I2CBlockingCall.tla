-------------------------- MODULE I2CBlockingCall --------------------------
(***************************************************************************)
(* What I2CDevice and I2CDriverWire have in common: a thread that makes    *)
(* one asynchronous call of the master driver and waits in finish() until  *)
(* finished() is true or 200 ms are over.  The driver, its ISR, the        *)
(* peripheral and the bus are those of I2CMaster.                          *)
(*                                                                         *)
(* Time is not modelled: a slave may stretch the clock for as long as it   *)
(* likes, so a wait that has not ended may time out at any moment.         *)
(***************************************************************************)
EXTENDS I2CMaster

CONSTANT AvoidsStop    \* TRUE: no call is made while a STOP is on the wire

ASSUME ClientAssumption == AvoidsStop \in BOOLEAN

VARIABLE thread    \* the client's thread: the call it is in, and what came of the last

driver == <<port, bus, drv, caller>>

\* n: what was asked for. got: the bytes received since the last call of the driver.
\* fault: a byte was NACKed or the bus was lost since the client was called.
\* timed_out: some wait has timed out. ok: what the last call returned.
ThreadType ==
    [pc : {"idle", "write", "select", "read", "endTransmission", "requestFrom"},
     waiting : BOOLEAN, n : 0..MaxLength, got : 0..MaxLength,
     timed_out : BOOLEAN, fault : BOOLEAN, ok : BOOLEAN]

InitThread ==
    thread = [pc |-> "idle", waiting |-> FALSE, n |-> 0, got |-> 0, timed_out |-> FALSE,
              fault |-> FALSE, ok |-> TRUE]

\* The thread is in its own code: no call of the driver is on the stack, no interrupt pending.
InClient(pc) == thread.pc = pc /\ ~thread.waiting /\ At("idle")

\* write_async() or read_async(), up to the first register it touches, on behalf of a
\* call that was asked for n bytes.
Async(pc, n, op, length, stop) ==
    /\ AvoidsStop => bus.phase # "stop"
    /\ MakeCall
    /\ caller'.op = op /\ caller'.n = length /\ caller'.stop = stop
    /\ thread' = [thread EXCEPT !.pc = pc, !.n = n, !.got = 0, !.waiting = TRUE,
                                !.fault = @ /\ thread.pc # "idle"]

\* Mutation: the wait is over when the transfer has begun.
Finished_begun ==
    /\ thread.waiting /\ At("idle") /\ (finished \/ drv.state # "starting")
    /\ thread' = [thread EXCEPT !.waiting = FALSE]
    /\ UNCHANGED driver

Finished ==
    /\ thread.waiting /\ At("idle") /\ finished
    /\ thread' = [thread EXCEPT !.waiting = FALSE]
    /\ UNCHANGED driver

TimedOut ==
    /\ thread.waiting /\ At("idle") /\ ~finished
    /\ thread' = [thread EXCEPT !.waiting = FALSE, !.timed_out = TRUE]
    /\ UNCHANGED driver

\* Mutation: the loop has no time limit.
finish_unlimited ==
    Finished \/ (thread.waiting /\ At("idle") /\ ~finished /\ UNCHANGED <<driver, thread>>)

finish == Finished \/ TimedOut

\* error() is read some time after finished() was.
ReturnToClient(ok) == thread' = [thread EXCEPT !.pc = "idle", !.ok = ok]

\* The steps of the driver, and what the bus does to the call.
DriverStep == (ISR \/ FinishCall) /\ UNCHANGED thread
Faulted == (bus.nak = "none" /\ bus'.nak # "none") \/ "ALF" \in port'.MSR \ port.MSR
BusStep ==
    /\ BeginOnBus \/ UseBus
    /\ thread' = [thread EXCEPT !.fault = @ \/ Faulted,
                                !.got = IF port'.rx > port.rx /\ @ < MaxLength THEN @ + 1 ELSE @]
=============================================================================
