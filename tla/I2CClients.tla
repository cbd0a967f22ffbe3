----------------------------- MODULE I2CClients -----------------------------
(***************************************************************************)
(* A sketch that uses an I2CDevice or Wire: the client, the driver, its    *)
(* ISR, the peripheral and the bus together.                               *)
(***************************************************************************)
EXTENDS I2CDevice, I2CDriverWire

cvars == <<port, bus, drv, caller, thread, wire>>

InitClients == Init /\ InitThread /\ InitWire

NextClients ==
    \/ wire.role = "unused" /\ DeviceStep /\ UNCHANGED wire
    \/ WireStep
    \/ (DriverStep \/ finish \/ BusStep) /\ UNCHANGED wire

SpecClients == InitClients /\ [][NextClients]_cvars

\* The driver's fairness, and a thread that is in a call goes on with it.
FairClients ==
    /\ SpecClients
    /\ WF_cvars(ISR /\ UNCHANGED <<thread, wire>>)
    /\ WF_cvars(FinishCall /\ UNCHANGED <<thread, wire>>)
    /\ SF_cvars(BusStep /\ UNCHANGED wire)
    /\ WF_cvars(finish /\ UNCHANGED wire)
    /\ WF_cvars((Selected \/ Done) /\ UNCHANGED wire)
    /\ WF_cvars(TransmissionEnded \/ BytesRequested)

------------------------------------------------------------------------------
\* Every field of the clients keeps its type.
ClientsTypeOK == thread \in ThreadType /\ wire \in WireType

Returns == thread.pc # "idle" /\ thread'.pc = "idle"

\* As long as no wait has timed out, a blocking call succeeds if and only if the driver took
\* it and no byte was NACKed; a read that succeeds brought every byte, and a write that
\* ends with a STOP sent every byte. read() makes two calls, the first keeps the bus and
\* finishes before its byte is acknowledged, and error() is read some time after finished().
OutcomeIsTrue ==
    [][Returns /\ ~thread.timed_out =>
        /\ thread'.ok <=> Accepted /\ ~thread.fault
        /\ thread'.ok /\ thread.pc \in {"read", "requestFrom"} => thread.got = thread.n
        /\ thread'.ok /\ thread.pc \in {"write", "endTransmission"} /\ caller.stop =>
              bus.moved = thread.n]_cvars

\* As long as no wait has timed out, the ISR uses an array only during the call that lent
\* it: I2CDevice::write() has it on the stack, and read() zeroes it on the way out.
ArrayIsLent ==
    [][ISR /\ drv'.buff # drv.buff => thread.waiting \/ thread.timed_out]_cvars

\* requestFrom() returns the number of bytes that came, if the driver took the call
\* and there was something to ask for.
CountIsTrue ==
    [][Returns /\ thread.pc = "requestFrom" /\ ~thread.timed_out /\ Accepted /\ thread.n > 0 =>
        wire'.rx_bytes_available = thread.got]_cvars

\* read() never takes a byte from outside rxBuffer and write() never puts one outside
\* tx_buffer, wherever it copies to: although the slave's ISR resets the cursors between the
\* comparison and the step that stores them.
CursorsInBuffers ==
    /\ wire.dest + wire.adding <= BufferLength
    /\ wire.tx_next_byte_to_write + wire.adding <= BufferLength
    /\ wire.rx_next_byte_to_read <= BufferLength
    /\ wire.index # NotReading => wire.index < BufferLength

\* Every blocking call returns, although the driver may wait for ever after losing
\* arbitration: finish() has a time limit.
CallsReturn == thread.pc # "idle" ~> thread.pc = "idle"

\* i2c_device.h:110, on what read() does: "Zero the buffer if the read failed to avoid
\* using stale data." A read that does not zero its buffer brought all of it.
NoStaleData == [][Returns /\ thread.pc = "read" /\ thread'.ok => thread.got = thread.n]_cvars
=============================================================================
