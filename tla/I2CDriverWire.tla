---------------------------- MODULE I2CDriverWire ----------------------------
(***************************************************************************)
(* I2CDriverWire: the Arduino Wire API.  As a master it is a blocking      *)
(* client of the driver; as a slave its callbacks, made by the slave       *)
(* driver's ISR, share two arrays and three cursors with the thread.       *)
(***************************************************************************)
EXTENDS I2CBlockingCall, FiniteSetsExt

CONSTANTS
    BufferLength,    \* rx_buffer_length and tx_buffer_length
    Quantities,      \* what the application asks of requestFrom()
    Fillings         \* where a slave may write(): each a set of "loop" and "callbacks"

ASSUME WireAssumption ==
    /\ BufferLength \in 1..MaxLength /\ Quantities \subseteq Nat
    /\ Fillings \subseteq SUBSET {"loop", "callbacks"}

\* The fields of I2CDriverWire, the cursor read() has loaded (index), the one write() has
\* loaded (dest) with the bytes it has not counted yet (adding), and where this slave's
\* application write()s (fills).
VARIABLE wire

NotReading == BufferLength + 1
WireType ==
    [role : {"unused", "none", "master", "slave"}, tx_next_byte_to_write : 0..BufferLength,
     rx_bytes_available : Nat, rx_next_byte_to_read : Nat, index : 0..NotReading,
     dest : 0..BufferLength, adding : 0..BufferLength, fills : SUBSET {"loop", "callbacks"}]

InitWire ==
    wire \in [role : {"unused", "none"}, tx_next_byte_to_write : {0}, rx_bytes_available : {0},
              rx_next_byte_to_read : {0}, index : {NotReading}, dest : {0}, adding : {0}, fills : {{}}]

InThread ==
    InClient("idle") /\ wire.role # "unused" /\ wire.index = NotReading /\ wire.adding = 0

\* begin(): end() and then master.begin().
BeginMaster ==
    /\ InThread /\ begin
    /\ wire' = [wire EXCEPT !.role = "master", !.fills = {}]
    /\ UNCHANGED thread

\* master.end(), which changes nothing of a driver that has not begun.
EndMaster == end \/ (~port.irq /\ UNCHANGED driver)

\* begin(address): end() and then slave.listen(), with the callbacks in place.
BeginSlave ==
    /\ InThread /\ EndMaster
    /\ \E where \in Fillings : wire' = [wire EXCEPT !.role = "slave", !.fills = where]
    /\ UNCHANGED thread

EndWire ==
    /\ InThread /\ EndMaster
    /\ wire' = [wire EXCEPT !.role = "none", !.fills = {}]
    /\ UNCHANGED thread

beginTransmission ==
    /\ InThread
    /\ wire' = [wire EXCEPT !.tx_next_byte_to_write = 0]
    /\ UNCHANGED <<driver, thread>>

\* Mutation: the bound is checked with <=.
avail_closed == BufferLength - wire.tx_next_byte_to_write + 1

avail == BufferLength - wire.tx_next_byte_to_write

\* Both write()s: all the bytes fit, or none is taken and nothing happens...
WriteBegins ==
    /\ InThread /\ (wire.role = "slave" => "loop" \in wire.fills)
    /\ \E n \in 1..BufferLength :
          /\ n <= avail
          /\ wire' = [wire EXCEPT !.dest = wire.tx_next_byte_to_write, !.adding = n]
    /\ UNCHANGED <<driver, thread>>

\* ... and the cursor is moved after the bytes have been copied: the one loaded before, or
\* loaded again, as the compiler chooses. The slave's callbacks may have come in between.
WriteEnds ==
    /\ wire.adding > 0 /\ At("idle")
    /\ \E cursor \in {wire.dest, wire.tx_next_byte_to_write} :
          wire' = [wire EXCEPT !.tx_next_byte_to_write = cursor + wire.adding, !.dest = 0, !.adding = 0]
    /\ UNCHANGED <<driver, thread>>

endTransmission ==
    /\ InThread /\ wire.role = "master"
    /\ \E stop \in SendStop :
          Async("endTransmission", wire.tx_next_byte_to_write, "write", wire.tx_next_byte_to_write, stop)
    /\ UNCHANGED wire

TransmissionEnded ==
    /\ InClient("endTransmission")
    /\ ReturnToClient(drv.error = "ok")
    /\ UNCHANGED <<driver, wire>>

\* The array is only as long as it is.
requestFrom ==
    /\ InThread /\ wire.role = "master"
    /\ \E quantity \in Quantities, stop \in SendStop :
          LET n == Min({quantity, BufferLength}) IN Async("requestFrom", n, "read", n, stop)
    /\ wire' = [wire EXCEPT !.rx_bytes_available = 0, !.rx_next_byte_to_read = 0]

\* Mutation: the bytes asked for are the bytes that came.
BytesRequested_all ==
    /\ InClient("requestFrom")
    /\ wire' = [wire EXCEPT !.rx_bytes_available = thread.n]
    /\ ReturnToClient(drv.error = "ok")
    /\ UNCHANGED driver

\* requestFrom() returns how many bytes came and has no way to return the error.
BytesRequested ==
    /\ InClient("requestFrom")
    /\ wire' = [wire EXCEPT !.rx_bytes_available = get_bytes_transferred(drv.buff)]
    /\ ReturnToClient(drv.error = "ok")
    /\ UNCHANGED driver

------------------------------------------------------------------------------
(***************************************************************************)
(* read() compares the cursors, then takes the byte and moves one of them: *)
(* the slave's ISR may come in between. peek() stops after the comparison. *)
(***************************************************************************)

\* Mutation: one byte more than there is.
ReadBegins_closed ==
    /\ InThread /\ wire.rx_next_byte_to_read <= wire.rx_bytes_available
    /\ wire' = [wire EXCEPT !.index = wire.rx_next_byte_to_read]
    /\ UNCHANGED <<driver, thread>>

ReadBegins ==
    /\ InThread /\ wire.rx_next_byte_to_read < wire.rx_bytes_available
    /\ wire' = [wire EXCEPT !.index = wire.rx_next_byte_to_read]
    /\ UNCHANGED <<driver, thread>>

ReadEnds ==
    /\ wire.index # NotReading /\ At("idle")
    /\ wire' = [wire EXCEPT !.rx_next_byte_to_read = wire.index + 1, !.index = NotReading]
    /\ UNCHANGED <<driver, thread>>

\* What the cursor can be once a callback of the application has begun with it.
Written(cursor) == IF "callbacks" \in wire.fills THEN cursor..BufferLength ELSE {cursor}

\* The slave driver's ISR has received a block of n bytes. on_receive() may read() and write().
on_receive_wrapper ==
    /\ wire.role = "slave"
    /\ \E n \in 1..BufferLength, cursor \in Written(wire.tx_next_byte_to_write) :
          \E taken \in 0..n :
             wire' = [wire EXCEPT !.rx_bytes_available = n, !.rx_next_byte_to_read = taken,
                                  !.tx_next_byte_to_write = cursor]
    /\ UNCHANGED <<driver, thread>>

\* A master is about to read. on_request() may write() what it will be sent, from the
\* beginning of the buffer.
before_transmit ==
    /\ wire.role = "slave"
    /\ \E cursor \in Written(0) : wire' = [wire EXCEPT !.tx_next_byte_to_write = cursor]
    /\ UNCHANGED <<driver, thread>>

WireStep ==
    \/ BeginMaster \/ BeginSlave \/ EndWire
    \/ beginTransmission \/ WriteBegins \/ WriteEnds \/ endTransmission \/ TransmissionEnded
    \/ requestFrom \/ BytesRequested \/ ReadBegins \/ ReadEnds
    \/ on_receive_wrapper \/ before_transmit
==============================================================================
