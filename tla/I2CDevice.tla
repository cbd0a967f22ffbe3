----------------------------- MODULE I2CDevice -----------------------------
(***************************************************************************)
(* I2CDevice: blocking reads and writes of a device's registers.           *)
(* A read is two transactions, the number of the register, with the bus    *)
(* kept, and then the bytes.  Byte order is left out.                      *)
(***************************************************************************)
EXTENDS I2CBlockingCall

CONSTANT Sizes    \* the num_bytes the application asks for

ASSUME DeviceAssumption == Sizes \subseteq 0..MaxLength - 1

\* The sketch calls begin() of the driver itself.
Begin == InClient("idle") /\ begin /\ UNCHANGED thread

has_error == drv.error # "ok"

\* The register number and the bytes, from an array on the stack.
Write ==
    /\ InClient("idle")
    /\ \E n \in Sizes, stop \in SendStop : Async("write", n + 1, "write", n + 1, stop)

\* read() begins with write_register(), which keeps the bus.
Read ==
    /\ InClient("idle")
    /\ \E n \in Sizes : Async("select", n, "write", 1, FALSE)

\* Mutation: read() does not look at what write_register() returns.
Selected_unchecked ==
    /\ InClient("select")
    /\ \E stop \in SendStop : Async("read", thread.n, "read", thread.n, stop)

Selected ==
    /\ InClient("select")
    /\ IF has_error
       THEN ReturnToClient(FALSE) /\ UNCHANGED driver
       ELSE \E stop \in SendStop : Async("read", thread.n, "read", thread.n, stop)

Done ==
    /\ InClient("write") \/ InClient("read")
    /\ ReturnToClient(~has_error)
    /\ UNCHANGED driver

DeviceStep == Begin \/ Write \/ Read \/ Selected \/ Done
=============================================================================
