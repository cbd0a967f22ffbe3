---------------------------- MODULE RegisterFile ----------------------------
(***************************************************************************)
(* What I2CRegisterSlave promises: a file of registers of one byte, the    *)
(* first of which the master can write, and the rest only the application. *)
(* A frame of one byte selects a register; the next frame reads or writes  *)
(* from there on. A longer frame selects and writes at once. Nothing stays *)
(* selected after a read or a write, and what cannot be written is         *)
(* discarded, whatever the frame after it is.                              *)
(***************************************************************************)
EXTENDS Naturals, SequencesExt

CONSTANTS
    Byte,           \* a byte is one of 0..Byte-1
    Mutable,        \* how many registers the master may write
    ReadOnly,       \* how many follow that it may only read
    BufferLength,   \* REG_SLAVE_WRITE_BUFFER_LENGTH: longest frame that is taken whole
    MaxFrame        \* most bytes a master moves in one frame

VARIABLES
    registers,    \* the registers the master may write
    status,       \* and those it may not
    selected,     \* the register the next frame is about
    frame,        \* the last frame: its direction, and the bytes written or read
    told          \* the callbacks it led to

NoRegister == Byte
Data == 0..Byte-1

Callback(name, register, count) == [name |-> name, register |-> register, count |-> count]

Upto(s, n) == SubSeq(s, 1, IF Len(s) < n THEN Len(s) ELSE n)

Init ==
    /\ registers \in [0..Mutable-1 -> Data] /\ status \in [0..ReadOnly-1 -> Data]
    /\ selected = NoRegister
    /\ frame = [direction |-> "none", bytes |-> <<>>]
    /\ told = <<>>

Wrote(bytes) == frame' = [direction |-> "write", bytes |-> bytes]

Select(r) ==
    /\ selected = NoRegister
    /\ Wrote(<<r>>) /\ selected' = r /\ told' = <<>>
    /\ UNCHANGED <<registers, status>>

\* data is put where it belongs as far as it fits. What the application is told is
\* how many bytes came, which may be more than were put.
Put(r, data) ==
    /\ registers' = [i \in DOMAIN registers |->
                       IF i \in r..(r + Len(data) - 1) THEN data[i - r + 1] ELSE registers[i]]
    /\ \E count \in 0..Len(data) :
          /\ Len(data) <= Mutable - r => count = Len(data)
          /\ told' = <<Callback("after_write", r, count)>>
    /\ selected' = NoRegister
    /\ UNCHANGED status

\* At once, or what is written to the register that was selected.
Write(bytes) ==
    /\ Wrote(bytes)
    /\ IF selected = NoRegister
       THEN Len(bytes) > 1 /\ LET taken == Upto(bytes, BufferLength) IN Put(Head(taken), Tail(taken))
       ELSE selected < Mutable /\ Put(selected, bytes)

Discard(bytes) ==
    /\ selected # NoRegister /\ selected >= Mutable
    /\ Wrote(bytes)
    /\ selected' = NoRegister
    /\ told' = <<>> \/ \E count \in 0..Len(bytes) : told' = <<Callback("after_write", selected, count)>>
    /\ UNCHANGED <<registers, status>>

\* The registers from r to the end of its part of the file.
From(r) ==
    CASE r < Mutable -> [i \in 1..(Mutable - r) |-> registers[r + i - 1]]
      [] r >= Mutable /\ r < Mutable + ReadOnly ->
            [i \in 1..(Mutable + ReadOnly - r) |-> status[r - Mutable + i - 1]]
      [] OTHER -> <<>>

\* The registers from the one selected, then zeros. Which register the application
\* is told of when none was selected is not promised.
Read(n) ==
    /\ LET held == IF selected = NoRegister THEN <<>> ELSE From(selected)
       IN  frame' = [direction |-> "read",
                     bytes |-> [i \in 1..n |-> IF i <= Len(held) THEN held[i] ELSE 0]]
    /\ \E r \in Data :
          (selected # NoRegister => r = selected) /\ told' = <<Callback("after_read", r, 0)>>
    /\ selected' = NoRegister
    /\ UNCHANGED <<registers, status>>

\* The application's own doing: new values to read, or listen() again.
Update ==
    /\ status' \in [0..ReadOnly-1 -> Data]
    /\ UNCHANGED <<registers, selected, frame, told>>

Forget == selected' = NoRegister /\ told' = <<>> /\ UNCHANGED <<registers, status, frame>>

Next ==
    \/ \E r \in Data : Select(r)
    \/ \E bytes \in BoundedSeq(Data, MaxFrame) : Write(bytes) \/ Discard(bytes)
    \/ \E n \in 1..MaxFrame : Read(n)
    \/ Update \/ Forget

Spec == Init /\ [][Next]_<<registers, status, selected, frame, told>>
==============================================================================
