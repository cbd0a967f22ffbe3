-------------------------- MODULE I2CRegisterSlave --------------------------
(***************************************************************************)
(* I2CRegisterSlave over the promise of the slave driver, which I2CSlave   *)
(* checks: a frame of the master fills the receive buffer or empties the   *)
(* transmit buffer, then makes a callback, unless it is a write and there  *)
(* is no receive buffer. A frame is one step: nothing else sets a buffer.  *)
(***************************************************************************)
EXTENDS Naturals, SequencesExt

CONSTANTS
    Byte,               \* a byte is one of 0..Byte-1: 256 in the code
    Mutable,            \* num_mutable_bytes
    ReadOnly,           \* num_read_only_bytes
    BufferLength,       \* REG_SLAVE_WRITE_BUFFER_LENGTH
    MaxFrame,           \* most bytes a master moves in one frame
    DataBytes,          \* the bytes that stand for data rather than a register
    WritesReadOnly      \* TRUE: the master may select a read-only register, then write

ASSUME RegisterSlaveAssumption ==
    /\ {Byte, BufferLength} \subseteq Nat \ {0} /\ {Mutable, ReadOnly, MaxFrame} \subseteq Nat
    /\ DataBytes \subseteq 0..Byte-1 /\ WritesReadOnly \in BOOLEAN

VARIABLES
    memory,      \* the arrays: rx_buffer, and the application's mutable_buffer, read_only_buffer
    slave,       \* where the slave's receive and transmit buffers point
    got_reg_num,
    bus          \* the master's side: the register it has selected, its last frame and
                 \* the callbacks that frame led to

vars == <<memory, slave, got_reg_num, bus>>

NoRegister == Byte
Data == 0..Byte-1
Pointer(array, offset, size) == [array |-> array, offset |-> offset, size |-> size]
Callback(name, register, count) == [name |-> name, register |-> register, count |-> count]

\* memcpy(): nothing stops it at the end of the array.
Store(array, offset, bytes) ==
    [i \in DOMAIN array \cup offset..(offset + Len(bytes) - 1) |->
        IF i \in offset..(offset + Len(bytes) - 1) THEN bytes[i - offset + 1] ELSE array[i]]

Upto(s, n) == SubSeq(s, 1, IF Len(s) < n THEN Len(s) ELSE n)

Machine == [memory |-> memory, slave |-> slave, got_reg_num |-> got_reg_num, told |-> <<>>]

wait_for_reg_num(m) ==
    [m EXCEPT !.got_reg_num = FALSE,
              !.slave = [rx |-> Pointer("rx_buffer", 0, BufferLength),
                         tx |-> Pointer("mutable_buffer", 0, 0)]]

Init ==
    /\ memory \in [rx_buffer : {[i \in 0..BufferLength-1 |-> 0]},
                   mutable_buffer : [0..Mutable-1 -> DataBytes],
                   read_only_buffer : [0..ReadOnly-1 -> DataBytes]]
    /\ slave = [rx |-> Pointer("rx_buffer", 0, BufferLength),
                tx |-> Pointer("mutable_buffer", 0, 0)]
    /\ got_reg_num = FALSE
    /\ bus = [selected |-> NoRegister, frame |-> [direction |-> "none", bytes |-> <<>>],
              told |-> <<>>]

------------------------------------------------------------------------------
\* Mutation: the last bytes of the frame are not cut off.
SetRegister_uncut(m, len) ==
    LET reg_num == m.memory.rx_buffer[0]
    IN  IF reg_num >= Mutable THEN m
        ELSE [m EXCEPT !.memory.mutable_buffer =
                Store(@, reg_num, [i \in 1..len - 1 |-> m.memory.rx_buffer[i]])]

\* Register number and data in one frame.
SetRegister(m, len) ==
    LET reg_num == m.memory.rx_buffer[0]
        buffer_size == (Mutable - reg_num) % Byte
        copy_len == IF len - 1 > buffer_size THEN buffer_size ELSE len - 1
    IN  IF reg_num >= Mutable THEN m
        ELSE [m EXCEPT !.memory.mutable_buffer =
                Store(@, reg_num, [i \in 1..copy_len |-> m.memory.rx_buffer[i]])]

\* Mutation: the size of a register is not counted from where it starts.
SelectRegister_whole(m) ==
    LET reg_num == m.memory.rx_buffer[0]
        offset == (reg_num - Mutable) % Byte
        mutable == Pointer("mutable_buffer", reg_num, Mutable)
    IN  IF reg_num < Mutable THEN [m EXCEPT !.slave = [rx |-> mutable, tx |-> mutable]]
        ELSE [m EXCEPT !.slave =
                [rx |-> Pointer("rx_buffer", 0, 0),
                 tx |-> IF offset < ReadOnly
                        THEN Pointer("read_only_buffer", offset, ReadOnly - offset)
                        ELSE Pointer("read_only_buffer", 0, 0)]]

\* The register number alone: the buffers are set for the next frame.
SelectRegister(m) ==
    LET reg_num == m.memory.rx_buffer[0]
        offset == (reg_num - Mutable) % Byte
        mutable == Pointer("mutable_buffer", reg_num, (Mutable - reg_num) % Byte)
    IN  IF reg_num < Mutable THEN [m EXCEPT !.slave = [rx |-> mutable, tx |-> mutable]]
        ELSE [m EXCEPT !.slave =
                [rx |-> Pointer("rx_buffer", 0, 0),
                 tx |-> IF offset < ReadOnly
                        THEN Pointer("read_only_buffer", offset, ReadOnly - offset)
                        ELSE Pointer("read_only_buffer", 0, 0)]]

Written(m, num_bytes) ==
    wait_for_reg_num([m EXCEPT !.told = <<Callback("after_write", m.memory.rx_buffer[0], num_bytes)>>])

\* Mutation: a frame with data leaves got_reg_num set.
after_receive_numbered(m, len) ==
    CASE m.got_reg_num -> Written(m, len % Byte)
      [] ~m.got_reg_num /\ len > 1 ->
            [Written(SetRegister(m, len), (len - 1) % Byte) EXCEPT !.got_reg_num = TRUE]
      [] OTHER -> SelectRegister([m EXCEPT !.got_reg_num = TRUE])

after_receive(m, len) ==
    CASE m.got_reg_num -> Written(m, len % Byte)
      [] ~m.got_reg_num /\ len > 1 -> Written(SetRegister(m, len), (len - 1) % Byte)
      [] OTHER -> SelectRegister([m EXCEPT !.got_reg_num = TRUE])

after_transmit(m) ==
    [wait_for_reg_num(m) EXCEPT !.told = <<Callback("after_read", m.memory.rx_buffer[0], 0)>>]

------------------------------------------------------------------------------
\* What the driver makes of a frame.
Receive(m, bytes) ==
    LET rx == m.slave.rx
        taken == Upto(bytes, rx.size)
    IN  IF rx.size = 0 THEN m
        ELSE after_receive([m EXCEPT !.memory[rx.array] = Store(@, rx.offset, taken)], Len(taken))

Sent(n) ==
    LET tx == slave.tx
    IN  [i \in 1..n |-> IF i <= tx.size THEN memory[tx.array][tx.offset + i - 1] ELSE 0]

Ends(m, direction, bytes, selected) ==
    /\ memory' = m.memory /\ slave' = m.slave /\ got_reg_num' = m.got_reg_num
    /\ bus' = [selected |-> selected, frame |-> [direction |-> direction, bytes |-> bytes],
               told |-> m.told]

SelectFrame ==
    /\ bus.selected = NoRegister
    /\ \E r \in Data : Ends(Receive(Machine, <<r>>), "write", <<r>>, r)

\* Data, for the register that was selected.
DataFrame ==
    /\ bus.selected # NoRegister /\ (bus.selected < Mutable \/ WritesReadOnly)
    /\ \E data \in BoundedSeq(DataBytes, MaxFrame) \ {<<>>} :
          Ends(Receive(Machine, data), "write", data, NoRegister)

\* Register number and data at once.
WholeFrame ==
    /\ bus.selected = NoRegister
    /\ \E r \in Data, data \in BoundedSeq(DataBytes, MaxFrame - 1) \ {<<>>} :
          Ends(Receive(Machine, <<r>> \o data), "write", <<r>> \o data, NoRegister)

ReadFrame ==
    \E n \in 1..MaxFrame : Ends(after_transmit(Machine), "read", Sent(n), NoRegister)

\* The main loop updates a read-only register.
Update ==
    /\ \E i \in 0..ReadOnly-1, d \in DataBytes : memory' = [memory EXCEPT !.read_only_buffer[i] = d]
    /\ UNCHANGED <<slave, got_reg_num, bus>>

\* The application calls listen(), again, between two frames.
listen ==
    /\ LET m == wait_for_reg_num(Machine)
       IN  slave' = m.slave /\ got_reg_num' = m.got_reg_num
    /\ bus' = [bus EXCEPT !.selected = NoRegister, !.told = <<>>]
    /\ UNCHANGED memory

Next == SelectFrame \/ DataFrame \/ WholeFrame \/ ReadFrame \/ Update \/ listen

Spec == Init /\ [][Next]_vars

------------------------------------------------------------------------------
File == INSTANCE RegisterFile WITH
    registers <- memory.mutable_buffer, status <- memory.read_only_buffer,
    selected <- bus.selected, frame <- bus.frame, told <- bus.told

PointerType == [array : {"rx_buffer", "mutable_buffer", "read_only_buffer"}, offset : Nat, size : Nat]

\* The arrays keep their sizes and everything else its type.
TypeOK ==
    /\ memory \in [rx_buffer : [0..BufferLength-1 -> Data], mutable_buffer : [0..Mutable-1 -> Data],
                   read_only_buffer : [0..ReadOnly-1 -> Data]]
    /\ slave \in [rx : PointerType, tx : PointerType]
    /\ got_reg_num \in BOOLEAN
    /\ bus.selected \in 0..NoRegister

\* The slave driver is never given more of an array than there is, nor anything but
\* rx_buffer to put a register number in, whichever frames have come before.
BuffersInArrays ==
    /\ \A p \in {slave.rx, slave.tx} : \A i \in p.offset..(p.offset + p.size - 1) :
          i \in DOMAIN memory[p.array]
    /\ bus.selected = NoRegister => slave.rx.array = "rx_buffer"

\* Frame by frame the registers, the bytes read and the callbacks are those of a
\* file of registers: i2c_register_slave.h:18-31 and the comments of after_receive().
KeepsRegisterFile == File!Spec
==============================================================================
