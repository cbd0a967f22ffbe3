----------------------- MODULE I2CRegisterSlaveProofs -----------------------
(***************************************************************************)
(* I2CRegisterSlave never lets the slave driver reach outside an array:    *)
(* for every size of the register file, length of a frame and contents of  *)
(* the frames, also for a master that writes to read-only registers.       *)
(*                                                                         *)
(* Two assumptions on the sizes are needed, and stated with the theorem:   *)
(*   - fewer registers can be written than a byte has values: with all 256 *)
(*     the size of register 0 is 0 as a uint8_t, so that what is written   *)
(*     to it is ignored and the register stays selected;                   *)
(*   - rx_buffer has room for a register number and data: with one byte, a *)
(*     longer frame would be taken for a register number alone.            *)
(*                                                                         *)
(* What the slave does with a frame depends on where its receive buffer    *)
(* points, so the invariant ties the three places it can point to, to      *)
(* got_reg_num and to what the master has selected.                        *)
(***************************************************************************)
EXTENDS I2CRegisterSlave, TLAPS, SequenceTheorems

Sizes == Mutable < Byte /\ BufferLength > 1

Memory == [rx_buffer : [0..BufferLength-1 -> Data], mutable_buffer : [0..Mutable-1 -> Data],
           read_only_buffer : [0..ReadOnly-1 -> Data]]

\* A pointer to a register and the registers after it.
ToMutable(p) == \E r \in 0..Mutable : p = Pointer("mutable_buffer", r, Mutable - r)
ToReadOnly(p) == \E r \in 0..ReadOnly : p = Pointer("read_only_buffer", r, ReadOnly - r)
Nothing(p) == p = Pointer("mutable_buffer", 0, 0) \/ p = Pointer("read_only_buffer", 0, 0)

Tx(p) == ToMutable(p) \/ ToReadOnly(p) \/ Nothing(p)

\* Where the receive buffer points: it waits for a register number, for the data of the
\* register that the master has selected, or it takes nothing.
Waiting(rx, got, selected) ==
    rx = Pointer("rx_buffer", 0, BufferLength) /\ ~got /\ selected = NoRegister
Taking(rx, got, selected) ==
    /\ \E r \in 0..Mutable-1 : rx = Pointer("mutable_buffer", r, Mutable - r)
    /\ got /\ selected # NoRegister
Ignoring(rx) == rx = Pointer("rx_buffer", 0, 0)

Slave(s) == s = [rx |-> s.rx, tx |-> s.tx] /\ Tx(s.tx)

\* The invariant, of the state a handler is given and the register that is selected then.
Holds(mem, s, got, selected) ==
    /\ mem \in Memory /\ Slave(s) /\ got \in BOOLEAN /\ selected \in 0..NoRegister
    /\ Waiting(s.rx, got, selected) \/ Taking(s.rx, got, selected) \/ Ignoring(s.rx)

Inv == Holds(memory, slave, got_reg_num, bus.selected)

IsMachine(m) ==
    m = [memory |-> m.memory, slave |-> m.slave, got_reg_num |-> m.got_reg_num, told |-> m.told]

------------------------------------------------------------------------------
\* memcpy() of what fits leaves an array with its size and its type.
LEMMA StoreFits ==
    ASSUME NEW n \in Nat, NEW array \in [0..n-1 -> Data], NEW offset \in Nat,
           NEW bytes \in Seq(Data), offset + Len(bytes) <= n
    PROVE  Store(array, offset, bytes) \in [0..n-1 -> Data]
<1> DEFINE to == offset..(offset + Len(bytes) - 1)
<1>1. Len(bytes) \in Nat /\ \A k \in 1..Len(bytes) : bytes[k] \in Data
  OBVIOUS
<1>2. DOMAIN array \cup to = 0..n-1
  BY <1>1
<1>3. \A i \in 0..n-1 : (IF i \in to THEN bytes[i - offset + 1] ELSE array[i]) \in Data
  <2> SUFFICES ASSUME NEW i \in 0..n-1, i \in to PROVE bytes[i - offset + 1] \in Data
    OBVIOUS
  <2> QED
    BY <1>1
<1> QED
  BY <1>2, <1>3 DEF Store

LEMMA UptoFits ==
    ASSUME NEW s \in Seq(Data), NEW n \in Nat
    PROVE  Upto(s, n) \in Seq(Data) /\ Len(Upto(s, n)) \in Nat /\ Len(Upto(s, n)) <= n
           /\ Len(Upto(s, n)) = IF Len(s) < n THEN Len(s) ELSE n
<1> DEFINE k == IF Len(s) < n THEN Len(s) ELSE n
<1>1. k \in Nat /\ k <= Len(s) /\ k <= n
  OBVIOUS
<1>2. Upto(s, n) = SubSeq(s, 1, k)
  BY DEF Upto
<1> HIDE DEF k
<1>3. \A i \in 1..k : s[i] \in Data
  BY <1>1
<1>4. SubSeq(s, 1, k) = [i \in 1..k |-> s[i]]
  BY <1>1
<1>5. SubSeq(s, 1, k) \in Seq(Data) /\ Len(SubSeq(s, 1, k)) = k
  BY <1>1, <1>3, <1>4
<1> QED
  BY <1>1, <1>2, <1>5 DEF k

\* wait_for_reg_num()
LEMMA Waits ==
    ASSUME NEW m, IsMachine(m)
    PROVE  LET w == wait_for_reg_num(m)
           IN  /\ IsMachine(w) /\ w.memory = m.memory /\ w.got_reg_num = FALSE
               /\ Slave(w.slave) /\ w.slave.rx = Pointer("rx_buffer", 0, BufferLength)
<1> DEFINE w == wait_for_reg_num(m)
           fresh == [rx |-> Pointer("rx_buffer", 0, BufferLength), tx |-> Pointer("mutable_buffer", 0, 0)]
<1>1. Slave(fresh) /\ fresh.rx = Pointer("rx_buffer", 0, BufferLength)
  BY DEF Slave, Tx, Nothing
<1>2. w = [m EXCEPT !.got_reg_num = FALSE, !.slave = fresh]
  BY DEF wait_for_reg_num
<1> HIDE DEF fresh, w
<1>3. w.slave = fresh /\ w.memory = m.memory /\ w.got_reg_num = FALSE /\ IsMachine(w)
  BY <1>2 DEF IsMachine
<1> QED
  BY <1>1, <1>3 DEF w

\* SetRegister() writes within mutable_buffer and touches nothing else.
LEMMA SetRegisterWithin ==
    ASSUME NEW m, IsMachine(m), m.memory \in Memory, NEW len \in 1..BufferLength, Sizes
    PROVE  LET w == SetRegister(m, len)
           IN  IsMachine(w) /\ w.memory \in Memory
<1> DEFINE reg_num == m.memory.rx_buffer[0]
           buffer_size == (Mutable - reg_num) % Byte
           copy_len == IF len - 1 > buffer_size THEN buffer_size ELSE len - 1
           data == [i \in 1..copy_len |-> m.memory.rx_buffer[i]]
           stored == Store(m.memory.mutable_buffer, reg_num, data)
<1>1. Mutable \in Nat /\ Byte \in Nat \ {0} /\ BufferLength \in Nat \ {0}
  BY RegisterSlaveAssumption
<1>2. m.memory.rx_buffer \in [0..BufferLength-1 -> Data] /\ m.memory.mutable_buffer \in [0..Mutable-1 -> Data]
  BY DEF Memory
<1>3. reg_num \in Data
  BY <1>1, <1>2
<1>4. CASE reg_num >= Mutable
  BY <1>4 DEF SetRegister
<1>5. CASE reg_num < Mutable
  <2>1. buffer_size = Mutable - reg_num /\ buffer_size \in Nat /\ reg_num \in Nat
    BY <1>1, <1>3, <1>5 DEF Sizes, Data
  <2>2. copy_len \in Nat /\ copy_len <= len - 1 /\ copy_len <= Mutable - reg_num
    BY <2>1
  <2> HIDE DEF copy_len
  <2>3. data \in Seq(Data) /\ Len(data) = copy_len
    BY <1>1, <1>2, <2>2
  <2> HIDE DEF data
  <2>4. stored \in [0..Mutable-1 -> Data]
    <3>1. reg_num + Len(data) <= Mutable
      BY <1>1, <2>1, <2>2, <2>3
    <3> HIDE DEF reg_num
    <3> QED
      BY <1>1, <1>2, <2>1, <2>3, <3>1, StoreFits
  <2> HIDE DEF stored
  <2>5. SetRegister(m, len) = [m EXCEPT !.memory.mutable_buffer = stored]
    <3>1. ~(reg_num >= Mutable)
      BY <1>1, <1>5, <2>1
    <3> QED
      BY <3>1 DEF SetRegister, copy_len, data, stored
  <2>6. [m.memory EXCEPT !.mutable_buffer = stored] \in Memory
    BY <2>4 DEF Memory
  <2> QED
    BY <2>5, <2>6 DEF IsMachine
<1> QED
  BY <1>1, <1>3, <1>4, <1>5 DEF Data

\* SelectRegister() points the buffers to a register, or makes the slave ignore data.
LEMMA SelectRegisterPoints ==
    ASSUME NEW m, IsMachine(m), m.memory \in Memory, Sizes
    PROVE  LET w == SelectRegister(m)
           IN  /\ IsMachine(w) /\ w.memory = m.memory /\ w.got_reg_num = m.got_reg_num
               /\ Slave(w.slave)
               /\ \/ \E r \in 0..Mutable-1 : w.slave.rx = Pointer("mutable_buffer", r, Mutable - r)
                  \/ Ignoring(w.slave.rx)
<1> DEFINE reg_num == m.memory.rx_buffer[0]
           offset == (reg_num - Mutable) % Byte
           w == SelectRegister(m)
<1>1. Mutable \in Nat /\ ReadOnly \in Nat /\ Byte \in Nat \ {0} /\ BufferLength \in Nat \ {0}
  BY RegisterSlaveAssumption
<1>2. reg_num \in Data
  BY <1>1 DEF Memory
<1>3. IsMachine(w) /\ w.memory = m.memory /\ w.got_reg_num = m.got_reg_num
  BY DEF SelectRegister, IsMachine
<1>4. CASE reg_num < Mutable
  <2>1. (Mutable - reg_num) % Byte = Mutable - reg_num /\ reg_num \in 0..Mutable-1
    <3>1. reg_num \in Nat /\ Mutable - reg_num \in 0..Byte-1
      BY <1>1, <1>2, <1>4 DEF Sizes, Data
    <3>2. \A k \in 0..Byte-1 : k % Byte = k
      BY <1>1
    <3> QED
      BY <1>1, <1>4, <3>1, <3>2
  <2> DEFINE p == Pointer("mutable_buffer", reg_num, Mutable - reg_num)
  <2>2. w.slave = [rx |-> p, tx |-> p]
    <3>1. w = [m EXCEPT !.slave = [rx |-> p, tx |-> p]]
      BY <1>4, <2>1 DEF SelectRegister
    <3> HIDE DEF w, p
    <3> QED
      BY <3>1 DEF IsMachine
  <2>3. ToMutable(p)
    BY <1>1, <2>1 DEF ToMutable
  <2> HIDE DEF p
  <2>4. Slave(w.slave) /\ w.slave.rx = p
    BY <2>2, <2>3 DEF Slave, Tx
  <2> QED
    BY <1>3, <2>1, <2>4 DEF p
<1>5. CASE reg_num >= Mutable
  <2>1. offset \in Nat
    BY <1>1, <1>2 DEF Data
  <2> DEFINE tx == IF offset < ReadOnly THEN Pointer("read_only_buffer", offset, ReadOnly - offset)
                   ELSE Pointer("read_only_buffer", 0, 0)
  <2>2. w.slave = [rx |-> Pointer("rx_buffer", 0, 0), tx |-> tx]
    BY <1>1, <1>2, <1>5 DEF SelectRegister, IsMachine, Data
  <2>3. Tx(tx)
    BY <1>1, <2>1 DEF Tx, ToReadOnly, Nothing
  <2> HIDE DEF tx
  <2>4. Slave(w.slave) /\ Ignoring(w.slave.rx)
    BY <2>2, <2>3 DEF Slave, Ignoring
  <2> QED
    BY <1>3, <2>4
<1> QED
  BY <1>1, <1>2, <1>4, <1>5 DEF Data

------------------------------------------------------------------------------
\* Written(): the slave waits for a register number, and keeps what was written.
LEMMA WrittenWaits ==
    ASSUME NEW m, IsMachine(m), m.memory \in Memory, NEW n
    PROVE  LET w == Written(m, n)
           IN  IsMachine(w) /\ Holds(w.memory, w.slave, w.got_reg_num, NoRegister)
<1> DEFINE t == [m EXCEPT !.told = <<Callback("after_write", m.memory.rx_buffer[0], n)>>]
           w == wait_for_reg_num(t)
<1>1. IsMachine(t) /\ t.memory = m.memory
  BY DEF IsMachine
<1> HIDE DEF t
<1>2. /\ IsMachine(w) /\ w.memory = t.memory /\ w.got_reg_num = FALSE
      /\ Slave(w.slave) /\ w.slave.rx = Pointer("rx_buffer", 0, BufferLength)
  BY <1>1, Waits
<1>3. NoRegister \in 0..NoRegister
  BY RegisterSlaveAssumption DEF NoRegister
<1> HIDE DEF w
<1>4. Holds(w.memory, w.slave, w.got_reg_num, NoRegister)
  BY <1>1, <1>2, <1>3 DEF Holds, Waiting
<1>5. Written(m, n) = w
  BY DEF Written, w, t
<1> QED
  BY <1>2, <1>4, <1>5

\* Setting got_reg_num changes nothing else.
LEMMA Numbered ==
    ASSUME NEW m, IsMachine(m), NEW got
    PROVE  LET g == [m EXCEPT !.got_reg_num = got]
           IN  IsMachine(g) /\ g.memory = m.memory /\ g.got_reg_num = got
BY DEF IsMachine

\* What the driver hands over when the slave waits for a register number.
LEMMA ReceiveWaiting ==
    ASSUME NEW m, IsMachine(m), m.memory \in Memory, m.got_reg_num = FALSE, Sizes,
           m.slave.rx = Pointer("rx_buffer", 0, BufferLength),
           NEW bytes \in Seq(Data), Len(bytes) > 0,
           NEW next \in 0..NoRegister, (next = NoRegister) <=> (Len(bytes) > 1)
    PROVE  LET w == Receive(m, bytes)
           IN  IsMachine(w) /\ Holds(w.memory, w.slave, w.got_reg_num, next)
<1> DEFINE taken == Upto(bytes, BufferLength)
           stored == Store(m.memory.rx_buffer, 0, taken)
           s == [m EXCEPT !.memory["rx_buffer"] = stored]
           len == Len(taken)
<1>1. BufferLength \in Nat \ {0} /\ BufferLength > 1
  BY RegisterSlaveAssumption DEF Sizes
<1>2. /\ taken \in Seq(Data) /\ len \in Nat /\ len <= BufferLength
      /\ len = IF Len(bytes) < BufferLength THEN Len(bytes) ELSE BufferLength
  BY <1>1, UptoFits
<1>3. len \in 1..BufferLength /\ (len > 1 <=> Len(bytes) > 1)
  BY <1>1, <1>2
<1>4. Receive(m, bytes) = after_receive(s, len)
  BY <1>1 DEF Receive, Pointer
<1>5. stored \in [0..BufferLength-1 -> Data]
  <2>1. m.memory.rx_buffer \in [0..BufferLength-1 -> Data]
    BY DEF Memory
  <2>2. 0 + Len(taken) <= BufferLength
    BY <1>2
  <2> HIDE DEF taken
  <2> QED
    BY <1>1, <1>2, <2>1, <2>2, StoreFits
<1> HIDE DEF taken, stored
<1>6. IsMachine(s) /\ s.memory \in Memory /\ s.got_reg_num = FALSE
  BY <1>5 DEF IsMachine, Memory
<1> HIDE DEF s, len
<1>7. CASE len > 1
  <2> DEFINE f == SetRegister(s, len)
  <2>1. IsMachine(f) /\ f.memory \in Memory
    BY <1>3, <1>6, SetRegisterWithin
  <2>2. Receive(m, bytes) = Written(f, (len - 1) % Byte)
    BY <1>4, <1>6, <1>7 DEF after_receive
  <2> HIDE DEF f
  <2> QED
    BY <1>3, <1>7, <2>1, <2>2, WrittenWaits
<1>8. CASE ~(len > 1)
  <2> DEFINE g == [s EXCEPT !.got_reg_num = TRUE]
             w == SelectRegister(g)
  <2>1. IsMachine(g) /\ g.memory \in Memory /\ g.got_reg_num = TRUE
    BY <1>6, Numbered
  <2>2. Receive(m, bytes) = w
    BY <1>4, <1>6, <1>8 DEF after_receive
  <2> HIDE DEF g
  <2>3. /\ IsMachine(w) /\ w.memory = g.memory /\ w.got_reg_num = g.got_reg_num
        /\ Slave(w.slave)
        /\ \/ \E r \in 0..Mutable-1 : w.slave.rx = Pointer("mutable_buffer", r, Mutable - r)
           \/ Ignoring(w.slave.rx)
    BY <2>1, SelectRegisterPoints
  <2> HIDE DEF w
  <2>4. next # NoRegister
    BY <1>3, <1>8
  <2> QED
    BY <2>1, <2>2, <2>3, <2>4 DEF Holds, Taking
<1> QED
  BY <1>7, <1>8

\* And when it waits for the data of the register that was selected.
LEMMA ReceiveTaking ==
    ASSUME NEW m, IsMachine(m), m.memory \in Memory, m.got_reg_num = TRUE,
           NEW r \in 0..Mutable-1, m.slave.rx = Pointer("mutable_buffer", r, Mutable - r),
           NEW bytes \in Seq(Data)
    PROVE  LET w == Receive(m, bytes)
           IN  IsMachine(w) /\ Holds(w.memory, w.slave, w.got_reg_num, NoRegister)
<1> DEFINE taken == Upto(bytes, Mutable - r)
           stored == Store(m.memory.mutable_buffer, r, taken)
           s == [m EXCEPT !.memory["mutable_buffer"] = stored]
<1>1. Mutable \in Nat /\ r \in Nat /\ Mutable - r \in Nat \ {0}
  BY RegisterSlaveAssumption
<1>2. taken \in Seq(Data) /\ r + Len(taken) <= Mutable
  <2>1. taken \in Seq(Data) /\ Len(taken) \in Nat /\ Len(taken) <= Mutable - r
    BY <1>1, UptoFits
  <2> HIDE DEF taken
  <2> QED
    BY <1>1, <2>1
<1>3. Receive(m, bytes) = Written(s, Len(taken) % Byte)
  <2>1. Receive(m, bytes) = after_receive(s, Len(taken))
    BY <1>1 DEF Receive, Pointer
  <2> HIDE DEF taken, stored
  <2>2. s.got_reg_num = TRUE
    BY DEF IsMachine
  <2> HIDE DEF s
  <2> QED
    BY <2>1, <2>2 DEF after_receive
<1>4. stored \in [0..Mutable-1 -> Data]
  <2>1. m.memory.mutable_buffer \in [0..Mutable-1 -> Data]
    BY DEF Memory
  <2> HIDE DEF taken
  <2> QED
    BY <1>1, <1>2, <2>1, StoreFits
<1> HIDE DEF taken, stored
<1>5. IsMachine(s) /\ s.memory \in Memory
  <2> DEFINE mem == [m.memory EXCEPT !.mutable_buffer = stored]
  <2>1. mem \in Memory
    BY <1>4 DEF Memory
  <2>2. s = [memory |-> mem, slave |-> m.slave, got_reg_num |-> m.got_reg_num, told |-> m.told]
    BY DEF IsMachine
  <2> HIDE DEF mem, s
  <2> QED
    BY <2>1, <2>2 DEF IsMachine
<1> HIDE DEF s
<1> QED
  BY <1>3, <1>5, WrittenWaits

\* A frame that the master writes keeps the invariant: of one byte to select a register,
\* or longer when none is selected, or of any length when one is.
LEMMA ReceiveHolds ==
    ASSUME Inv, Sizes, NEW bytes \in Seq(Data), Len(bytes) > 0, NEW next \in 0..NoRegister,
           \/ bus.selected = NoRegister /\ (next = NoRegister <=> Len(bytes) > 1)
           \/ bus.selected # NoRegister /\ next = NoRegister
    PROVE  LET w == Receive(Machine, bytes)
           IN  Holds(w.memory, w.slave, w.got_reg_num, next)
<1> DEFINE m == Machine
<1>1. /\ IsMachine(m) /\ m.memory = memory /\ m.slave = slave /\ m.got_reg_num = got_reg_num
  BY DEF IsMachine, Machine
<1>2. Holds(m.memory, m.slave, m.got_reg_num, bus.selected)
  BY <1>1 DEF Inv
<1> HIDE DEF m
<1>3. CASE Waiting(m.slave.rx, m.got_reg_num, bus.selected)
  <2>1. /\ m.slave.rx = Pointer("rx_buffer", 0, BufferLength) /\ m.got_reg_num = FALSE
        /\ m.memory \in Memory /\ bus.selected = NoRegister
    BY <1>2, <1>3 DEF Holds, Waiting
  <2> QED
    BY <1>1, <2>1, ReceiveWaiting DEF m
<1>4. CASE Taking(m.slave.rx, m.got_reg_num, bus.selected)
  <2>1. /\ m.got_reg_num = TRUE /\ m.memory \in Memory /\ next = NoRegister
        /\ \E r \in 0..Mutable-1 : m.slave.rx = Pointer("mutable_buffer", r, Mutable - r)
    BY <1>2, <1>4 DEF Holds, Taking
  <2> QED
    BY <1>1, <2>1, ReceiveTaking DEF m
<1>5. CASE Ignoring(m.slave.rx)
  <2>1. Receive(m, bytes) = m
    BY <1>5 DEF Receive, Ignoring, Pointer
  <2>2. Holds(m.memory, m.slave, m.got_reg_num, next)
    BY <1>2, <1>5 DEF Holds
  <2> QED
    BY <2>1, <2>2 DEF m
<1> QED
  BY <1>2, <1>3, <1>4, <1>5 DEF Holds

\* A register's slave that waits again: after a read, and when listen() is called.
LEMMA WaitHolds ==
    ASSUME Inv
    PROVE  LET w == wait_for_reg_num(Machine)
           IN  Holds(w.memory, w.slave, w.got_reg_num, NoRegister)
<1>1. IsMachine(Machine) /\ Machine.memory = memory /\ memory \in Memory
  BY DEF IsMachine, Machine, Inv, Holds
<1>2. NoRegister \in 0..NoRegister
  BY RegisterSlaveAssumption DEF NoRegister
<1> QED
  BY <1>1, <1>2, Waits DEF Holds, Waiting

------------------------------------------------------------------------------
LEMMA Initially == Init => Inv
<1> SUFFICES ASSUME Init PROVE Inv
  OBVIOUS
<1>1. memory \in Memory
  <2> USE RegisterSlaveAssumption
  <2>1. [i \in 0..BufferLength-1 |-> 0] \in [0..BufferLength-1 -> Data]
    BY DEF Data
  <2>2. /\ [0..Mutable-1 -> DataBytes] \subseteq [0..Mutable-1 -> Data]
        /\ [0..ReadOnly-1 -> DataBytes] \subseteq [0..ReadOnly-1 -> Data]
    BY DEF Data
  <2> QED
    BY <2>1, <2>2 DEF Init, Memory
<1>2. Slave(slave) /\ Waiting(slave.rx, got_reg_num, bus.selected)
  <2>1. /\ slave = [rx |-> Pointer("rx_buffer", 0, BufferLength), tx |-> Pointer("mutable_buffer", 0, 0)]
        /\ got_reg_num = FALSE
        /\ bus.selected = NoRegister
    BY DEF Init
  <2> QED
    BY <2>1 DEF Slave, Tx, Nothing, Waiting
<1>3. bus.selected \in 0..NoRegister /\ got_reg_num \in BOOLEAN
  <2>1. Byte \in 0..Byte
    BY RegisterSlaveAssumption
  <2> QED
    BY <2>1 DEF Init, NoRegister
<1> QED
  BY <1>1, <1>2, <1>3 DEF Inv, Holds

\* The step of a frame: what the slave is left with.
LEMMA EndsHolds ==
    ASSUME NEW m, NEW direction, NEW bytes, NEW next, Ends(m, direction, bytes, next),
           Holds(m.memory, m.slave, m.got_reg_num, next)
    PROVE  Inv'
BY DEF Ends, Inv, Holds

\* A frame's data: bytes, and at least one.
LEMMA BoundedData ==
    ASSUME NEW n, NEW data \in BoundedSeq(DataBytes, n) \ {<<>>}
    PROVE  data \in Seq(Data) /\ Len(data) > 0
<1>1. PICK k \in 0..n : data \in [1..k -> DataBytes]
  BY DEF BoundedSeq, SeqOf
<1>2. k \in Nat /\ DataBytes \subseteq Data
  BY RegisterSlaveAssumption DEF Data
<1>3. data \in Seq(Data) /\ Len(data) = k
  BY <1>1, <1>2
<1>4. data # <<>>
  OBVIOUS
<1> QED
  BY <1>2, <1>3, <1>4

LEMMA Step == Sizes /\ Inv /\ [Next]_vars => Inv'
<1> SUFFICES ASSUME Sizes, Inv, [Next]_vars PROVE Inv'
  OBVIOUS
<1> USE RegisterSlaveAssumption
<1>1. CASE SelectFrame
  <2>1. PICK r \in Data : Ends(Receive(Machine, <<r>>), "write", <<r>>, r)
    BY <1>1 DEF SelectFrame
  <2>2. r \in 0..NoRegister /\ r # NoRegister /\ <<r>> \in Seq(Data) /\ Len(<<r>>) = 1
    BY DEF Data, NoRegister
  <2>3. bus.selected = NoRegister
    BY <1>1 DEF SelectFrame
  <2> DEFINE bytes == <<r>>
             w == Receive(Machine, bytes)
  <2>4. bytes \in Seq(Data) /\ Len(bytes) = 1 /\ Ends(w, "write", bytes, r)
    <3>1. bytes \in Seq(Data) /\ Len(bytes) = 1
      BY <2>2
    <3>2. Ends(w, "write", bytes, r)
      BY <2>1
    <3> QED
      BY <3>1, <3>2
  <2> HIDE DEF bytes
  <2>5. Holds(w.memory, w.slave, w.got_reg_num, r)
    <3>1. Len(bytes) > 0 /\ ~(Len(bytes) > 1) /\ r \in 0..NoRegister /\ r # NoRegister
      BY <2>2, <2>4
    <3> QED
      BY <2>3, <2>4, <3>1, ReceiveHolds
  <2> HIDE DEF w
  <2> QED
    BY <2>4, <2>5, EndsHolds
<1>2. CASE DataFrame
  <2>1. PICK data \in BoundedSeq(DataBytes, MaxFrame) \ {<<>>} :
          Ends(Receive(Machine, data), "write", data, NoRegister)
    BY <1>2 DEF DataFrame
  <2>2. data \in Seq(Data) /\ Len(data) > 0
    BY BoundedData
  <2>3. NoRegister \in 0..NoRegister /\ bus.selected # NoRegister
    BY <1>2 DEF DataFrame, NoRegister
  <2> DEFINE w == Receive(Machine, data)
  <2>4. Holds(w.memory, w.slave, w.got_reg_num, NoRegister)
    BY <2>2, <2>3, ReceiveHolds
  <2> HIDE DEF w
  <2> QED
    BY <2>1, <2>4, EndsHolds DEF w
<1>3. CASE WholeFrame
  <2>1. PICK r \in Data, data \in BoundedSeq(DataBytes, MaxFrame - 1) \ {<<>>} :
          Ends(Receive(Machine, <<r>> \o data), "write", <<r>> \o data, NoRegister)
    BY <1>3 DEF WholeFrame
  <2>2. data \in Seq(Data) /\ Len(data) > 0
    BY BoundedData
  <2>3. <<r>> \o data \in Seq(Data) /\ Len(<<r>> \o data) > 1
    BY <2>2
  <2>4. NoRegister \in 0..NoRegister /\ bus.selected = NoRegister
    BY <1>3 DEF WholeFrame, NoRegister
  <2> DEFINE bytes == <<r>> \o data
             w == Receive(Machine, bytes)
  <2>5. bytes \in Seq(Data) /\ Len(bytes) > 1 /\ Ends(w, "write", bytes, NoRegister)
    BY <2>1, <2>3
  <2> HIDE DEF bytes
  <2>6. Holds(w.memory, w.slave, w.got_reg_num, NoRegister)
    BY <2>4, <2>5, ReceiveHolds
  <2> HIDE DEF w
  <2> QED
    BY <2>5, <2>6, EndsHolds
<1>4. CASE ReadFrame
  <2>1. PICK n \in 1..MaxFrame : Ends(after_transmit(Machine), "read", Sent(n), NoRegister)
    BY <1>4 DEF ReadFrame
  <2> DEFINE w == wait_for_reg_num(Machine)
             m == after_transmit(Machine)
  <2>2. m.memory = w.memory /\ m.slave = w.slave /\ m.got_reg_num = w.got_reg_num
    <3>1. IsMachine(w)
      BY Waits DEF IsMachine, Machine
    <3> HIDE DEF w
    <3>2. m = [w EXCEPT !.told = <<Callback("after_read", Machine.memory.rx_buffer[0], 0)>>]
      BY DEF after_transmit, w
    <3> HIDE DEF m
    <3> QED
      BY <3>1, <3>2 DEF IsMachine
  <2>3. Holds(w.memory, w.slave, w.got_reg_num, NoRegister)
    BY WaitHolds
  <2> HIDE DEF w, m
  <2>4. Holds(m.memory, m.slave, m.got_reg_num, NoRegister)
    BY <2>2, <2>3
  <2> QED
    BY <2>1, <2>4, EndsHolds DEF m
<1>5. CASE Update
  <2>1. PICK i \in 0..ReadOnly-1, d \in DataBytes :
          memory' = [memory EXCEPT !.read_only_buffer[i] = d]
    BY <1>5 DEF Update
  <2>2. memory' \in Memory
    BY <2>1 DEF Inv, Holds, Memory, Data
  <2> QED
    BY <1>5, <2>2 DEF Update, Inv, Holds
<1>6. CASE listen
  <2> DEFINE w == wait_for_reg_num(Machine)
  <2>1. Holds(w.memory, w.slave, w.got_reg_num, NoRegister) /\ w.memory = memory
    BY WaitHolds, Waits DEF IsMachine, Machine
  <2>2. slave' = w.slave /\ got_reg_num' = w.got_reg_num /\ memory' = memory
    BY <1>6 DEF listen
  <2>3. bus'.selected = NoRegister
    BY <1>6 DEF listen, Inv, Holds
  <2> HIDE DEF w
  <2> QED
    BY <2>1, <2>2, <2>3 DEF Inv, Holds
<1>7. CASE UNCHANGED vars
  BY <1>7 DEF vars, Inv, Holds
<1> QED
  BY <1>1, <1>2, <1>3, <1>4, <1>5, <1>6, <1>7 DEF Next

\* What the invariant says of the pointers.
LEMMA Implies == Inv => TypeOK /\ BuffersInArrays
<1> SUFFICES ASSUME Inv PROVE TypeOK /\ BuffersInArrays
  OBVIOUS
<1> USE RegisterSlaveAssumption
<1> DEFINE Size(array) == CASE array = "rx_buffer" -> BufferLength
                            [] array = "mutable_buffer" -> Mutable
                            [] array = "read_only_buffer" -> ReadOnly
           Within(p) == p \in PointerType /\ p.offset + p.size <= Size(p.array)
<1>1. memory \in Memory
  BY DEF Inv, Holds
<1>2. \A p : Within(p) =>
        /\ p \in PointerType
        /\ \A i \in p.offset..(p.offset + p.size - 1) : i \in DOMAIN memory[p.array]
  <2> SUFFICES ASSUME NEW p \in PointerType, p.offset + p.size <= Size(p.array),
                      NEW i \in p.offset..(p.offset + p.size - 1)
               PROVE  i \in DOMAIN memory[p.array]
    OBVIOUS
  <2>1. p.array \in {"rx_buffer", "mutable_buffer", "read_only_buffer"} /\ p.offset \in Nat /\ p.size \in Nat
    BY DEF PointerType
  <2>2. Size(p.array) \in Nat /\ i \in 0..Size(p.array)-1
    BY <2>1
  <2>3. DOMAIN memory[p.array] = 0..Size(p.array)-1
    BY <1>1, <2>1 DEF Memory
  <2> QED
    BY <2>2, <2>3
<1>3. Within(slave.tx)
  <2>1. Tx(slave.tx)
    BY DEF Inv, Holds, Slave
  <2>2. CASE ToMutable(slave.tx)
    BY <2>2 DEF ToMutable, Pointer, PointerType
  <2>3. CASE ToReadOnly(slave.tx)
    BY <2>3 DEF ToReadOnly, Pointer, PointerType
  <2>4. CASE Nothing(slave.tx)
    BY <2>4 DEF Nothing, Pointer, PointerType
  <2> QED
    BY <2>1, <2>2, <2>3, <2>4 DEF Tx
<1>5. Within(slave.rx) /\ (bus.selected = NoRegister => slave.rx.array = "rx_buffer")
  <2>1. CASE Waiting(slave.rx, got_reg_num, bus.selected)
    BY <2>1 DEF Waiting, Pointer, PointerType
  <2>2. CASE Taking(slave.rx, got_reg_num, bus.selected)
    BY <2>2 DEF Taking, Pointer, PointerType
  <2>3. CASE Ignoring(slave.rx)
    BY <2>3 DEF Ignoring, Pointer, PointerType
  <2> QED
    BY <2>1, <2>2, <2>3 DEF Inv, Holds
<1>4. slave = [rx |-> slave.rx, tx |-> slave.tx] /\ got_reg_num \in BOOLEAN /\ bus.selected \in 0..NoRegister
  BY DEF Inv, Holds, Slave
<1> QED
  <2> HIDE DEF Within
  <2>1. BuffersInArrays
    BY <1>2, <1>3, <1>5 DEF BuffersInArrays
  <2>2. slave \in [rx : PointerType, tx : PointerType]
    BY <1>2, <1>3, <1>4, <1>5
  <2> QED
    BY <1>1, <1>4, <2>1, <2>2 DEF TypeOK, Memory

\* The arrays keep their sizes whatever the master writes (i2c_register_slave.cpp).
THEOREM TypeCorrect == ASSUME Sizes PROVE Spec => []TypeOK
<1>1. Inv /\ [Next]_vars => Inv'
  BY Step
<1>2. Inv => TypeOK
  BY Implies
<1> QED
  BY <1>1, <1>2, Initially, PTL DEF Spec

\* The driver is never given more of an array than there is, and takes a register number
\* into rx_buffer only (i2c_register_slave.cpp).
THEOREM BuffersStayInArrays == ASSUME Sizes PROVE Spec => []BuffersInArrays
<1>1. Inv /\ [Next]_vars => Inv'
  BY Step
<1>2. Inv => BuffersInArrays
  BY Implies
<1> QED
  BY <1>1, <1>2, Initially, PTL DEF Spec

------------------------------------------------------------------------------
(***************************************************************************)
(* I2CRegisterSlave implements RegisterFile: for every number and contents *)
(* of the registers and every frame, as long as the master does not write  *)
(* to a read-only register that it selected in the frame before.           *)
(*                                                                         *)
(* Why it holds is that between two frames the slave's whole state is a    *)
(* function of the register the master has selected: its flag, both its    *)
(* buffers, and the number it keeps in the first byte of rx_buffer.        *)
(***************************************************************************)
\* The slave's buffers when no register is selected, and when register r is.
Fresh == [rx |-> Pointer("rx_buffer", 0, BufferLength), tx |-> Pointer("mutable_buffer", 0, 0)]

Buffers(r) ==
    IF r < Mutable
    THEN [rx |-> Pointer("mutable_buffer", r, Mutable - r), tx |-> Pointer("mutable_buffer", r, Mutable - r)]
    ELSE [rx |-> Pointer("rx_buffer", 0, 0),
          tx |-> IF r - Mutable < ReadOnly
                 THEN Pointer("read_only_buffer", r - Mutable, ReadOnly - (r - Mutable))
                 ELSE Pointer("read_only_buffer", 0, 0)]

Serves(mem, s, got, selected) ==
    /\ selected = NoRegister => s = Fresh /\ got = FALSE
    /\ selected # NoRegister => s = Buffers(selected) /\ got = TRUE /\ mem.rx_buffer[0] = selected

Bus(b) == b = [selected |-> b.selected, frame |-> b.frame, told |-> b.told]

SimInv == Inv /\ Bus(bus) /\ Serves(memory, slave, got_reg_num, bus.selected)

------------------------------------------------------------------------------
\* What memcpy() of data to position r leaves in an array that it fits in.
PutInto(array, r, data) ==
    [i \in DOMAIN array |-> IF i \in r..(r + Len(data) - 1) THEN data[i - r + 1] ELSE array[i]]

LEMMA StoreIsPut ==
    ASSUME NEW n \in Nat, NEW array \in [0..n-1 -> Data], NEW r \in Nat,
           NEW bytes \in Seq(Data), r + Len(bytes) <= n
    PROVE  Store(array, r, bytes) = PutInto(array, r, bytes)
<1>1. Len(bytes) \in Nat
  OBVIOUS
<1>2. DOMAIN array \cup r..(r + Len(bytes) - 1) = DOMAIN array
  BY <1>1
<1> QED
  BY <1>2 DEF Store, PutInto

\* The first n of a sequence.
LEMMA UptoIs ==
    ASSUME NEW s \in Seq(Data), NEW n \in Nat
    PROVE  /\ Upto(s, n) \in Seq(Data)
           /\ Len(Upto(s, n)) = IF Len(s) < n THEN Len(s) ELSE n
           /\ \A i \in 1..Len(Upto(s, n)) : Upto(s, n)[i] = s[i]
<1> DEFINE k == IF Len(s) < n THEN Len(s) ELSE n
<1>1. k \in Nat /\ k <= Len(s)
  OBVIOUS
<1>2. Upto(s, n) = SubSeq(s, 1, k)
  BY DEF Upto
<1>3. Upto(s, n) \in Seq(Data) /\ Len(Upto(s, n)) = k
  BY UptoFits
<1> HIDE DEF k
<1>4. SubSeq(s, 1, k) = [i \in 1..k |-> s[i]]
  BY <1>1
<1> QED
  BY <1>1, <1>2, <1>3, <1>4 DEF k

\* wait_for_reg_num() forgets what was selected.
LEMMA WaitsFresh ==
    ASSUME NEW m, IsMachine(m)
    PROVE  LET w == wait_for_reg_num(m)
           IN  /\ w.memory = m.memory /\ w.slave = Fresh /\ w.got_reg_num = FALSE /\ w.told = m.told
               /\ IsMachine(w)
<1> DEFINE w == wait_for_reg_num(m)
<1>1. w = [m EXCEPT !.got_reg_num = FALSE, !.slave = Fresh]
  BY DEF wait_for_reg_num, Fresh
<1> HIDE DEF w
<1>2. w.slave = Fresh /\ w.memory = m.memory /\ w.got_reg_num = FALSE /\ w.told = m.told /\ IsMachine(w)
  BY <1>1 DEF IsMachine
<1> QED
  BY <1>2 DEF w

LEMMA WrittenTells ==
    ASSUME NEW m, IsMachine(m), NEW n
    PROVE  LET w == Written(m, n)
           IN  /\ w.memory = m.memory /\ w.slave = Fresh /\ w.got_reg_num = FALSE
               /\ w.told = <<Callback("after_write", m.memory.rx_buffer[0], n)>>
<1> DEFINE calls == <<Callback("after_write", m.memory.rx_buffer[0], n)>>
           t == [m EXCEPT !.told = calls]
<1>1. Written(m, n) = wait_for_reg_num(t)
  BY DEF Written
<1> HIDE DEF calls
<1>2. IsMachine(t) /\ t.memory = m.memory /\ t.told = calls
  BY DEF IsMachine
<1> HIDE DEF t
<1> QED
  BY <1>1, <1>2, WaitsFresh DEF calls

\* SelectRegister() gives the slave the buffers of the register in rx_buffer.
LEMMA SelectRegisterServes ==
    ASSUME NEW m, IsMachine(m), m.memory \in Memory, Sizes
    PROVE  LET w == SelectRegister(m)
           IN  /\ w.memory = m.memory /\ w.got_reg_num = m.got_reg_num /\ w.told = m.told
               /\ w.slave = Buffers(m.memory.rx_buffer[0])
<1> DEFINE r == m.memory.rx_buffer[0]
           w == SelectRegister(m)
<1>1. Mutable \in Nat /\ ReadOnly \in Nat /\ Byte \in Nat \ {0} /\ Mutable < Byte /\ BufferLength \in Nat \ {0}
  BY RegisterSlaveAssumption DEF Sizes
<1>2. r \in Nat /\ r < Byte
  BY <1>1 DEF Memory, Data
<1>3. r < Mutable => (Mutable - r) % Byte = Mutable - r
  BY <1>1, <1>2
<1>4. r >= Mutable => (r - Mutable) % Byte = r - Mutable
  BY <1>1, <1>2
<1>5. w = [m EXCEPT !.slave = Buffers(r)]
  <2>1. CASE r < Mutable
    BY <1>3, <2>1 DEF SelectRegister, Buffers
  <2>2. CASE ~(r < Mutable)
    BY <1>1, <1>2, <1>4, <2>2 DEF SelectRegister, Buffers
  <2> QED
    BY <2>1, <2>2
<1> HIDE DEF w, r
<1>6. w.memory = m.memory /\ w.got_reg_num = m.got_reg_num /\ w.told = m.told /\ w.slave = Buffers(r)
  BY <1>5 DEF IsMachine
<1> QED
  BY <1>6 DEF w, r

------------------------------------------------------------------------------
(* What each kind of frame makes of the slave.                              *)

LEMMA MachineIs ==
    /\ IsMachine(Machine) /\ Machine.memory = memory /\ Machine.slave = slave
    /\ Machine.got_reg_num = got_reg_num /\ Machine.told = <<>>
BY DEF IsMachine, Machine

\* The bytes of a frame that come while no register is selected land in rx_buffer.
Landed(s, bytes) ==
    /\ IsMachine(s) /\ s.memory \in Memory /\ s.got_reg_num = FALSE /\ s.told = <<>>
    /\ s.memory.mutable_buffer = memory.mutable_buffer
    /\ s.memory.read_only_buffer = memory.read_only_buffer
    /\ \A i \in 0..Len(bytes)-1 : s.memory.rx_buffer[i] = bytes[i + 1]

LEMMA FrameLands ==
    ASSUME SimInv, bus.selected = NoRegister, NEW bytes \in Seq(Data), Len(bytes) > 0
    PROVE  \E s : /\ Landed(s, Upto(bytes, BufferLength))
                  /\ Receive(Machine, bytes) = after_receive(s, Len(Upto(bytes, BufferLength)))
<1> DEFINE m == Machine
           taken == Upto(bytes, BufferLength)
           stored == Store(m.memory.rx_buffer, 0, taken)
           s == [m EXCEPT !.memory["rx_buffer"] = stored]
<1>1. BufferLength \in Nat \ {0}
  BY RegisterSlaveAssumption
<1>2. /\ IsMachine(m) /\ m.memory = memory /\ memory \in Memory /\ m.slave = Fresh
      /\ m.got_reg_num = FALSE /\ m.told = <<>>
  BY MachineIs DEF SimInv, Inv, Holds, Serves
<1>3. taken \in Seq(Data) /\ Len(taken) \in Nat /\ Len(taken) <= BufferLength
  BY <1>1, UptoFits
<1>4. Receive(m, bytes) = after_receive(s, Len(taken))
  BY <1>1, <1>2 DEF Receive, Fresh, Pointer
<1>5. m.memory.rx_buffer \in [0..BufferLength-1 -> Data]
  BY <1>2 DEF Memory
<1> HIDE DEF m, taken
<1>6. stored \in [0..BufferLength-1 -> Data] /\ stored = PutInto(m.memory.rx_buffer, 0, taken)
  <2>1. 0 + Len(taken) <= BufferLength
    BY <1>3
  <2> HIDE DEF m
  <2>2. stored \in [0..BufferLength-1 -> Data]
    BY <1>1, <1>3, <1>5, <2>1, StoreFits
  <2>3. stored = PutInto(m.memory.rx_buffer, 0, taken)
    BY <1>1, <1>3, <1>5, <2>1, StoreIsPut
  <2> QED
    BY <2>2, <2>3
<1>7. \A i \in 0..Len(taken)-1 : stored[i] = taken[i + 1]
  BY <1>1, <1>3, <1>5, <1>6 DEF PutInto
<1> HIDE DEF stored
<1>8. Landed(s, taken)
  <2> DEFINE mem == [memory EXCEPT !.rx_buffer = stored]
  <2>1. /\ mem \in Memory /\ mem.rx_buffer = stored /\ mem.mutable_buffer = memory.mutable_buffer
        /\ mem.read_only_buffer = memory.read_only_buffer
    BY <1>2, <1>6 DEF Memory
  <2>2. s = [m EXCEPT !.memory = mem]
    BY <1>2 DEF IsMachine
  <2> HIDE DEF mem, s
  <2>3. IsMachine(s) /\ s.memory = mem /\ s.got_reg_num = FALSE /\ s.told = <<>>
    BY <1>2, <2>2 DEF IsMachine
  <2> QED
    BY <1>7, <2>1, <2>3 DEF Landed
<1> QED
  BY <1>4, <1>8 DEF m, taken

\* A register number alone.
LEMMA ReceiveSelect ==
    ASSUME SimInv, Sizes, bus.selected = NoRegister, NEW r \in Data
    PROVE  LET w == Receive(Machine, <<r>>)
           IN  /\ w.memory.mutable_buffer = memory.mutable_buffer
               /\ w.memory.read_only_buffer = memory.read_only_buffer
               /\ w.memory.rx_buffer[0] = r /\ w.slave = Buffers(r) /\ w.got_reg_num = TRUE
               /\ w.told = <<>>
<1> DEFINE bytes == <<r>>
<1>1. bytes \in Seq(Data) /\ Len(bytes) = 1 /\ bytes[1] = r
  OBVIOUS
<1> HIDE DEF bytes
<1>2. BufferLength \in Nat \ {0}
  BY RegisterSlaveAssumption
<1>3. Len(Upto(bytes, BufferLength)) = 1 /\ Upto(bytes, BufferLength)[1] = r
  BY <1>1, <1>2, UptoIs
<1>4. PICK s : Landed(s, Upto(bytes, BufferLength)) /\ Receive(Machine, bytes) = after_receive(s, 1)
  <2>1. Len(bytes) > 0
    BY <1>1
  <2> QED
    BY <1>1, <1>3, <2>1, FrameLands
<1>5. s.memory.rx_buffer[0] = r
  BY <1>3, <1>4 DEF Landed
<1> DEFINE g == [s EXCEPT !.got_reg_num = TRUE]
<1>6. Receive(Machine, bytes) = SelectRegister(g)
  BY <1>4 DEF after_receive, Landed
<1>7. IsMachine(g) /\ g.memory = s.memory /\ g.got_reg_num = TRUE /\ g.told = <<>>
  <2>1. IsMachine(s) /\ s.told = <<>>
    BY <1>4 DEF Landed
  <2>2. g.told = s.told
    BY <2>1 DEF IsMachine
  <2> HIDE DEF g
  <2> QED
    BY <2>1, <2>2, Numbered DEF g
<1> HIDE DEF g
<1>8. LET w == SelectRegister(g)
      IN  /\ w.memory = s.memory /\ w.got_reg_num = TRUE /\ w.told = <<>>
          /\ w.slave = Buffers(r)
  BY <1>4, <1>5, <1>7, SelectRegisterServes DEF Landed
<1> QED
  BY <1>4, <1>5, <1>6, <1>8 DEF Landed, bytes

\* A register number and data: what SetRegister() puts where.
LEMMA SetRegisterPuts ==
    ASSUME Sizes, NEW taken \in Seq(Data), Len(taken) > 1, Len(taken) <= BufferLength,
           NEW s, Landed(s, taken)
    PROVE  LET w == SetRegister(s, Len(taken))
           IN  /\ IsMachine(w) /\ w.told = <<>> /\ w.memory.rx_buffer[0] = taken[1]
               /\ w.memory.mutable_buffer = PutInto(memory.mutable_buffer, taken[1], Tail(taken))
               /\ w.memory.read_only_buffer = memory.read_only_buffer
<1> DEFINE r == taken[1]
           len == Len(taken)
           copy_len == IF len - 1 > Mutable - r THEN Mutable - r ELSE len - 1
           data == [i \in 1..copy_len |-> s.memory.rx_buffer[i]]
           array == memory.mutable_buffer
           w == SetRegister(s, len)
<1>1. /\ Mutable \in Nat /\ Byte \in Nat \ {0} /\ Mutable < Byte /\ BufferLength \in Nat \ {0}
      /\ len \in Nat /\ len > 1 /\ r \in Data
  BY RegisterSlaveAssumption DEF Sizes
<1>2. s.memory.rx_buffer[0] = r
  <2>1. 0 \in 0..len-1 /\ 0 + 1 = 1
    BY <1>1
  <2> QED
    BY <2>1 DEF Landed
<1>3. /\ IsMachine(s) /\ s.told = <<>> /\ s.memory.mutable_buffer = array
      /\ s.memory.read_only_buffer = memory.read_only_buffer /\ s.memory \in Memory
  BY DEF Landed
<1>4. array \in [0..Mutable-1 -> Data]
  BY <1>3 DEF Memory
<1>5. Len(Tail(taken)) = len - 1 /\ \A i \in 1..len - 1 : Tail(taken)[i] = taken[i + 1]
  OBVIOUS
<1>6. CASE r >= Mutable
  <2>1. w = s
    BY <1>2, <1>6 DEF SetRegister
  <2>2. PutInto(array, r, Tail(taken)) = array
    BY <1>1, <1>4, <1>5, <1>6 DEF PutInto, Data
  <2> QED
    BY <1>2, <1>3, <2>1, <2>2
<1>7. CASE ~(r >= Mutable)
  <2>1. (Mutable - r) % Byte = Mutable - r /\ r \in Nat /\ Mutable - r \in Nat
    <3>1. r \in Nat /\ Mutable - r \in 0..Byte-1
      BY <1>1, <1>7 DEF Data
    <3>2. \A k \in 0..Byte-1 : k % Byte = k
      BY <1>1
    <3> QED
      BY <3>1, <3>2
  <2> DEFINE stored == Store(array, r, data)
  <2>2. w = [s EXCEPT !.memory.mutable_buffer = stored]
    BY <1>2, <1>3, <1>7, <2>1 DEF SetRegister
  <2>3. copy_len \in Nat /\ copy_len <= len - 1 /\ r + copy_len <= Mutable
    <3> HIDE DEF r, len
    <3> QED
      BY <1>1, <2>1
  <2>4. \A i \in 1..copy_len : data[i] = taken[i + 1] /\ data[i] \in Data
    <3> SUFFICES ASSUME NEW i \in 1..copy_len PROVE data[i] = taken[i + 1] /\ data[i] \in Data
      OBVIOUS
    <3>1. i \in 0..len-1 /\ i + 1 \in 1..len
      BY <1>1, <2>3
    <3> QED
      BY <3>1 DEF Landed
  <2>5. data \in Seq(Data) /\ Len(data) = copy_len
    BY <2>3, <2>4
  <2>6. stored = PutInto(array, r, data)
    <3> HIDE DEF data, copy_len, array, r
    <3> QED
      BY <1>1, <1>4, <2>1, <2>3, <2>5, StoreIsPut
  <2>7. PutInto(array, r, data) = PutInto(array, r, Tail(taken))
    <3> SUFFICES ASSUME NEW i \in 0..Mutable-1
                 PROVE  (IF i \in r..(r + Len(data) - 1) THEN data[i - r + 1] ELSE array[i])
                          = (IF i \in r..(r + Len(Tail(taken)) - 1) THEN Tail(taken)[i - r + 1] ELSE array[i])
      BY <1>4 DEF PutInto
    <3>1. i \in r..(r + Len(data) - 1) <=> i \in r..(r + Len(Tail(taken)) - 1)
      <4> HIDE DEF data, r, len
      <4> QED
        BY <1>1, <1>5, <2>1, <2>3, <2>5
    <3>2. i \in r..(r + Len(data) - 1) => i - r + 1 \in 1..copy_len /\ i - r + 1 \in 1..len - 1
      <4> HIDE DEF data, r, len, copy_len
      <4> QED
        BY <1>1, <2>1, <2>3, <2>5
    <3> QED
      <4> HIDE DEF data, r, len, copy_len
      <4> QED
        BY <1>5, <2>4, <3>1, <3>2
  <2> HIDE DEF stored, w
  <2> DEFINE mem == [s.memory EXCEPT !.mutable_buffer = stored]
  <2>8. /\ mem.mutable_buffer = stored /\ mem.rx_buffer = s.memory.rx_buffer
        /\ mem.read_only_buffer = s.memory.read_only_buffer
    BY <1>3 DEF Memory
  <2>9. w = [s EXCEPT !.memory = mem]
    BY <2>2, <1>3 DEF IsMachine
  <2> HIDE DEF mem
  <2>10. IsMachine(w) /\ w.memory = mem /\ w.told = <<>>
    BY <1>3, <2>9 DEF IsMachine
  <2> QED
    BY <1>2, <1>3, <2>6, <2>7, <2>8, <2>10 DEF w
<1> QED
  BY <1>6, <1>7

\* Which the promise calls Write: of the frame that is taken, the head and the rest.
LEMMA ReceiveWhole ==
    ASSUME SimInv, Sizes, bus.selected = NoRegister, NEW bytes \in Seq(Data), Len(bytes) > 1
    PROVE  LET w == Receive(Machine, bytes)
               taken == Upto(bytes, BufferLength)
           IN  /\ taken \in Seq(Data) /\ Len(taken) > 1
               /\ w.slave = Fresh /\ w.got_reg_num = FALSE
               /\ w.memory.mutable_buffer = PutInto(memory.mutable_buffer, Head(taken), Tail(taken))
               /\ w.memory.read_only_buffer = memory.read_only_buffer
               /\ w.told = <<Callback("after_write", Head(taken), (Len(taken) - 1) % Byte)>>
<1> DEFINE taken == Upto(bytes, BufferLength)
<1>1. BufferLength \in Nat /\ BufferLength > 1
  BY RegisterSlaveAssumption DEF Sizes
<1>2. taken \in Seq(Data) /\ Len(taken) > 1 /\ Len(taken) <= BufferLength
  BY <1>1, UptoIs
<1>3. PICK s : Landed(s, taken) /\ Receive(Machine, bytes) = after_receive(s, Len(taken))
  <2>1. Len(bytes) > 0
    OBVIOUS
  <2> QED
    BY <2>1, FrameLands
<1> HIDE DEF taken
<1> DEFINE f == SetRegister(s, Len(taken))
           n == (Len(taken) - 1) % Byte
<1>4. Receive(Machine, bytes) = Written(f, n)
  BY <1>2, <1>3 DEF after_receive, Landed
<1>5. /\ IsMachine(f) /\ f.told = <<>> /\ f.memory.rx_buffer[0] = taken[1]
      /\ f.memory.mutable_buffer = PutInto(memory.mutable_buffer, taken[1], Tail(taken))
      /\ f.memory.read_only_buffer = memory.read_only_buffer
  BY <1>2, <1>3, SetRegisterPuts
<1>6. Head(taken) = taken[1]
  OBVIOUS
<1> HIDE DEF f, n
<1>7. LET w == Written(f, n)
      IN  /\ w.memory = f.memory /\ w.slave = Fresh /\ w.got_reg_num = FALSE
          /\ w.told = <<Callback("after_write", f.memory.rx_buffer[0], n)>>
  BY <1>5, WrittenTells
<1> QED
  BY <1>2, <1>4, <1>5, <1>6, <1>7 DEF taken, n

\* Data for the register that was selected.
LEMMA ReceiveData ==
    ASSUME SimInv, bus.selected < Mutable, bus.selected \in Data, NEW data \in Seq(Data)
    PROVE  LET w == Receive(Machine, data)
               r == bus.selected
           IN  /\ w.slave = Fresh /\ w.got_reg_num = FALSE
               /\ w.memory.mutable_buffer = PutInto(memory.mutable_buffer, r, data)
               /\ w.memory.read_only_buffer = memory.read_only_buffer
               /\ w.told = <<Callback("after_write", r, Len(Upto(data, Mutable - r)) % Byte)>>
<1> DEFINE r == bus.selected
           m == Machine
           taken == Upto(data, Mutable - r)
           stored == Store(memory.mutable_buffer, r, taken)
           mem == [memory EXCEPT !.mutable_buffer = stored]
           s == [m EXCEPT !.memory["mutable_buffer"] = stored]
           n == Len(taken) % Byte
<1>1. Mutable \in Nat /\ Byte \in Nat \ {0} /\ r \in Nat /\ Mutable - r \in Nat \ {0} /\ r # NoRegister
  BY RegisterSlaveAssumption DEF Data, NoRegister
<1>2. /\ IsMachine(m) /\ m.memory = memory /\ m.slave = slave /\ m.got_reg_num = TRUE /\ m.told = <<>>
      /\ slave.rx = Pointer("mutable_buffer", r, Mutable - r) /\ memory \in Memory
      /\ memory.rx_buffer[0] = r
  BY <1>1, MachineIs DEF SimInv, Inv, Holds, Serves, Buffers
<1>3. /\ taken \in Seq(Data) /\ Len(taken) = IF Len(data) < Mutable - r THEN Len(data) ELSE Mutable - r
      /\ \A i \in 1..Len(taken) : taken[i] = data[i]
  BY <1>1, UptoIs
<1>4. Len(data) \in Nat /\ Len(taken) \in Nat /\ r + Len(taken) <= Mutable
  <2> HIDE DEF taken, r
  <2> QED
    BY <1>1, <1>3
<1>5. memory.mutable_buffer \in [0..Mutable-1 -> Data]
  BY <1>2 DEF Memory
<1> HIDE DEF m, r
<1>6. Receive(m, data) = Written(s, n)
  <2>1. Receive(m, data) = after_receive(s, Len(taken))
    <3>1. m.slave.rx.array = "mutable_buffer" /\ m.slave.rx.offset = r /\ m.slave.rx.size = Mutable - r
      BY <1>2 DEF Pointer
    <3>2. m.memory["mutable_buffer"] = memory.mutable_buffer /\ m.slave.rx.size # 0
      BY <1>1, <1>2, <3>1
    <3> QED
      BY <3>1, <3>2 DEF Receive
  <2> HIDE DEF taken, stored
  <2>2. s.got_reg_num = TRUE
    BY <1>2 DEF IsMachine
  <2> HIDE DEF s
  <2> QED
    BY <2>1, <2>2 DEF after_receive
<1> HIDE DEF taken
<1>7. stored \in [0..Mutable-1 -> Data] /\ stored = PutInto(memory.mutable_buffer, r, taken)
  <2>1. stored \in [0..Mutable-1 -> Data]
    BY <1>1, <1>3, <1>4, <1>5, StoreFits
  <2>2. stored = PutInto(memory.mutable_buffer, r, taken)
    BY <1>1, <1>3, <1>4, <1>5, StoreIsPut
  <2> QED
    BY <2>1, <2>2
<1>8. PutInto(memory.mutable_buffer, r, taken) = PutInto(memory.mutable_buffer, r, data)
  <2> SUFFICES ASSUME NEW i \in 0..Mutable-1
               PROVE  /\ i \in r..(r + Len(taken) - 1) <=> i \in r..(r + Len(data) - 1)
                      /\ i \in r..(r + Len(taken) - 1) => taken[i - r + 1] = data[i - r + 1]
    BY <1>5 DEF PutInto
  <2>1. i \in r..(r + Len(taken) - 1) => i - r + 1 \in 1..Len(taken)
    BY <1>1, <1>4
  <2> QED
    BY <1>1, <1>3, <1>4, <2>1
<1> HIDE DEF stored
<1>9. /\ mem.mutable_buffer = stored /\ mem.rx_buffer = memory.rx_buffer
      /\ mem.read_only_buffer = memory.read_only_buffer
  BY <1>2 DEF Memory
<1>10. s = [m EXCEPT !.memory = mem]
  BY <1>2 DEF IsMachine
<1> HIDE DEF mem, s, n
<1>11. IsMachine(s) /\ s.memory = mem
  BY <1>2, <1>10 DEF IsMachine
<1>12. LET w == Written(s, n)
       IN  /\ w.memory = mem /\ w.slave = Fresh /\ w.got_reg_num = FALSE
           /\ w.told = <<Callback("after_write", r, n)>>
  BY <1>2, <1>9, <1>11, WrittenTells
<1> QED
  BY <1>6, <1>7, <1>8, <1>9, <1>12 DEF m, r, n, taken

------------------------------------------------------------------------------
(* Each step of the slave is a step of the file of registers.               *)

\* A frame leaves the master's side as it should be.
LEMMA EndsBus ==
    ASSUME NEW m, NEW direction, NEW bytes, NEW next, Ends(m, direction, bytes, next)
    PROVE  /\ Bus(bus)' /\ bus.selected' = next /\ bus.told' = m.told
           /\ bus.frame' = [direction |-> direction, bytes |-> bytes]
           /\ memory' = m.memory /\ slave' = m.slave /\ got_reg_num' = m.got_reg_num
BY DEF Ends, Bus

LEMMA BoundedIs ==
    ASSUME NEW n \in Nat, NEW s \in Seq(Data), Len(s) <= n
    PROVE  s \in BoundedSeq(Data, n)
<1>1. Len(s) \in 0..n /\ s \in [1..Len(s) -> Data]
  OBVIOUS
<1> QED
  BY <1>1 DEF BoundedSeq, SeqOf

\* And the frames of the model are no longer than they may be.
LEMMA BoundedLength ==
    ASSUME NEW n, NEW data \in BoundedSeq(DataBytes, n)
    PROVE  Len(data) \in Nat /\ Len(data) \in 0..n
<1>1. PICK k \in 0..n : data \in [1..k -> DataBytes]
  BY DEF BoundedSeq, SeqOf
<1>2. k \in Nat /\ Len(data) = k
  BY <1>1
<1> QED
  BY <1>1, <1>2

\* What the last frame selected, if it was a register number.
LEMMA Selected ==
    ASSUME SimInv
    PROVE  /\ bus.selected = NoRegister \/ bus.selected \in Data
           /\ NoRegister \notin Data /\ memory \in Memory
           /\ memory.mutable_buffer \in [0..Mutable-1 -> Data]
           /\ memory.read_only_buffer \in [0..ReadOnly-1 -> Data]
<1>1. bus.selected \in 0..NoRegister /\ memory \in Memory
  BY DEF SimInv, Inv, Holds
<1> QED
  BY <1>1, RegisterSlaveAssumption DEF NoRegister, Data, Memory

LEMMA SelectStep ==
    ASSUME SimInv, Sizes, SelectFrame
    PROVE  Serves(memory, slave, got_reg_num, bus.selected)' /\ Bus(bus)' /\ \E r \in Data : File!Select(r)
<1>1. PICK r \in Data : Ends(Receive(Machine, <<r>>), "write", <<r>>, r)
  BY DEF SelectFrame
<1> DEFINE w == Receive(Machine, <<r>>)
<1>2. bus.selected = NoRegister /\ r # NoRegister
  BY Selected DEF SelectFrame
<1>3. /\ w.memory.mutable_buffer = memory.mutable_buffer
      /\ w.memory.read_only_buffer = memory.read_only_buffer
      /\ w.memory.rx_buffer[0] = r /\ w.slave = Buffers(r) /\ w.got_reg_num = TRUE /\ w.told = <<>>
  BY <1>2, ReceiveSelect
<1> HIDE DEF w
<1>4. /\ Bus(bus)' /\ bus.selected' = r /\ bus.told' = w.told
      /\ bus.frame' = [direction |-> "write", bytes |-> <<r>>]
      /\ memory' = w.memory /\ slave' = w.slave /\ got_reg_num' = w.got_reg_num
  BY <1>1, EndsBus DEF w
<1>5. Serves(memory, slave, got_reg_num, bus.selected)'
  BY <1>2, <1>3, <1>4 DEF Serves, Buffers, Pointer, NoRegister
<1>6. File!Select(r)
  BY <1>2, <1>3, <1>4 DEF File!Select, File!Wrote, File!NoRegister, NoRegister
<1> QED
  BY <1>4, <1>5, <1>6

\* What the application is told may be less than what came only if it did not fit.
LEMMA PutStep ==
    ASSUME SimInv, Sizes, NEW r \in Data, NEW data \in Seq(Data), NEW count \in 0..Len(data),
           Len(data) <= Mutable - r => count = Len(data),
           bus.selected' = NoRegister, bus.told' = <<Callback("after_write", r, count)>>,
           memory'.mutable_buffer = PutInto(memory.mutable_buffer, r, data),
           memory'.read_only_buffer = memory.read_only_buffer
    PROVE  File!Put(r, data)
<1>1. memory'.mutable_buffer =
        [i \in DOMAIN memory.mutable_buffer |->
            IF i \in r..(r + Len(data) - 1) THEN data[i - r + 1] ELSE memory.mutable_buffer[i]]
  BY DEF PutInto
<1> QED
  BY <1>1 DEF File!Put, File!Callback, Callback, File!NoRegister, NoRegister

LEMMA WholeStep ==
    ASSUME SimInv, Sizes, WholeFrame
    PROVE  /\ Serves(memory, slave, got_reg_num, bus.selected)' /\ Bus(bus)'
           /\ \E bytes \in BoundedSeq(Data, MaxFrame) : File!Write(bytes)
<1>1. PICK r \in Data, data \in BoundedSeq(DataBytes, MaxFrame - 1) \ {<<>>} :
          Ends(Receive(Machine, <<r>> \o data), "write", <<r>> \o data, NoRegister)
  BY DEF WholeFrame
<1>2. data \in Seq(Data) /\ Len(data) > 0
  BY BoundedData
<1>3. Len(data) \in Nat /\ Len(data) \in 0..MaxFrame - 1 /\ MaxFrame \in Nat
  BY BoundedLength, RegisterSlaveAssumption
<1> DEFINE bytes == <<r>> \o data
           taken == Upto(bytes, BufferLength)
           w == Receive(Machine, bytes)
           count == (Len(taken) - 1) % Byte
<1>4. bytes \in Seq(Data) /\ Len(bytes) > 1 /\ Len(bytes) <= MaxFrame
  BY <1>2, <1>3
<1>5. Ends(w, "write", bytes, NoRegister)
  BY <1>1
<1> HIDE DEF bytes
<1>6. bus.selected = NoRegister
  BY DEF WholeFrame
<1>7. /\ taken \in Seq(Data) /\ Len(taken) > 1
      /\ w.slave = Fresh /\ w.got_reg_num = FALSE
      /\ w.memory.mutable_buffer = PutInto(memory.mutable_buffer, Head(taken), Tail(taken))
      /\ w.memory.read_only_buffer = memory.read_only_buffer
      /\ w.told = <<Callback("after_write", Head(taken), count)>>
  BY <1>4, <1>6, ReceiveWhole
<1>8. /\ Bus(bus)' /\ bus.selected' = NoRegister /\ bus.told' = w.told
      /\ bus.frame' = [direction |-> "write", bytes |-> bytes]
      /\ memory' = w.memory /\ slave' = w.slave /\ got_reg_num' = w.got_reg_num
  <2> HIDE DEF w
  <2> QED
    BY <1>5, EndsBus
<1> HIDE DEF w, taken
<1>9. Head(taken) \in Data /\ Tail(taken) \in Seq(Data) /\ Len(Tail(taken)) = Len(taken) - 1
  BY <1>7
<1>10. count \in 0..Len(Tail(taken)) /\ (Len(Tail(taken)) <= Mutable - Head(taken) => count = Len(Tail(taken)))
  <2> DEFINE n == Len(Tail(taken))
             h == Head(taken)
  <2>1. n \in Nat /\ count = n % Byte /\ h \in Nat
    BY <1>7, <1>9, RegisterSlaveAssumption DEF Data
  <2>2. Byte \in Nat \ {0} /\ Mutable \in Nat /\ Mutable < Byte
    BY RegisterSlaveAssumption DEF Sizes
  <2> HIDE DEF n, h, count
  <2>3. \A k \in 0..Byte-1 : k % Byte = k
    BY <2>2
  <2>4. count \in 0..Byte-1
    BY <2>1, <2>2
  <2>5. CASE n < Byte
    <3>1. count = n
      BY <2>1, <2>2, <2>3, <2>5
    <3> QED
      BY <2>1, <3>1 DEF n, h
  <2>6. CASE ~(n < Byte)
    <3>1. count \in 0..n /\ ~(n <= Mutable - h)
      BY <2>1, <2>2, <2>4, <2>6
    <3> QED
      BY <3>1 DEF n, h
  <2> QED
    BY <2>5, <2>6
<1> HIDE DEF count
<1>11. File!Put(Head(taken), Tail(taken))
  BY <1>7, <1>8, <1>9, <1>10, PutStep
<1>12. File!Write(bytes)
  BY <1>4, <1>6, <1>8, <1>11 DEF File!Write, File!Wrote, File!NoRegister, NoRegister, File!Upto, Upto, taken
<1>13. Serves(memory, slave, got_reg_num, bus.selected)'
  BY <1>7, <1>8 DEF Serves, Fresh, Pointer, NoRegister
<1>14. bytes \in BoundedSeq(Data, MaxFrame)
  BY <1>3, <1>4, BoundedIs
<1> QED
  BY <1>8, <1>12, <1>13, <1>14

LEMMA DataStep ==
    ASSUME SimInv, Sizes, WritesReadOnly = FALSE, DataFrame
    PROVE  /\ Serves(memory, slave, got_reg_num, bus.selected)' /\ Bus(bus)'
           /\ \E bytes \in BoundedSeq(Data, MaxFrame) : File!Write(bytes)
<1>1. PICK data \in BoundedSeq(DataBytes, MaxFrame) \ {<<>>} :
          Ends(Receive(Machine, data), "write", data, NoRegister)
  BY DEF DataFrame
<1> DEFINE r == bus.selected
           w == Receive(Machine, data)
           taken == Upto(data, Mutable - r)
           count == Len(taken) % Byte
<1>2. data \in Seq(Data) /\ Len(data) > 0
  BY BoundedData
<1>3. Len(data) \in Nat /\ Len(data) <= MaxFrame /\ MaxFrame \in Nat
  BY BoundedLength, RegisterSlaveAssumption
<1>4. r \in Data /\ r < Mutable /\ r # NoRegister
  BY Selected DEF DataFrame
<1>5. /\ w.slave = Fresh /\ w.got_reg_num = FALSE
      /\ w.memory.mutable_buffer = PutInto(memory.mutable_buffer, r, data)
      /\ w.memory.read_only_buffer = memory.read_only_buffer
      /\ w.told = <<Callback("after_write", r, count)>>
  BY <1>2, <1>4, ReceiveData
<1>6. /\ Bus(bus)' /\ bus.selected' = NoRegister /\ bus.told' = w.told
      /\ bus.frame' = [direction |-> "write", bytes |-> data]
      /\ memory' = w.memory /\ slave' = w.slave /\ got_reg_num' = w.got_reg_num
  <2>1. Ends(w, "write", data, NoRegister)
    BY <1>1
  <2> HIDE DEF w
  <2> QED
    BY <2>1, EndsBus
<1> HIDE DEF w
<1>7. count \in 0..Len(data) /\ (Len(data) <= Mutable - r => count = Len(data))
  <2>1. Mutable \in Nat /\ Byte \in Nat \ {0} /\ Mutable < Byte /\ r \in Nat /\ Mutable - r \in Nat
    BY <1>4, RegisterSlaveAssumption DEF Sizes, Data
  <2>2. Len(taken) = IF Len(data) < Mutable - r THEN Len(data) ELSE Mutable - r
    BY <1>2, <2>1, UptoIs
  <2> HIDE DEF taken, r
  <2>3. Len(taken) \in 0..Byte-1 /\ Len(taken) \in 0..Len(data)
    BY <1>3, <2>1, <2>2
  <2>4. \A k \in 0..Byte-1 : k % Byte = k
    BY <2>1
  <2>5. count = Len(taken)
    BY <2>3, <2>4
  <2> QED
    <3> HIDE DEF count
    <3>1. count \in 0..Len(data)
      BY <2>3, <2>5
    <3>2. Len(data) <= Mutable - r => count = Len(data)
      BY <1>3, <2>1, <2>2, <2>5
    <3> QED
      BY <3>1, <3>2
<1> HIDE DEF count
<1>8. File!Put(r, data)
  BY <1>2, <1>4, <1>5, <1>6, <1>7, PutStep
<1>9. File!Write(data)
  BY <1>4, <1>6, <1>8 DEF File!Write, File!Wrote, File!NoRegister, NoRegister
<1>10. Serves(memory, slave, got_reg_num, bus.selected)'
  BY <1>5, <1>6 DEF Serves, Fresh, Pointer, NoRegister
<1>11. data \in BoundedSeq(Data, MaxFrame)
  BY <1>2, <1>3, BoundedIs
<1> QED
  BY <1>6, <1>9, <1>10, <1>11

\* The transmit buffer holds the registers from the one that was selected.
LEMMA SentIs ==
    ASSUME SimInv, NEW n \in Nat
    PROVE  Sent(n) = LET held == IF bus.selected = NoRegister THEN <<>> ELSE File!From(bus.selected)
                     IN  [i \in 1..n |-> IF i <= Len(held) THEN held[i] ELSE 0]
<1> DEFINE r == bus.selected
<1>1. Mutable \in Nat /\ ReadOnly \in Nat
  BY RegisterSlaveAssumption
<1>2. CASE r = NoRegister
  <2>1. slave.tx = Pointer("mutable_buffer", 0, 0)
    BY <1>2 DEF SimInv, Serves, Fresh
  <2> QED
    BY <1>2, <2>1 DEF Sent, Pointer
<1>3. CASE r # NoRegister /\ r < Mutable
  <2> DEFINE held == [i \in 1..(Mutable - r) |-> memory.mutable_buffer[r + i - 1]]
  <2>1. r \in Nat /\ Mutable - r \in Nat
    BY <1>1, <1>3, Selected, RegisterSlaveAssumption DEF Data
  <2>2. slave.tx = Pointer("mutable_buffer", r, Mutable - r)
    BY <1>3 DEF SimInv, Serves, Buffers
  <2>3. File!From(r) = held
    <3>1. ~(r >= Mutable)
      BY <1>1, <1>3, <2>1
    <3> QED
      BY <1>3, <3>1 DEF File!From
  <2>4. Len(held) = Mutable - r
    BY <2>1
  <2>5. Sent(n) = [i \in 1..n |-> IF i <= Mutable - r THEN memory.mutable_buffer[r + i - 1] ELSE 0]
    BY <2>2 DEF Sent, Pointer
  <2>6. \A i \in 1..n : i <= Mutable - r => held[i] = memory.mutable_buffer[r + i - 1]
    BY <2>1
  <2> HIDE DEF held, r
  <2> QED
    BY <1>3, <2>3, <2>4, <2>5, <2>6 DEF r
<1>4. CASE r # NoRegister /\ r >= Mutable /\ r < Mutable + ReadOnly
  <2> DEFINE size == Mutable + ReadOnly - r
             held == [i \in 1..size |-> memory.read_only_buffer[r - Mutable + i - 1]]
  <2>1. r \in Nat /\ size \in Nat /\ size = ReadOnly - (r - Mutable) /\ r - Mutable < ReadOnly /\ ~(r < Mutable)
    <3>1. r \in Nat
      BY <1>4, Selected, RegisterSlaveAssumption DEF Data
    <3> HIDE DEF r
    <3> QED
      BY <1>1, <1>4, <3>1
  <2>2. slave.tx = Pointer("read_only_buffer", r - Mutable, size)
    BY <1>4, <2>1 DEF SimInv, Serves, Buffers
  <2>3. File!From(r) = held
    BY <1>4, <2>1 DEF File!From
  <2>4. Len(held) = size
    BY <2>1
  <2>5. Sent(n) = [i \in 1..n |-> IF i <= size THEN memory.read_only_buffer[r - Mutable + i - 1] ELSE 0]
    BY <2>2 DEF Sent, Pointer
  <2>6. \A i \in 1..n : i <= size => held[i] = memory.read_only_buffer[r - Mutable + i - 1]
    BY <2>1
  <2> HIDE DEF held, r, size
  <2> QED
    BY <1>4, <2>3, <2>4, <2>5, <2>6 DEF r
<1>5. CASE r # NoRegister /\ r >= Mutable + ReadOnly
  <2>1. r \in Nat /\ ~(r - Mutable < ReadOnly) /\ ~(r < Mutable) /\ ~(r < Mutable + ReadOnly)
    BY <1>1, <1>5, Selected, RegisterSlaveAssumption DEF Data
  <2>2. slave.tx = Pointer("read_only_buffer", 0, 0)
    BY <1>5, <2>1 DEF SimInv, Serves, Buffers
  <2>3. File!From(r) = <<>>
    BY <2>1 DEF File!From
  <2> QED
    BY <1>5, <2>2, <2>3 DEF Sent, Pointer
<1> QED
  <2>1. r # NoRegister => r \in Nat
    BY Selected, RegisterSlaveAssumption DEF Data
  <2> QED
    BY <1>1, <1>2, <1>3, <1>4, <1>5, <2>1

LEMMA ReadStep ==
    ASSUME SimInv, Sizes, ReadFrame
    PROVE  /\ Serves(memory, slave, got_reg_num, bus.selected)' /\ Bus(bus)'
           /\ \E n \in 1..MaxFrame : File!Read(n)
<1>1. PICK n \in 1..MaxFrame : Ends(after_transmit(Machine), "read", Sent(n), NoRegister)
  BY DEF ReadFrame
<1> DEFINE m == Machine
           r == memory.rx_buffer[0]
           f == wait_for_reg_num(m)
           w == after_transmit(m)
           calls == <<Callback("after_read", r, 0)>>
<1>2. IsMachine(m) /\ m.memory = memory
  BY MachineIs
<1> HIDE DEF m
<1>3. IsMachine(f) /\ f.memory = memory /\ f.slave = Fresh /\ f.got_reg_num = FALSE
  BY <1>2, WaitsFresh
<1>4. w = [f EXCEPT !.told = calls]
  BY <1>2 DEF after_transmit
<1> HIDE DEF f, w, calls
<1>5. w.memory = memory /\ w.slave = Fresh /\ w.got_reg_num = FALSE /\ w.told = calls
  BY <1>3, <1>4 DEF IsMachine
<1>6. /\ Bus(bus)' /\ bus.selected' = NoRegister /\ bus.told' = w.told
      /\ bus.frame' = [direction |-> "read", bytes |-> Sent(n)]
      /\ memory' = w.memory /\ slave' = w.slave /\ got_reg_num' = w.got_reg_num
  BY <1>1, EndsBus DEF w, m
<1>7. r \in Data /\ (bus.selected # NoRegister => r = bus.selected)
  <2>1. memory.rx_buffer \in [0..BufferLength-1 -> Data] /\ 0 \in 0..BufferLength-1
    BY Selected, RegisterSlaveAssumption DEF Memory
  <2> QED
    BY <2>1 DEF SimInv, Serves
<1>8. File!Read(n)
  <2>1. n \in Nat
    OBVIOUS
  <2>2. \E k \in Data : (bus.selected # NoRegister => k = bus.selected) /\ bus.told' = <<Callback("after_read", k, 0)>>
    BY <1>5, <1>6, <1>7 DEF calls
  <2> HIDE DEF r
  <2> QED
    BY <1>5, <1>6, <2>1, <2>2, SentIs
    DEF File!Read, File!Callback, Callback, File!NoRegister, NoRegister, File!Data, Data
<1>9. Serves(memory, slave, got_reg_num, bus.selected)'
  BY <1>5, <1>6 DEF Serves, Fresh, Pointer, NoRegister
<1> QED
  BY <1>6, <1>8, <1>9

LEMMA UpdateStep ==
    ASSUME SimInv, Update
    PROVE  Serves(memory, slave, got_reg_num, bus.selected)' /\ Bus(bus)' /\ File!Update
<1>1. PICK i \in 0..ReadOnly-1, d \in DataBytes : memory' = [memory EXCEPT !.read_only_buffer[i] = d]
  BY DEF Update
<1>2. d \in Data /\ memory \in Memory
  BY Selected, RegisterSlaveAssumption DEF Data
<1>3. /\ memory'.read_only_buffer \in [0..ReadOnly-1 -> Data] /\ memory'.rx_buffer = memory.rx_buffer
      /\ memory'.mutable_buffer = memory.mutable_buffer
  BY <1>1, <1>2 DEF Memory
<1>4. slave' = slave /\ got_reg_num' = got_reg_num /\ bus' = bus
  BY DEF Update
<1>5. Serves(memory, slave, got_reg_num, bus.selected)' /\ Bus(bus)'
  BY <1>3, <1>4 DEF SimInv, Serves, Buffers, Fresh, Pointer, NoRegister, Bus
<1>6. File!Update
  BY <1>3, <1>4 DEF File!Update, File!Data, Data
<1> QED
  BY <1>5, <1>6

LEMMA ListenStep ==
    ASSUME SimInv, listen
    PROVE  Serves(memory, slave, got_reg_num, bus.selected)' /\ Bus(bus)' /\ File!Forget
<1> DEFINE f == wait_for_reg_num(Machine)
<1>1. f.slave = Fresh /\ f.got_reg_num = FALSE
  BY MachineIs, WaitsFresh
<1>2. slave' = f.slave /\ got_reg_num' = f.got_reg_num /\ memory' = memory
  BY DEF listen
<1> HIDE DEF f
<1>3. /\ Bus(bus)' /\ bus.selected' = NoRegister /\ bus.told' = <<>> /\ bus.frame' = bus.frame
  BY DEF listen, SimInv, Bus
<1>4. Serves(memory, slave, got_reg_num, bus.selected)'
  BY <1>1, <1>2, <1>3 DEF Serves, Fresh, Pointer, NoRegister
<1>5. File!Forget
  BY <1>2, <1>3 DEF File!Forget, File!NoRegister, NoRegister
<1> QED
  BY <1>3, <1>4, <1>5

------------------------------------------------------------------------------
LEMMA InitialFile == Init => SimInv /\ File!Init
<1> SUFFICES ASSUME Init PROVE SimInv /\ File!Init
  OBVIOUS
<1>1. Inv
  BY Initially
<1>2. bus = [selected |-> NoRegister, frame |-> [direction |-> "none", bytes |-> <<>>], told |-> <<>>]
  BY DEF Init
<1>3. Bus(bus) /\ Serves(memory, slave, got_reg_num, bus.selected)
  BY <1>2 DEF Bus, Init, Serves, Fresh
<1>4. SimInv
  BY <1>1, <1>3 DEF SimInv
<1>5. File!Init
  BY <1>2, <1>4, Selected DEF File!Init, File!Data, Data, File!NoRegister, NoRegister
<1> QED
  BY <1>4, <1>5

LEMMA FileStep ==
    ASSUME Sizes, WritesReadOnly = FALSE, SimInv, [Next]_vars
    PROVE  /\ SimInv'
           /\ File!Next \/ UNCHANGED <<memory.mutable_buffer, memory.read_only_buffer, bus.selected, bus.frame, bus.told>>
<1>1. Inv'
  BY Step DEF SimInv
<1>2. (\E bytes \in BoundedSeq(Data, MaxFrame) : File!Write(bytes)) => File!Next
  BY DEF File!Next, File!Data, Data, File!BoundedSeq, File!SeqOf, BoundedSeq, SeqOf
<1>3. CASE SelectFrame
  BY <1>1, <1>3, SelectStep DEF SimInv, File!Next, File!Data, Data
<1>4. CASE DataFrame
  BY <1>1, <1>2, <1>4, DataStep DEF SimInv
<1>5. CASE WholeFrame
  BY <1>1, <1>2, <1>5, WholeStep DEF SimInv
<1>6. CASE ReadFrame
  BY <1>1, <1>6, ReadStep DEF SimInv, File!Next
<1>7. CASE Update
  BY <1>1, <1>7, UpdateStep DEF SimInv, File!Next
<1>8. CASE listen
  BY <1>1, <1>8, ListenStep DEF SimInv, File!Next
<1>9. CASE UNCHANGED vars
  BY <1>9 DEF vars, SimInv, Inv, Holds, Bus, Serves, Fresh, Buffers, Pointer, NoRegister
<1> QED
  BY <1>3, <1>4, <1>5, <1>6, <1>7, <1>8, <1>9 DEF Next

\* Frame by frame the register slave does what a file of registers does, as long as the
\* master does not write to a read-only register that it has selected.
THEOREM ImplementsRegisterFile ==
    ASSUME Sizes, WritesReadOnly = FALSE
    PROVE  Spec => KeepsRegisterFile
<1>1. SimInv /\ [Next]_vars => SimInv'
  BY FileStep
<1>2. SimInv /\ [Next]_vars =>
        [File!Next]_<<memory.mutable_buffer, memory.read_only_buffer, bus.selected, bus.frame, bus.told>>
  BY FileStep
<1> QED
  BY <1>1, <1>2, InitialFile, PTL DEF Spec, KeepsRegisterFile, File!Spec
==============================================================================
