--------------------------- MODULE I2CSlaveProofs ---------------------------
(***************************************************************************)
(* What is proved of I2CSlave for every size of the arrays and length of   *)
(* the frames, every bit error and every lateness of the ISR, of an        *)
(* application whose thread calls the driver only while the bus is idle.   *)
(*                                                                         *)
(* The cursor and the size of a buffer are not consistent while the thread *)
(* is between two assignments of initialise(). The invariant says that no  *)
(* interrupt is pending then and no frame is addressed to the slave, so    *)
(* that the ISR, which trusts them, never meets them in that state.        *)
(***************************************************************************)
EXTENDS I2CSlave, TLAPS, SequenceTheorems

\* A buffer as the ISR expects it, over an array of the size the driver was told.
Fits(b, array) == b.size = array /\ b.next_index <= b.size

DriverInv(d) == d \in DriverType /\ Fits(d.rx_buffer, d.rx_array) /\ Fits(d.tx_buffer, d.tx_array)

MachineInv(m) ==
    /\ m = [drv |-> m.drv, port |-> m.port, told |-> m.told]
    /\ DriverInv(m.drv) /\ m.port \in PortType /\ m.told \in Seq(Calls)

\* The thread is setting the receive, or the transmit, buffer.
Setting(which) == app.pc # "idle" /\ app.buffer = which
Halfway(b, array) == b.next_index = 0 /\ (app.pc = "size" => array = app.n)

Quiet == ~Interrupt /\ wire.phase \in {"idle", "ignored"}

\* A byte is only asked for within the bound of the model.
Bounded == wire.phase = "sending" => wire.count < MaxFrame

Inv ==
    /\ TypeOK /\ Bounded
    /\ IF Setting("rx") THEN Halfway(drv.rx_buffer, drv.rx_array) ELSE Fits(drv.rx_buffer, drv.rx_array)
    /\ IF Setting("tx") THEN Halfway(drv.tx_buffer, drv.tx_array) ELSE Fits(drv.tx_buffer, drv.tx_array)
    /\ app.pc # "idle" => Quiet

------------------------------------------------------------------------------
BufferType == [size : 0..MaxSize, next_index : 0..MaxSize]

LEMMA Limits ==
    MaxSize \in Nat /\ MaxFrame \in Nat \ {0} /\ Sizes \subseteq 0..MaxSize /\ CallbackSizes \subseteq 0..MaxSize
BY SlaveHardwareAssumption, SlaveAssumption

\* The operations of I2CBuffer that the ISR uses keep a cursor within its array.
LEMMA BufferOperations ==
    ASSUME NEW b \in BufferType, NEW array, Fits(b, array)
    PROVE  /\ reset(b) \in BufferType /\ Fits(reset(b), array)
           /\ write(b) \in BufferType /\ Fits(write(b), array)
           /\ has_data_available(b) => read(b, 1) \in BufferType /\ Fits(read(b, 1), array)
           /\ get_bytes_transferred(b) \in Nat
BY Limits DEF BufferType, Fits, reset, write, all_done, has_data_available, read, get_bytes_transferred

LEMMA NewBuffer ==
    ASSUME NEW n \in 0..MaxSize
    PROVE  initialise(n) \in BufferType /\ Fits(initialise(n), n)
BY Limits DEF BufferType, Fits, initialise

\* A driver whose buffers, error or state are replaced by good ones is a good driver.
LEMMA WithReceiveBuffer ==
    ASSUME NEW d, DriverInv(d), NEW b \in BufferType, NEW a \in 0..MaxSize, Fits(b, a)
    PROVE  DriverInv([d EXCEPT !.rx_buffer = b, !.rx_array = a])
BY DEF DriverInv, DriverType, BufferType

LEMMA WithTransmitBuffer ==
    ASSUME NEW d, DriverInv(d), NEW b \in BufferType, NEW a \in 0..MaxSize, Fits(b, a)
    PROVE  DriverInv([d EXCEPT !.tx_buffer = b, !.tx_array = a])
BY DEF DriverInv, DriverType, BufferType

LEMMA WithState ==
    ASSUME NEW d, DriverInv(d), NEW s \in State
    PROVE  DriverInv([d EXCEPT !.state = s])
BY DEF DriverInv, DriverType

LEMMA WithError ==
    ASSUME NEW d, DriverInv(d), NEW e \in I2CError
    PROVE  DriverInv([d EXCEPT !.error = e])
BY DEF DriverInv, DriverType

\* set_receive_buffer() and set_transmit_buffer() in a callback.
LEMMA SetInv ==
    ASSUME NEW d, DriverInv(d), NEW a \in Answers
    PROVE  DriverInv(Set(d, a))
<1>1. CASE a = Silent
  BY <1>1 DEF Set, Silent
<1>2. CASE a \in [buffer : {"rx", "tx"}, n : CallbackSizes]
  <2>1. a.n \in 0..MaxSize /\ a.buffer \in {"rx", "tx"}
    BY <1>2, Limits
  <2>2. initialise(a.n) \in BufferType /\ Fits(initialise(a.n), a.n)
    BY <2>1, NewBuffer
  <2> QED
    BY <2>1, <2>2, WithReceiveBuffer, WithTransmitBuffer DEF Set
<1> QED
  BY <1>1, <1>2 DEF Answers

\* A machine with another driver, or another port.
LEMMA WithDriver ==
    ASSUME NEW m, MachineInv(m), NEW d, DriverInv(d)
    PROVE  LET w == [m EXCEPT !.drv = d]
           IN  MachineInv(w) /\ w.drv = d /\ w.port = m.port /\ w.told = m.told
BY DEF MachineInv

LEMMA WithPort ==
    ASSUME NEW m, MachineInv(m), NEW p \in PortType
    PROVE  LET w == [m EXCEPT !.port = p]
           IN  MachineInv(w) /\ w.drv = m.drv /\ w.port = p /\ w.told = m.told
BY DEF MachineInv

LEMMA WithTold ==
    ASSUME NEW m, MachineInv(m), NEW told \in Seq(Calls)
    PROVE  MachineInv([m EXCEPT !.told = told])
BY DEF MachineInv

\* A callback.
LEMMA TellInv ==
    ASSUME NEW m, MachineInv(m), NEW name \in {"after_receive", "before_transmit", "after_transmit"},
           NEW length \in Nat, NEW a \in Answers
    PROVE  MachineInv(Tell(m, name, length, a))
<1> DEFINE call == Call(name, length, m.drv.address_called)
           d == Set(m.drv, a)
           told == Append(m.told, call)
<1>1. m.drv.address_called \in Addresses \cup {0}
  BY DEF MachineInv, DriverInv, DriverType
<1>2. call \in Calls
  BY <1>1 DEF Calls, Call
<1> HIDE DEF call
<1>3. told \in Seq(Calls)
  BY <1>2 DEF MachineInv
<1>4. DriverInv(d)
  BY SetInv DEF MachineInv
<1>5. Tell(m, name, length, a) = [m EXCEPT !.told = told, !.drv = d]
  BY DEF Tell, call
<1> HIDE DEF told, d
<1>6. [m EXCEPT !.told = told, !.drv = d] = [[m EXCEPT !.drv = d] EXCEPT !.told = told]
  BY DEF MachineInv
<1>7. MachineInv([[m EXCEPT !.drv = d] EXCEPT !.told = told])
  BY <1>3, <1>4, WithDriver, WithTold
<1> QED
  BY <1>5, <1>6, <1>7

------------------------------------------------------------------------------
\* The handlers of the ISR.
LEMMA HandleAddressInv ==
    ASSUME NEW m, MachineInv(m), NEW ssr
    PROVE  MachineInv(HandleAddress(m, ssr))
<1> DEFINE d == [m.drv EXCEPT !.address_called = m.port.SASR]
           p == [m.port EXCEPT !.SSR = @ \ {"AVF"}]
<1>1. DriverInv(d)
  BY DEF MachineInv, DriverInv, DriverType, PortType
<1>2. p \in PortType
  BY DEF MachineInv, PortType
<1> HIDE DEF d, p
<1>3. MachineInv([[m EXCEPT !.drv = d] EXCEPT !.port = p])
  BY <1>1, <1>2, WithDriver, WithPort
<1>4. [[m EXCEPT !.drv = d] EXCEPT !.port = p] = [m EXCEPT !.drv = d, !.port = p]
  BY DEF MachineInv
<1> QED
  BY <1>3, <1>4 DEF HandleAddress, d, p

LEMMA EndOfFrameInv ==
    ASSUME NEW m, MachineInv(m), NEW answer \in Answers
    PROVE  MachineInv(end_of_frame(m, answer))
<1> DEFINE quiet == [m EXCEPT !.drv.trailing_byte_sent = FALSE]
           ended ==
             CASE m.drv.state = "receiving" ->
                     Tell(m, "after_receive", get_bytes_transferred(m.drv.rx_buffer), answer)
               [] m.drv.state = "transmitting" -> Tell(quiet, "after_transmit", 0, answer)
               [] OTHER -> m
<1>1. MachineInv(Tell(m, "after_receive", get_bytes_transferred(m.drv.rx_buffer), answer))
  <2>1. get_bytes_transferred(m.drv.rx_buffer) \in Nat
    BY Limits DEF MachineInv, DriverInv, DriverType, get_bytes_transferred
  <2> QED
    BY <2>1, TellInv
<1>2. MachineInv(Tell(quiet, "after_transmit", 0, answer))
  <2> DEFINE d == [m.drv EXCEPT !.trailing_byte_sent = FALSE]
  <2>1. DriverInv(d)
    BY DEF MachineInv, DriverInv, DriverType
  <2>2. quiet = [m EXCEPT !.drv = d]
    OBVIOUS
  <2> HIDE DEF d
  <2>3. MachineInv(quiet)
    BY <2>1, <2>2, WithDriver
  <2> HIDE DEF quiet
  <2> QED
    BY <2>3, TellInv
<1>3. MachineInv(ended)
  BY <1>1, <1>2
<1> HIDE DEF ended
<1>4. DriverInv([ended.drv EXCEPT !.state = "idle"])
  BY <1>3, WithState DEF MachineInv, State
<1>5. MachineInv([ended EXCEPT !.drv = [ended.drv EXCEPT !.state = "idle"]])
  BY <1>3, <1>4, WithDriver
<1> QED
  BY <1>5 DEF end_of_frame, ended

LEMMA HandleEndOfFrameInv ==
    ASSUME NEW m, MachineInv(m), NEW ssr, NEW answer \in Answers
    PROVE  MachineInv(HandleEndOfFrame(m, ssr, answer))
<1> DEFINE p == [m.port EXCEPT !.SSR = @ \ {"RSF", "SDF"}]
<1>1. p \in PortType
  BY DEF MachineInv, PortType
<1> HIDE DEF p
<1>2. MachineInv(end_of_frame([m EXCEPT !.port = p], answer))
  BY <1>1, WithPort, EndOfFrameInv
<1> QED
  BY <1>2 DEF HandleEndOfFrame, p

LEMMA StartReceivingInv ==
    ASSUME NEW d, DriverInv(d)
    PROVE  DriverInv(StartReceiving(d))
<1> DEFINE e == [d EXCEPT !.error = "ok"]
           f == [e EXCEPT !.state = "receiving"]
           b == reset(d.rx_buffer)
<1>1. DriverInv(e)
  BY WithError DEF I2CError
<1>2. DriverInv(f)
  BY <1>1, WithState DEF State
<1>3. b \in BufferType /\ Fits(b, d.rx_array) /\ d.rx_array \in 0..MaxSize
  BY BufferOperations DEF DriverInv, DriverType, BufferType
<1>4. f.rx_array = d.rx_array
  BY DEF DriverInv, DriverType
<1> HIDE DEF b
<1>5. DriverInv([f EXCEPT !.rx_buffer = b])
  BY <1>2, <1>3, <1>4 DEF DriverInv, DriverType, BufferType
<1>6. [f EXCEPT !.rx_buffer = b] = [d EXCEPT !.error = "ok", !.state = "receiving", !.rx_buffer = b]
  BY DEF DriverInv, DriverType
<1> QED
  BY <1>1, <1>5, <1>6 DEF StartReceiving, b

LEMMA HandleReceiveInv ==
    ASSUME NEW m, MachineInv(m), NEW ssr
    PROVE  MachineInv(HandleReceive(m, ssr))
<1> DEFINE d == IF m.port.SOF THEN StartReceiving(m.drv) ELSE m.drv
           e == IF all_done(d.rx_buffer) THEN "buffer_overflow" ELSE d.error
           b == write(d.rx_buffer)
           taken == IF initialised(d.rx_buffer)
                    THEN [d EXCEPT !.rx_buffer = b, !.error = e]
                    ELSE [d EXCEPT !.error = "buffer_overflow", !.state = "idle"]
           p == [m.port EXCEPT !.SSR = @ \ {"RDF"}]
<1>1. DriverInv(d)
  BY StartReceivingInv DEF MachineInv
<1>2. p \in PortType
  BY DEF MachineInv, PortType
<1>3. HandleReceive(m, ssr) = IF "RDF" \notin ssr THEN m ELSE [m EXCEPT !.drv = taken, !.port = p]
  BY DEF HandleReceive
<1> HIDE DEF d, p
<1>4. b \in BufferType /\ Fits(b, d.rx_array) /\ e \in I2CError
  BY <1>1, BufferOperations DEF DriverInv, DriverType, BufferType, I2CError
<1> HIDE DEF b, e
<1>5. DriverInv([d EXCEPT !.rx_buffer = b, !.error = e])
  BY <1>1, <1>4 DEF DriverInv, DriverType, BufferType
<1>6. DriverInv([d EXCEPT !.error = "buffer_overflow", !.state = "idle"])
  BY <1>1 DEF DriverInv, DriverType, State, I2CError
<1>7. DriverInv(taken)
  BY <1>5, <1>6
<1> HIDE DEF taken
<1>8. MachineInv([[m EXCEPT !.drv = taken] EXCEPT !.port = p])
  BY <1>2, <1>7, WithDriver, WithPort
<1>9. [[m EXCEPT !.drv = taken] EXCEPT !.port = p] = [m EXCEPT !.drv = taken, !.port = p]
  BY DEF MachineInv
<1> QED
  BY <1>3, <1>8, <1>9

LEMMA StartTransmittingInv ==
    ASSUME NEW m, MachineInv(m), NEW answer \in Answers
    PROVE  MachineInv(StartTransmitting(m, answer))
<1> DEFINE d == [m.drv EXCEPT !.error = "ok", !.state = "transmitting"]
           s == [m EXCEPT !.drv = d]
           asked == Tell(s, "before_transmit", 0, answer)
           b == IF initialised(asked.drv.tx_buffer) THEN reset(asked.drv.tx_buffer)
                                                    ELSE asked.drv.tx_buffer
<1>1. DriverInv(d)
  BY DEF MachineInv, DriverInv, DriverType, State, I2CError
<1>2. [m EXCEPT !.drv.error = "ok", !.drv.state = "transmitting"] = s
  BY DEF MachineInv
<1> HIDE DEF d
<1>3. MachineInv(s)
  BY <1>1, WithDriver
<1> HIDE DEF s
<1>4. MachineInv(asked)
  BY <1>3, TellInv
<1>5. StartTransmitting(m, answer) =
        IF m.drv.state \notin {"idle", "aborted"} THEN m ELSE [asked EXCEPT !.drv.tx_buffer = b]
  BY <1>2 DEF StartTransmitting
<1> HIDE DEF asked
<1>6. b \in BufferType /\ Fits(b, asked.drv.tx_array)
  BY <1>4, BufferOperations DEF MachineInv, DriverInv, DriverType, BufferType
<1> HIDE DEF b
<1>7. DriverInv([asked.drv EXCEPT !.tx_buffer = b])
  BY <1>4, <1>6 DEF MachineInv, DriverInv, DriverType, BufferType
<1>8. MachineInv([asked EXCEPT !.drv = [asked.drv EXCEPT !.tx_buffer = b]])
  BY <1>4, <1>7, WithDriver
<1> QED
  BY <1>5, <1>8

LEMMA HandleTransmitInv ==
    ASSUME NEW m, MachineInv(m), NEW tdf, NEW answer \in Answers
    PROVE  MachineInv(HandleTransmit(m, tdf, answer))
<1> DEFINE s == StartTransmitting(m, answer)
           data == [s EXCEPT !.port.STDR = s.drv.tx_buffer.next_index,
                             !.drv.tx_buffer = read(@, 1)]
           t == s.drv.trailing_byte_sent \/ initialised(s.drv.tx_buffer)
           e == IF ~initialised(s.drv.tx_buffer) \/ s.drv.trailing_byte_sent
                THEN "buffer_underflow" ELSE s.drv.error
           dummy == [s EXCEPT !.port.STDR = DUMMY_BYTE, !.drv.trailing_byte_sent = t, !.drv.error = e]
<1>1. MachineInv(s)
  BY StartTransmittingInv
<1>2. HandleTransmit(m, tdf, answer) =
        IF ~tdf THEN m ELSE IF has_data_available(s.drv.tx_buffer) THEN data ELSE dummy
  BY DEF HandleTransmit
<1> HIDE DEF s
<1>3. CASE has_data_available(s.drv.tx_buffer)
  <2> DEFINE b == read(s.drv.tx_buffer, 1)
             d == [s.drv EXCEPT !.tx_buffer = b]
             p == [s.port EXCEPT !.STDR = s.drv.tx_buffer.next_index]
  <2>1. b \in BufferType /\ Fits(b, s.drv.tx_array)
    BY <1>1, <1>3, BufferOperations DEF MachineInv, DriverInv, DriverType, BufferType
  <2>2. p \in PortType
    <3>1. s.drv.tx_buffer.next_index \in Word
      BY <1>1, Limits DEF MachineInv, DriverInv, DriverType, Word, Nothing
    <3> QED
      BY <1>1, <3>1 DEF MachineInv, PortType
  <2>3. data = [[s EXCEPT !.port = p] EXCEPT !.drv = d]
    BY <1>1 DEF MachineInv
  <2> HIDE DEF b
  <2>4. DriverInv(d)
    BY <1>1, <2>1 DEF MachineInv, DriverInv, DriverType, BufferType
  <2> HIDE DEF d, p
  <2>5. MachineInv([[s EXCEPT !.port = p] EXCEPT !.drv = d])
    BY <1>1, <2>2, <2>4, WithPort, WithDriver
  <2> QED
    BY <1>2, <1>3, <2>3, <2>5
<1>4. CASE ~has_data_available(s.drv.tx_buffer)
  <2> DEFINE d == [s.drv EXCEPT !.trailing_byte_sent = t, !.error = e]
             p == [s.port EXCEPT !.STDR = DUMMY_BYTE]
  <2>1. t \in BOOLEAN /\ e \in I2CError
    <3>1. t \in BOOLEAN
      BY <1>1 DEF MachineInv, DriverInv, DriverType, initialised
    <3>2. e \in I2CError
      BY <1>1 DEF MachineInv, DriverInv, DriverType, I2CError
    <3> QED
      BY <3>1, <3>2
  <2>2. p \in PortType
    BY <1>1, Limits DEF MachineInv, PortType, Word, Nothing, DUMMY_BYTE
  <2>3. dummy = [[s EXCEPT !.port = p] EXCEPT !.drv = d]
    BY <1>1 DEF MachineInv
  <2> HIDE DEF t, e
  <2>4. DriverInv(d)
    BY <1>1, <2>1 DEF MachineInv, DriverInv, DriverType
  <2> HIDE DEF d, p
  <2>5. MachineInv([[s EXCEPT !.port = p] EXCEPT !.drv = d])
    BY <1>1, <2>2, <2>4, WithPort, WithDriver
  <2> QED
    BY <1>2, <1>4, <2>3, <2>5
<1> QED
  BY <1>3, <1>4

LEMMA HandleBitErrorInv ==
    ASSUME NEW m, MachineInv(m), NEW ssr, NEW answer \in Answers
    PROVE  MachineInv(HandleBitError(m, ssr, answer))
<1> DEFINE d == [m.drv EXCEPT !.state = "aborted", !.error = "bit_error"]
           p == [m.port EXCEPT !.SSR = @ \ {"BEF"}]
           w == [m EXCEPT !.port.SSR = @ \ {"BEF"}, !.drv.state = "aborted", !.drv.error = "bit_error"]
<1>1. DriverInv(d)
  BY DEF MachineInv, DriverInv, DriverType, State, I2CError
<1>2. p \in PortType
  BY DEF MachineInv, PortType
<1>3. w = [[m EXCEPT !.port = p] EXCEPT !.drv = d]
  BY DEF MachineInv
<1> HIDE DEF d, p
<1>4. MachineInv(w)
  BY <1>1, <1>2, <1>3, WithPort, WithDriver
<1>5. HandleBitError(m, ssr, answer) = IF "BEF" \notin ssr THEN m ELSE end_of_frame(w, answer)
  BY DEF HandleBitError
<1> HIDE DEF w
<1> QED
  BY <1>4, <1>5, EndOfFrameInv

\* The ISR from a state in which the thread is not setting a buffer.
LEMMA ServiceInterruptInv ==
    ASSUME NEW m, MachineInv(m), NEW ended \in Answers, NEW wanted \in Answers
    PROVE  MachineInv(ServiceInterrupt(m, ended, wanted))
<1> DEFINE ssr == m.port.SSR
           called == HandleAddress(m, ssr)
           over == HandleEndOfFrame(called, ssr, ended)
           received == HandleReceive(over, ssr)
           sent == HandleTransmit(received, TDF, wanted)
<1> HIDE DEF ssr
<1>1. MachineInv(called)
  BY HandleAddressInv
<1> HIDE DEF called
<1>2. MachineInv(over)
  BY <1>1, HandleEndOfFrameInv
<1> HIDE DEF over
<1>3. MachineInv(received)
  BY <1>2, HandleReceiveInv
<1> HIDE DEF received
<1>4. MachineInv(sent)
  BY <1>3, HandleTransmitInv
<1> HIDE DEF sent
<1>5. MachineInv(HandleBitError(sent, ssr, ended))
  BY <1>4, HandleBitErrorInv
<1> QED
  BY <1>5 DEF ServiceInterrupt, sent, received, over, called, ssr

------------------------------------------------------------------------------
LEMMA Initially == Init => Inv
<1> SUFFICES ASSUME Init PROVE Inv
  OBVIOUS
<1>1. (CHOOSE a \in Addresses : TRUE) \in Addresses
  BY SlaveHardwareAssumption
<1>2. port \in PortType
  BY <1>1, Limits DEF Init, PortType, Flags, Word, Nothing
<1>3. wire \in WireType
  BY <1>1, Limits DEF Init, WireType, Phase, Word, Nothing
<1>4. drv \in DriverType
  BY Limits DEF Init, DriverType, State, I2CError, NoBuffer
<1>5. app \in AppType
  BY Limits DEF Init, AppType
<1>6. Fits(drv.rx_buffer, drv.rx_array) /\ Fits(drv.tx_buffer, drv.tx_array) /\ app.pc = "idle"
  BY DEF Init, Fits, NoBuffer
<1>7. Bounded
  BY DEF Init, Bounded
<1> QED
  BY <1>2, <1>3, <1>4, <1>5, <1>6, <1>7 DEF Inv, TypeOK, Setting

LEMMA ISRStep == Inv /\ ISR => Inv'
<1> SUFFICES ASSUME Inv, ISR PROVE Inv'
  OBVIOUS
<1>1. app.pc = "idle" /\ TypeOK
  BY DEF Inv, ISR, Quiet
<1>2. MachineInv(Machine)
  BY <1>1 DEF Inv, TypeOK, MachineInv, Machine, DriverInv, Setting
<1>3. Silent \in Answers
  BY DEF Answers
<1>4. PICK ended \in Answers, wanted \in Answers :
        LET m == ServiceInterrupt(Machine, ended, wanted)
        IN  /\ drv' = m.drv /\ port' = m.port
            /\ app' = [app EXCEPT !.told = m.told, !.due = <<>>, !.given_up = GivesUp]
  BY <1>3 DEF ISR
<1> DEFINE m == ServiceInterrupt(Machine, ended, wanted)
<1>5. MachineInv(m)
  BY <1>2, <1>4, ServiceInterruptInv
<1>6. /\ drv' = m.drv /\ port' = m.port /\ wire' = wire
      /\ app' = [app EXCEPT !.told = m.told, !.due = <<>>, !.given_up = GivesUp]
  BY <1>4 DEF ISR
<1> HIDE DEF m
<1>7. DriverInv(drv') /\ port' \in PortType /\ wire' \in WireType /\ Bounded'
  BY <1>1, <1>5, <1>6 DEF MachineInv, TypeOK, Inv, Bounded
<1>8. app' \in AppType /\ app'.pc = "idle"
  <2>1. m.told \in Seq(Calls) /\ <<>> \in Seq(Calls)
    BY <1>5 DEF MachineInv
  <2>2. GivesUp \in BOOLEAN
    BY <1>1 DEF GivesUp, TypeOK, AppType
  <2> QED
    BY <1>1, <1>6, <2>1, <2>2 DEF TypeOK, AppType
<1> QED
  BY <1>7, <1>8 DEF Inv, TypeOK, DriverInv, Setting

------------------------------------------------------------------------------
(* The thread.                                                             *)

LEMMA ResetPortType == TypeOK => ResetPort(port) \in PortType
<1>1. Nothing \in Word /\ {} \in SUBSET Flags
  BY Limits DEF Word, Nothing
<1>2. ASSUME NEW p \in PortType PROVE ResetPort(p) \in PortType
  BY <1>1 DEF PortType, ResetPort
<1> QED
  BY <1>2 DEF TypeOK

LEMMA ListenStep == Inv /\ (listen \/ stop_listening) => Inv'
<1> SUFFICES ASSUME Inv, listen \/ stop_listening PROVE Inv'
  OBVIOUS
<1>1. app.pc = "idle" /\ TypeOK
  BY DEF Inv, listen, stop_listening, MayCall
<1>2. port' \in PortType
  <2>1. ResetPort(port) \in PortType
    BY <1>1, ResetPortType
  <2> QED
    BY <2>1 DEF listen, stop_listening, PortType
<1>3. wire' \in WireType /\ Bounded'
  <2> DEFINE phase == IF Matched \/ wire.phase = "address" THEN "ignored" ELSE wire.phase
  <2>1. wire' = [wire EXCEPT !.phase = phase, !.shift = Nothing] /\ wire \in WireType
    BY <1>1 DEF listen, stop_listening, TypeOK
  <2>2. phase \in Phase /\ phase # "sending" /\ Nothing \in Word
    BY <2>1, Limits DEF Phase, Matched, WireType, Word, Nothing
  <2> HIDE DEF phase
  <2> QED
    BY <2>1, <2>2 DEF WireType, Bounded
<1>4. app' \in AppType /\ app'.pc = "idle"
  <2>1. <<>> \in Seq(Calls)
    OBVIOUS
  <2> QED
    BY <1>1, <2>1 DEF listen, stop_listening, TypeOK, AppType
<1>5. DriverInv(drv')
  <2>1. DriverInv(drv)
    BY <1>1 DEF Inv, TypeOK, DriverInv, Setting
  <2>2. DriverInv([drv EXCEPT !.error = "ok"])
    BY <2>1, WithError DEF I2CError
  <2> QED
    BY <2>1, <2>2 DEF listen, stop_listening
<1> QED
  BY <1>2, <1>3, <1>4, <1>5 DEF Inv, TypeOK, DriverInv, Setting

\* What all three steps of initialise() have in common.
LEMMA SetStepType ==
    ASSUME Inv, SetBuffer \/ SetPointer \/ SetSize
    PROVE  TypeOK' /\ Bounded'
<1>1. TypeOK /\ \A n \in Sizes : n \in 0..MaxSize
  BY Limits DEF Inv
<1>2. port' \in PortType /\ wire' \in WireType
  BY <1>1 DEF SetBuffer, SetPointer, SetSize, TypeOK
<1>3. app' \in AppType
  <2>1. <<>> \in Seq(Calls) /\ 0 \in 0..MaxSize
    BY Limits
  <2> QED
    BY <1>1, <2>1 DEF SetBuffer, SetPointer, SetSize, TypeOK, AppType
<1>4. drv' \in DriverType
  <2>1. drv \in DriverType /\ app.n \in 0..MaxSize /\ 0 \in 0..MaxSize
    BY <1>1, Limits DEF TypeOK, AppType
  <2>2. CASE SetBuffer
    <3>1. reset(drv.rx_buffer) \in BufferType /\ reset(drv.tx_buffer) \in BufferType
      BY <2>1 DEF DriverType, BufferType, reset
    <3>2. drv' = [drv EXCEPT !.rx_buffer = reset(@)] \/ drv' = [drv EXCEPT !.tx_buffer = reset(@)]
      BY <2>2 DEF SetBuffer
    <3> QED
      BY <2>1, <3>1, <3>2 DEF DriverType, BufferType
  <2>3. CASE SetPointer
    BY <2>1, <2>3 DEF SetPointer, DriverType
  <2>4. CASE SetSize
    BY <2>1, <2>4 DEF SetSize, DriverType
  <2> QED
    BY <2>2, <2>3, <2>4
<1> QED
  BY <1>2, <1>3, <1>4 DEF TypeOK, Bounded, Inv, SetBuffer, SetPointer, SetSize

LEMMA SetBufferStep == PatientApp /\ Inv /\ SetBuffer => Inv'
<1> SUFFICES ASSUME PatientApp, Inv, SetBuffer PROVE Inv'
  OBVIOUS
<1>1. app.pc = "idle" /\ Quiet
  BY DEF SetBuffer, MayCall, Quiet
<1>2. DriverInv(drv)
  BY <1>1 DEF Inv, TypeOK, DriverInv, Setting
<1>3. PICK which \in {"rx", "tx"}, n \in Sizes :
        /\ app' = [app EXCEPT !.pc = "pointer", !.buffer = which, !.n = n, !.told = <<>>]
        /\ drv' = IF which = "rx" THEN [drv EXCEPT !.rx_buffer = reset(@)]
                                  ELSE [drv EXCEPT !.tx_buffer = reset(@)]
  BY DEF SetBuffer
<1>4. app'.pc = "pointer" /\ app'.buffer = which
  BY <1>3 DEF Inv, TypeOK, AppType
<1>5. CASE which = "rx"
  <2>1. drv'.rx_buffer.next_index = 0 /\ drv'.tx_buffer = drv.tx_buffer /\ drv'.tx_array = drv.tx_array
    BY <1>2, <1>3, <1>5 DEF DriverInv, DriverType, reset
  <2> QED
    BY <1>1, <1>2, <1>4, <1>5, <2>1, SetStepType
       DEF Inv, Setting, Halfway, Quiet, SetBuffer, Interrupt, TDF, DriverInv
<1>6. CASE which = "tx"
  <2>1. drv'.tx_buffer.next_index = 0 /\ drv'.rx_buffer = drv.rx_buffer /\ drv'.rx_array = drv.rx_array
    BY <1>2, <1>3, <1>6 DEF DriverInv, DriverType, reset
  <2> QED
    BY <1>1, <1>2, <1>4, <1>6, <2>1, SetStepType
       DEF Inv, Setting, Halfway, Quiet, SetBuffer, Interrupt, TDF, DriverInv
<1> QED
  BY <1>5, <1>6

LEMMA SetPointerStep == Inv /\ SetPointer => Inv'
<1> SUFFICES ASSUME Inv, SetPointer PROVE Inv'
  OBVIOUS
<1>1. TypeOK /\ Quiet /\ app.pc = "pointer" /\ app.buffer \in {"rx", "tx"}
  BY DEF Inv, SetPointer, TypeOK, AppType
<1>2. app'.pc = "size" /\ app'.buffer = app.buffer /\ app'.n = app.n
  BY <1>1 DEF SetPointer, TypeOK, AppType
<1>3. Quiet'
  BY <1>1 DEF SetPointer, Quiet, Interrupt, TDF
<1>4. CASE app.buffer = "rx"
  <2>1. /\ drv'.rx_buffer = drv.rx_buffer /\ drv'.rx_array = app.n
        /\ drv'.tx_buffer = drv.tx_buffer /\ drv'.tx_array = drv.tx_array
    BY <1>1, <1>4 DEF SetPointer, TypeOK, DriverType
  <2> QED
    BY <1>1, <1>2, <1>3, <1>4, <2>1, SetStepType DEF Inv, Setting, Halfway
<1>5. CASE app.buffer = "tx"
  <2>1. /\ drv'.tx_buffer = drv.tx_buffer /\ drv'.tx_array = app.n
        /\ drv'.rx_buffer = drv.rx_buffer /\ drv'.rx_array = drv.rx_array
    BY <1>1, <1>5 DEF SetPointer, TypeOK, DriverType
  <2> QED
    BY <1>1, <1>2, <1>3, <1>5, <2>1, SetStepType DEF Inv, Setting, Halfway
<1> QED
  BY <1>1, <1>4, <1>5

LEMMA SetSizeStep == Inv /\ SetSize => Inv'
<1> SUFFICES ASSUME Inv, SetSize PROVE Inv'
  OBVIOUS
<1>1. TypeOK /\ app.pc = "size" /\ app.buffer \in {"rx", "tx"} /\ app.n \in Nat
  BY Limits DEF Inv, SetSize, TypeOK, AppType
<1>2. app'.pc = "idle"
  BY <1>1 DEF SetSize, TypeOK, AppType
<1>3. CASE app.buffer = "rx"
  <2>1. /\ drv'.rx_buffer.size = app.n /\ drv'.rx_buffer.next_index = drv.rx_buffer.next_index
        /\ drv'.rx_array = drv.rx_array
        /\ drv'.tx_buffer = drv.tx_buffer /\ drv'.tx_array = drv.tx_array
    BY <1>1, <1>3 DEF SetSize, TypeOK, DriverType
  <2> QED
    BY <1>1, <1>2, <1>3, <2>1, SetStepType DEF Inv, Setting, Halfway, Fits
<1>4. CASE app.buffer = "tx"
  <2>1. /\ drv'.tx_buffer.size = app.n /\ drv'.tx_buffer.next_index = drv.tx_buffer.next_index
        /\ drv'.tx_array = drv.tx_array
        /\ drv'.rx_buffer = drv.rx_buffer /\ drv'.rx_array = drv.rx_array
    BY <1>1, <1>4 DEF SetSize, TypeOK, DriverType
  <2> QED
    BY <1>1, <1>2, <1>4, <2>1, SetStepType DEF Inv, Setting, Halfway, Fits
<1> QED
  BY <1>1, <1>3, <1>4

------------------------------------------------------------------------------
(* The bus.                                                                *)

LEMMA CallsAtEndType == TypeOK => CallsAtEnd \in Seq(Calls)
<1> SUFFICES ASSUME TypeOK PROVE CallsAtEnd \in Seq(Calls)
  OBVIOUS
<1>1. wire.count \in Nat /\ drv.rx_buffer.size \in Nat /\ wire.address \in Addresses
  BY Limits DEF TypeOK, WireType, DriverType
<1>2. Min({wire.count, drv.rx_buffer.size}) \in Nat
  <2> DEFINE S == {wire.count, drv.rx_buffer.size}
  <2>1. \E x \in S : \A y \in S : x <= y
    BY <1>1
  <2>2. (CHOOSE x \in S : \A y \in S : x <= y) \in S
    BY <2>1
  <2> QED
    BY <1>1, <2>2 DEF Min
<1>3. \A name \in {"after_receive", "before_transmit", "after_transmit"}, length \in Nat :
         <<Call(name, length, wire.address)>> \in Seq(Calls)
  BY <1>1 DEF Call, Calls
<1> QED
  BY <1>2, <1>3 DEF CallsAtEnd

LEMMA CalledType ==
    ASSUME TypeOK, NEW a \in Addresses, NEW direction \in {"write", "read"}, Called(a, direction)
    PROVE  port' \in PortType /\ wire' \in WireType /\ Bounded'
<1>1. Nothing \in Word /\ port.STDR \in Word /\ "AVF" \in Flags /\ 0 \in 0..MaxFrame /\ 0 < MaxFrame
  BY Limits DEF TypeOK, PortType, Word, Nothing, Flags
<1>2. port' \in PortType
  <2> DEFINE data == IF direction = "read" THEN Nothing ELSE port.STDR
  <2>1. data \in Word /\ port \in PortType
    BY <1>1 DEF TypeOK
  <2>2. port' = [port EXCEPT !.SSR = @ \cup {"AVF"}, !.SASR = a, !.STDR = data]
    BY DEF Called
  <2> HIDE DEF data
  <2> QED
    BY <1>1, <2>1, <2>2 DEF PortType
<1>3. wire' \in WireType /\ wire'.count = 0
  BY <1>1 DEF Called, WireType, Phase
<1> QED
  BY <1>1, <1>2, <1>3 DEF Bounded

\* What the bus leaves alone.
LEMMA BusKeeps ==
    ASSUME Inv, UNCHANGED drv, port' \in PortType, wire' \in WireType, Bounded',
           NEW calls \in Seq(Calls), NEW late \in BOOLEAN,
           app' = [app EXCEPT !.told = <<>>, !.due = @ \o calls, !.late = late],
           app.pc = "idle" \/ Quiet'
    PROVE  Inv'
<1>1. TypeOK /\ <<>> \in Seq(Calls) /\ app.due \o calls \in Seq(Calls)
  BY DEF Inv, TypeOK, AppType
<1>2. app' \in AppType /\ app'.pc = app.pc /\ app'.buffer = app.buffer /\ app'.n = app.n
  BY <1>1 DEF TypeOK, AppType
<1>3. TypeOK'
  BY <1>1, <1>2 DEF TypeOK
<1> QED
  BY <1>2, <1>3 DEF Inv, Setting, Halfway

LEMMA BusStep == PatientApp /\ Inv /\ Bus => Inv'
<1> SUFFICES ASSUME PatientApp, Inv, Bus PROVE Inv'
  OBVIOUS
<1>1. TypeOK /\ UseBus /\ drv' = drv /\ app.late \in BOOLEAN
  BY DEF Inv, Bus, TypeOK, AppType
<1>2. /\ 0 \in 0..MaxFrame /\ Nothing \in Word /\ port.STDR \in Word
      /\ wire.count \in 0..MaxFrame
  BY <1>1, Limits DEF TypeOK, PortType, WireType, Word, Nothing
<1>3. \A calls : Due(calls) => app' = [app EXCEPT !.told = <<>>, !.due = @ \o calls, !.late = app.late]
  BY <1>1 DEF Due, TypeOK, AppType
<1>4. \A calls : DueByte(calls) =>
        app' = [app EXCEPT !.told = <<>>, !.due = @ \o calls, !.late = app.late \/ Interrupt]
  BY DEF DueByte
<1>5. <<>> \in Seq(Calls) /\ CallsAtEnd \in Seq(Calls) /\ (app.late \/ Interrupt) \in BOOLEAN
  BY <1>1, CallsAtEndType
<1>6. CASE ThreadInTime /\ StartCondition /\ Due(CallsAtEnd)
  <2>1. app.pc = "idle"
    BY <1>6 DEF ThreadInTime
  <2>2. port' \in PortType
    BY <1>1, <1>6 DEF StartCondition, Raise, TypeOK, PortType, Flags
  <2>3. wire' \in WireType /\ Bounded'
    BY <1>1, <1>6 DEF StartCondition, TypeOK, WireType, Phase, Bounded
  <2> QED
    BY <1>1, <1>3, <1>5, <1>6, <2>1, <2>2, <2>3, BusKeeps
<1>7. CASE StopCondition /\ Due(CallsAtEnd)
  <2>1. port' \in PortType
    BY <1>1, <1>7 DEF StopCondition, Raise, TypeOK, PortType, Flags
  <2>2. wire' \in WireType /\ wire'.phase = "idle" /\ Bounded'
    BY <1>1, <1>7 DEF StopCondition, TypeOK, WireType, Phase, Bounded
  <2>3. app.pc = "idle" \/ Quiet'
    <3>1. ASSUME Quiet PROVE Quiet'
      <4>1. wire.phase = "ignored" /\ port' = port
        BY <1>7, <3>1 DEF StopCondition, Quiet, Matched
      <4> QED
        BY <2>2, <3>1, <4>1 DEF Quiet, Interrupt, TDF
    <3> QED
      BY <3>1 DEF Inv
  <2> QED
    BY <1>1, <1>3, <1>5, <1>7, <2>1, <2>2, <2>3, BusKeeps
<1>8. CASE \E a \in Addresses : Called(a, "write") /\ DueByte(<<>>)
  <2>1. PICK a \in Addresses : Called(a, "write") /\ DueByte(<<>>)
    BY <1>8
  <2>2. port' \in PortType /\ wire' \in WireType /\ Bounded'
    BY <1>1, <2>1, CalledType
  <2>3. app.pc = "idle"
    BY <2>1 DEF Called, Inv, Quiet
  <2> QED
    BY <1>1, <1>4, <1>5, <2>1, <2>2, <2>3, BusKeeps
<1>9. CASE \E a \in Addresses : Called(a, "read") /\ DueByte(<<Call("before_transmit", 0, a)>>)
  <2>1. PICK a \in Addresses : Called(a, "read") /\ DueByte(<<Call("before_transmit", 0, a)>>)
    BY <1>9
  <2>2. port' \in PortType /\ wire' \in WireType /\ Bounded'
    BY <1>1, <2>1, CalledType
  <2>3. app.pc = "idle"
    BY <2>1 DEF Called, Inv, Quiet
  <2>4. <<Call("before_transmit", 0, a)>> \in Seq(Calls)
    BY DEF Call, Calls
  <2> QED
    BY <1>1, <1>4, <1>5, <2>1, <2>2, <2>3, <2>4, BusKeeps
<1>10. CASE (SomeoneElseCalled \/ ByteWritten) /\ DueByte(<<>>)
  <2>1. port' \in PortType
    <3>1. SomeoneElseCalled => port' \in PortType
      BY <1>1 DEF SomeoneElseCalled, TypeOK
    <3>2. ByteWritten => port' \in PortType
      <4> DEFINE first == wire.count = 0
      <4>1. first \in BOOLEAN /\ port \in PortType
        BY <1>1 DEF TypeOK
      <4>2. ByteWritten => port' = [port EXCEPT !.SSR = @ \cup {"RDF"}, !.SOF = first]
        BY DEF ByteWritten
      <4> HIDE DEF first
      <4> QED
        BY <4>1, <4>2 DEF PortType, Flags
    <3> QED
      BY <1>10, <3>1, <3>2
  <2>2. wire' \in WireType /\ Bounded'
    BY <1>1, <1>2, <1>10, Limits DEF SomeoneElseCalled, ByteWritten, TypeOK, WireType, Phase, Bounded
  <2>3. app.pc = "idle"
    BY <1>10 DEF SomeoneElseCalled, ByteWritten, Inv, Quiet
  <2>4. app' = [app EXCEPT !.told = <<>>, !.due = @ \o <<>>, !.late = app.late \/ Interrupt]
    BY <1>10 DEF DueByte
  <2> QED
    BY <1>1, <1>5, <2>1, <2>2, <2>3, <2>4, BusKeeps
<1>11. CASE ShiftOut /\ Due(<<>>)
  <2>1. port' \in PortType /\ wire' \in WireType /\ Bounded'
    BY <1>1, <1>2, <1>11 DEF ShiftOut, TypeOK, PortType, WireType, Bounded, Inv
  <2>2. app.pc = "idle"
    BY <1>11 DEF ShiftOut, Inv, Quiet
  <2> QED
    BY <1>1, <1>3, <1>5, <1>11, <2>1, <2>2, BusKeeps
<1>12. CASE \E answer \in {"ACK", "NACK"} : ByteRead(answer) /\ DueByte(<<>>)
  <2>1. port' \in PortType
    BY <1>1, <1>12 DEF ByteRead, TypeOK
  <2>2. wire' \in WireType /\ Bounded'
    <3>1. wire.count + 1 \in 0..MaxFrame
      BY <1>2, <1>12, Limits DEF ByteRead, Bounded, Inv
    <3>2. PICK answer \in {"ACK", "NACK"} : ByteRead(answer)
      BY <1>12
    <3>3. wire' \in WireType
      BY <1>1, <1>2, <3>1, <3>2 DEF ByteRead, TypeOK, WireType, Phase
    <3> QED
      BY <1>1, <3>2, <3>3 DEF ByteRead, Bounded, TypeOK, WireType
  <2>3. app.pc = "idle"
    BY <1>12 DEF ByteRead, Inv, Quiet
  <2> QED
    BY <1>1, <1>4, <1>5, <1>12, <2>1, <2>2, <2>3, BusKeeps
<1>13. CASE BitError /\ Due(<<>>)
  <2>1. port' \in PortType
    BY <1>1, <1>13 DEF BitError, Raise, TypeOK, PortType, Flags
  <2>2. wire' \in WireType /\ Bounded'
    BY <1>1, <1>2, <1>13 DEF BitError, TypeOK, WireType, Phase, Bounded
  <2>3. app.pc = "idle"
    BY <1>13 DEF BitError, Inv, Quiet
  <2> QED
    BY <1>1, <1>3, <1>5, <1>13, <2>1, <2>2, <2>3, BusKeeps
<1> QED
  BY <1>1, <1>6, <1>7, <1>8, <1>9, <1>10, <1>11, <1>12, <1>13 DEF UseBus

------------------------------------------------------------------------------
LEMMA Step == PatientApp /\ Inv /\ [Next]_vars => Inv'
<1> SUFFICES ASSUME PatientApp, Inv, [Next]_vars PROVE Inv'
  OBVIOUS
<1>1. CASE ISR
  BY <1>1, ISRStep
<1>2. CASE Thread
  BY <1>2, ListenStep, SetBufferStep, SetPointerStep, SetSizeStep DEF Thread
<1>3. CASE Bus
  BY <1>3, BusStep
<1>4. CASE UNCHANGED vars
  BY <1>4 DEF vars, Inv, TypeOK, Bounded, Setting, Halfway, Quiet, Interrupt, TDF
<1> QED
  BY <1>1, <1>2, <1>3, <1>4 DEF Next

LEMMA Implies == Inv => TypeOK /\ CursorsInArrays
<1> SUFFICES ASSUME Inv PROVE CursorsInArrays
  BY DEF Inv
<1>1. drv.rx_array \in Nat /\ drv.tx_array \in Nat
  BY Limits DEF Inv, TypeOK, DriverType
<1> QED
  BY <1>1 DEF Inv, Fits, Halfway, CursorsInArrays

\* The driver's fields, the registers and the application keep their types.
THEOREM TypeCorrect == ASSUME PatientApp PROVE Spec => []TypeOK
<1>1. Inv /\ [Next]_vars => Inv'
  BY Step
<1>2. Inv => TypeOK
  BY Implies
<1> QED
  BY <1>1, <1>2, Initially, PTL DEF Spec

\* Neither the ISR nor the thread puts a cursor outside the array the application passed
\* last, if the thread passes one only while the bus is idle (I2CBuffer::initialise()).
THEOREM CursorsStayInArrays == ASSUME PatientApp PROVE Spec => []CursorsInArrays
<1>1. Inv /\ [Next]_vars => Inv'
  BY Step
<1>2. Inv => CursorsInArrays
  BY Implies
<1> QED
  BY <1>1, <1>2, Initially, PTL DEF Spec
==============================================================================
