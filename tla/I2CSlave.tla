------------------------------ MODULE I2CSlave ------------------------------
(***************************************************************************)
(* IMX_RT1060_I2CSlave: the driver's interrupt service routine, the        *)
(* callbacks it makes, and the application's thread, over the peripheral   *)
(* of LPI2CSlave.                                                          *)
(*                                                                         *)
(* The application may set a buffer from a callback, which is part of the  *)
(* ISR, or from its thread, where the three assignments of                 *)
(* I2CBuffer::initialise() are three steps the ISR can preempt.            *)
(***************************************************************************)
EXTENDS LPI2CSlave, I2CBuffer, FiniteSetsExt

CONSTANTS
    Sizes,           \* sizes of the arrays the application passes from its thread
    CallbackSizes,   \* and from its callbacks
    PatientApp,      \* TRUE: the thread calls the driver only while the bus is idle
    PromptISR        \* TRUE: the ISR runs within the time of one byte

ASSUME SlaveAssumption ==
    /\ Sizes \subseteq 0..MaxSize /\ CallbackSizes \subseteq 0..MaxSize
    /\ {PatientApp, PromptISR} \subseteq BOOLEAN

VARIABLES
    drv,      \* the fields of IMX_RT1060_I2CSlave
    app       \* the application: its thread, and the callbacks it has had and is due

vars == <<port, wire, drv, app>>

State == {"receiving", "transmitting", "idle", "aborted"}
I2CError == {"ok", "buffer_overflow", "buffer_underflow", "bit_error"}

\* rx_array and tx_array are the sizes of the arrays the buffers point at.
DriverType ==
    [state : State, error : I2CError, address_called : Addresses \cup {0},
     trailing_byte_sent : BOOLEAN,
     rx_buffer : [size : 0..MaxSize, next_index : 0..MaxSize], rx_array : 0..MaxSize,
     tx_buffer : [size : 0..MaxSize, next_index : 0..MaxSize], tx_array : 0..MaxSize]

\* The callbacks of I2CSlave; only after_receive has a length.
Call(name, length, address) == [name |-> name, length |-> length, address |-> address]
Calls ==
    [name : {"after_receive", "before_transmit", "after_transmit"},
     length : Nat, address : Addresses \cup {0}]

\* told: the callbacks the ISR made, if the last step was its. due: those the frames on
\* the bus have called for since it ran before. given_up: the driver has taken the bit
\* error of the frame before for one of the frame on the bus. (History, but for pc,
\* buffer and n: no guard reads them.)
AppType ==
    [pc : {"idle", "pointer", "size"}, buffer : {"rx", "tx"}, n : 0..MaxSize,
     told : Seq(Calls), due : Seq(Calls), late : BOOLEAN, given_up : BOOLEAN]

Init ==
    /\ port = [SEN |-> FALSE, SSR |-> {}, SASR |-> CHOOSE a \in Addresses : TRUE,
               SOF |-> FALSE, STDR |-> Nothing]
    /\ wire = [phase |-> "idle", direction |-> "write", address |-> CHOOSE a \in Addresses : TRUE,
               count |-> 0, shift |-> Nothing]
    /\ drv = [state |-> "idle", error |-> "ok", address_called |-> 0, trailing_byte_sent |-> FALSE,
              rx_buffer |-> NoBuffer, tx_buffer |-> NoBuffer, rx_array |-> 0, tx_array |-> 0]
    /\ app = [pc |-> "idle", buffer |-> "rx", n |-> 0, told |-> <<>>, due |-> <<>>, late |-> FALSE,
              given_up |-> FALSE]

------------------------------------------------------------------------------
(***************************************************************************)
(* The interrupt service routine. Its handlers work on the driver's        *)
(* fields, the registers and the list of callbacks made.                   *)
(***************************************************************************)
Machine == [drv |-> drv, port |-> port, told |-> <<>>]

\* What the application does in a callback: nothing, or set one of the buffers.
Silent == [buffer |-> "none", n |-> 0]
Answers == [buffer : {"rx", "tx"}, n : CallbackSizes] \cup {Silent}

Set(d, a) ==
    CASE a.buffer = "rx" -> [d EXCEPT !.rx_buffer = initialise(a.n), !.rx_array = a.n]
      [] a.buffer = "tx" -> [d EXCEPT !.tx_buffer = initialise(a.n), !.tx_array = a.n]
      [] OTHER -> d

Tell(m, name, length, answer) ==
    [m EXCEPT !.told = Append(@, Call(name, length, m.drv.address_called)),
              !.drv = Set(@, answer)]

\* Mutation: trailing_byte_sent is not reset.
end_of_frame_trailing(m, answer) ==
    LET ended ==
          CASE m.drv.state = "receiving" ->
                  Tell(m, "after_receive", get_bytes_transferred(m.drv.rx_buffer), answer)
            [] m.drv.state = "transmitting" -> Tell(m, "after_transmit", 0, answer)
            [] OTHER -> m
    IN  [ended EXCEPT !.drv.state = "idle"]

end_of_frame(m, answer) ==
    LET ended ==
          CASE m.drv.state = "receiving" ->
                  Tell(m, "after_receive", get_bytes_transferred(m.drv.rx_buffer), answer)
            [] m.drv.state = "transmitting" ->
                  Tell([m EXCEPT !.drv.trailing_byte_sent = FALSE], "after_transmit", 0, answer)
            [] OTHER -> m
    IN  [ended EXCEPT !.drv.state = "idle"]

\* Reading SASR clears AVF.
HandleAddress(m, ssr) ==
    IF "AVF" \notin ssr THEN m
    ELSE [m EXCEPT !.drv.address_called = m.port.SASR, !.port.SSR = @ \ {"AVF"}]

HandleEndOfFrame(m, ssr, answer) ==
    IF ssr \cap {"RSF", "SDF"} = {} THEN m
    ELSE end_of_frame([m EXCEPT !.port.SSR = @ \ {"RSF", "SDF"}], answer)

\* The first byte of a frame starts the buffer afresh, if there is one.
StartReceiving(d) ==
    IF ~initialised(d.rx_buffer) THEN [d EXCEPT !.error = "ok"]
    ELSE [d EXCEPT !.error = "ok", !.state = "receiving", !.rx_buffer = reset(@)]

\* Mutation: a byte the driver has no room for is left in SRDR.
HandleReceive_unread(m, ssr) ==
    IF "RDF" \notin ssr THEN m
    ELSE LET d == IF m.port.SOF THEN StartReceiving(m.drv) ELSE m.drv
         IN  IF initialised(d.rx_buffer)
             THEN [m EXCEPT !.port.SSR = @ \ {"RDF"},
                            !.drv = [d EXCEPT !.rx_buffer = write(@),
                                              !.error = IF all_done(d.rx_buffer) THEN "buffer_overflow"
                                                                                 ELSE @]]
             ELSE [m EXCEPT !.drv = [d EXCEPT !.error = "buffer_overflow", !.state = "idle"]]

\* Reading SRDR clears RDF. A byte that does not fit is swallowed, never NACKed.
HandleReceive(m, ssr) ==
    IF "RDF" \notin ssr THEN m
    ELSE LET d == IF m.port.SOF THEN StartReceiving(m.drv) ELSE m.drv
             taken ==
               IF initialised(d.rx_buffer)
               THEN [d EXCEPT !.rx_buffer = write(@),
                              !.error = IF all_done(d.rx_buffer) THEN "buffer_overflow" ELSE @]
               ELSE [d EXCEPT !.error = "buffer_overflow", !.state = "idle"]
         IN  [m EXCEPT !.drv = taken, !.port.SSR = @ \ {"RDF"}]

\* Mutation: a new frame carries on where the last one stopped.
StartTransmitting_resumed(m, answer) ==
    IF m.drv.state \notin {"idle", "aborted"} THEN m
    ELSE Tell([m EXCEPT !.drv.error = "ok", !.drv.state = "transmitting"], "before_transmit", 0, answer)

\* The first byte of a frame: the application may still choose what to send.
StartTransmitting(m, answer) ==
    IF m.drv.state \notin {"idle", "aborted"} THEN m
    ELSE LET asked == Tell([m EXCEPT !.drv.error = "ok", !.drv.state = "transmitting"],
                           "before_transmit", 0, answer)
         IN  [asked EXCEPT !.drv.tx_buffer = IF initialised(@) THEN reset(@) ELSE @]

\* One byte too many is always asked for: only the second dummy is an underflow.
HandleTransmit(m, tdf, answer) ==
    IF ~tdf THEN m
    ELSE LET s == StartTransmitting(m, answer)
             d == s.drv
         IN  IF has_data_available(d.tx_buffer)
             THEN [s EXCEPT !.port.STDR = d.tx_buffer.next_index, !.drv.tx_buffer = read(@, 1)]
             ELSE [s EXCEPT
                     !.port.STDR = DUMMY_BYTE,
                     !.drv.trailing_byte_sent = @ \/ initialised(d.tx_buffer),
                     !.drv.error = IF ~initialised(d.tx_buffer) \/ d.trailing_byte_sent
                                   THEN "buffer_underflow" ELSE @]

HandleBitError(m, ssr, answer) ==
    IF "BEF" \notin ssr THEN m
    ELSE end_of_frame([m EXCEPT !.port.SSR = @ \ {"BEF"}, !.drv.state = "aborted",
                                !.drv.error = "bit_error"], answer)

\* Mutation: the end of a frame is handled after the first byte of the next one.
ServiceInterrupt_end_last(m, ended, wanted) ==
    LET ssr == m.port.SSR
        taken == HandleTransmit(HandleReceive(HandleAddress(m, ssr), ssr), TDF, wanted)
    IN  HandleBitError(HandleEndOfFrame(taken, ssr, ended), ssr, ended)

\* SSR is read once. ended and wanted are the application's answers to the
\* callbacks at the end and at the start of a frame.
ServiceInterrupt(m, ended, wanted) ==
    LET ssr == m.port.SSR
        over == HandleEndOfFrame(HandleAddress(m, ssr), ssr, ended)
    IN  HandleBitError(HandleTransmit(HandleReceive(over, ssr), TDF, wanted), ssr, ended)

\* A bit error does not interrupt. When the next interrupt is a byte of the next frame,
\* the handler of the error ends that frame, to the driver, until its STOP or repeated START.
GivesUp ==
    IF "BEF" \in port.SSR /\ ("RDF" \in port.SSR \/ TDF) THEN TRUE
    ELSE app.given_up /\ port.SSR \cap {"RSF", "SDF"} = {}

ISR ==
    /\ Interrupt
    /\ \E ended \in (IF port.SSR \cap {"RSF", "SDF", "BEF"} # {} THEN Answers ELSE {Silent}),
          wanted \in (IF TDF THEN Answers ELSE {Silent}) :
          LET m == ServiceInterrupt(Machine, ended, wanted)
          IN  /\ drv' = m.drv /\ port' = m.port
              /\ app' = [app EXCEPT !.told = m.told, !.due = <<>>, !.given_up = GivesUp]
    /\ UNCHANGED wire

------------------------------------------------------------------------------
(***************************************************************************)
(* The application's thread, which the ISR preempts.                       *)
(***************************************************************************)
MayCall == app.pc = "idle" /\ ~Interrupt /\ (PatientApp => wire.phase \in {"idle", "ignored"})

\* listen() after stop_listening(), the only state it resets being _error. The bus
\* may be in the middle of somebody's frame.
listen ==
    /\ MayCall
    /\ port' = [ResetPort(port) EXCEPT !.SEN = TRUE]
    /\ wire' = [wire EXCEPT !.phase = IF Matched \/ @ = "address" THEN "ignored" ELSE @,
                            !.shift = Nothing]
    /\ drv' = [drv EXCEPT !.error = "ok"]
    /\ app' = [app EXCEPT !.told = <<>>, !.due = <<>>]

stop_listening ==
    /\ MayCall /\ port.SEN
    /\ port' = ResetPort(port)
    /\ wire' = [wire EXCEPT !.phase = IF Matched \/ @ = "address" THEN "ignored" ELSE @,
                            !.shift = Nothing]
    /\ app' = [app EXCEPT !.told = <<>>, !.due = <<>>]
    /\ UNCHANGED drv

\* set_receive_buffer() or set_transmit_buffer(): initialise() resets the cursor...
SetBuffer ==
    /\ MayCall
    /\ \E which \in {"rx", "tx"}, n \in Sizes :
          /\ app' = [app EXCEPT !.pc = "pointer", !.buffer = which, !.n = n, !.told = <<>>]
          /\ drv' = IF which = "rx" THEN [drv EXCEPT !.rx_buffer = reset(@)]
                                    ELSE [drv EXCEPT !.tx_buffer = reset(@)]
    /\ UNCHANGED <<port, wire>>

\* ... then points at the new array...
SetPointer ==
    /\ app.pc = "pointer" /\ ~Interrupt
    /\ app' = [app EXCEPT !.pc = "size", !.told = <<>>]
    /\ drv' = IF app.buffer = "rx" THEN [drv EXCEPT !.rx_array = app.n]
                                   ELSE [drv EXCEPT !.tx_array = app.n]
    /\ UNCHANGED <<port, wire>>

\* ... and then notes its size.
SetSize ==
    /\ app.pc = "size" /\ ~Interrupt
    /\ app' = [app EXCEPT !.pc = "idle", !.buffer = "rx", !.n = 0, !.told = <<>>]
    /\ drv' = IF app.buffer = "rx" THEN [drv EXCEPT !.rx_buffer.size = app.n]
                                   ELSE [drv EXCEPT !.tx_buffer.size = app.n]
    /\ UNCHANGED <<port, wire>>

Thread == listen \/ stop_listening \/ SetBuffer \/ SetPointer \/ SetSize

------------------------------------------------------------------------------
(***************************************************************************)
(* The bus, and the callbacks its frames call for.                         *)
(***************************************************************************)
Due(calls) == app' = [app EXCEPT !.told = <<>>, !.due = @ \o calls]

\* Events that take the time of a byte: an interrupt pending by then is late.
DueByte(calls) ==
    /\ PromptISR => ~Interrupt
    /\ app' = [app EXCEPT !.told = <<>>, !.due = @ \o calls, !.late = @ \/ Interrupt]

\* A frame that is over was a block of data received, a block sent, or nothing.
CallsAtEnd ==
    CASE Matched /\ wire.direction = "read" -> <<Call("after_transmit", 0, wire.address)>>
      [] Matched /\ wire.direction = "write" /\ wire.count > 0 /\ initialised(drv.rx_buffer) ->
            <<Call("after_receive", Min({wire.count, drv.rx_buffer.size}), wire.address)>>
      [] OTHER -> <<>>

\* The address and data bytes take the time of a byte; START, STOP and the move
\* from STDR to the shift register are immediate.
ThreadInTime == PatientApp => app.pc = "idle"

UseBus ==
    \/ ThreadInTime /\ StartCondition /\ Due(CallsAtEnd)
    \/ StopCondition /\ Due(CallsAtEnd)
    \/ \E a \in Addresses : Called(a, "write") /\ DueByte(<<>>)
    \/ \E a \in Addresses : Called(a, "read") /\ DueByte(<<Call("before_transmit", 0, a)>>)
    \/ (SomeoneElseCalled \/ ByteWritten) /\ DueByte(<<>>)
    \/ ShiftOut /\ Due(<<>>)
    \/ \E answer \in {"ACK", "NACK"} : ByteRead(answer) /\ DueByte(<<>>)
    \/ BitError /\ Due(<<>>)

Bus == UseBus /\ UNCHANGED drv

Next == ISR \/ Thread \/ Bus

Spec == Init /\ [][Next]_vars

\* The interrupt is taken, and a call of the thread returns.
FairSpec == Spec /\ WF_vars(ISR) /\ WF_vars(SetPointer \/ SetSize)

------------------------------------------------------------------------------
\* Every field of the driver, every register and the application keep their types.
TypeOK ==
    /\ port \in PortType /\ wire \in WireType
    /\ drv \in DriverType /\ app \in AppType

\* The cursors stay inside the arrays the application passed last, although the
\* array and its size are set one after the other.
CursorsInArrays ==
    /\ drv.rx_buffer.next_index <= drv.rx_array
    /\ drv.tx_buffer.next_index <= drv.tx_array

\* Every run of the ISR makes the callbacks that are due, no fewer and no others: in
\* the order of the frames on the bus, once for each, with that frame's address and
\* number of bytes, although a run may find the end of one frame and the start of
\* the next. (But for a frame the driver has given up for a bit error of the frame before.)
Anonymous(calls) == [i \in DOMAIN calls |-> [name |-> calls[i].name, length |-> calls[i].length]]
CallbacksAreDue ==
    [][ISR => \/ app.given_up
              \/ /\ Anonymous(app'.told) = Anonymous(app.due)
                 /\ ~app.late => app'.told = app.due]_vars

\* The byte on its way to the master is the next byte of the transmit buffer, from
\* the first one in every frame, and a dummy once they have all been sent. (But for a frame
\* the driver has given up: it begins with byte 0 a second time.)
RightByte ==
    ~app.given_up /\ wire.phase = "sending" /\ wire.shift # Nothing =>
        wire.shift = IF wire.count < drv.tx_buffer.size THEN wire.count ELSE DUMMY_BYTE

\* When a frame is over, an underflow is reported if and only if the master read
\* more than there was, and an overflow if and only if it wrote more than there was
\* room for, although the driver is asked for a byte more than the master reads.
ErrorIsTrue ==
    ~app.late /\ ~Interrupt /\ "BEF" \notin port.SSR /\ wire.phase \in {"receiving", "over"} /\ wire.count > 0 =>
        drv.error =
            IF wire.direction = "read"
            THEN IF wire.count > drv.tx_buffer.size THEN "buffer_underflow" ELSE "ok"
            ELSE IF wire.count > drv.rx_buffer.size THEN "buffer_overflow" ELSE "ok"

\* The slave never holds SCL for ever.
ClockReleased == Stalled ~> ~Stalled
==============================================================================
