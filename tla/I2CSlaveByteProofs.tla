------------------------- MODULE I2CSlaveByteProofs -------------------------
(***************************************************************************)
(* What the slave tells is right, for every size of its buffers, length of *)
(* the frames and lateness of the ISR, also when the application chooses a *)
(* buffer in a callback: the bytes it sends, the error it reports after a  *)
(* frame and the callbacks it makes.                                       *)
(*                                                                         *)
(* The driver is asked for a byte ahead of the one the master reads, and   *)
(* the end of a frame may be noticed after the next one has begun. So the  *)
(* invariant says which byte is in STDR and which one on the wire, how far *)
(* the cursor is ahead of them, how many bytes have been asked for and     *)
(* received, and which callbacks the ISR is going to make; and that while  *)
(* the end of the frame before has not been handled nothing of it is left. *)
(*                                                                         *)
(* A bit error that is handled late ends the next frame, to the driver     *)
(* (given_up): of that frame little is known but that its end is handled   *)
(* like any other's, and that the ISR must have been late.                 *)
(*                                                                         *)
(* Without the fault "deaf": if a bit error hides the STOP from the slave, *)
(* the frame after it carries on where the one before was given up.        *)
(***************************************************************************)
EXTENDS I2CSlaveProofs

Ending == port.SSR \cap {"RSF", "SDF"} # {}

\* The byte of a buffer that the master reads after k others, and where the cursor is
\* when k bytes have been handed to the peripheral.
ByteOf(b, k) == IF k < b.size THEN k ELSE DUMMY_BYTE
CursorAt(b, k) == b.next_index = IF k < b.size THEN k ELSE b.size

Untouched == wire.count = 0 /\ wire.shift = Nothing /\ port.STDR = Nothing

\* The byte on the wire, and the one that waits in STDR.
Underway(b, stdr) ==
    LET n == wire.count
    IN  /\ wire.shift = Nothing /\ stdr = Nothing => CursorAt(b, n)
        /\ wire.shift = Nothing /\ stdr # Nothing => stdr = ByteOf(b, n) /\ CursorAt(b, n + 1)
        /\ wire.shift # Nothing /\ stdr = Nothing => wire.shift = ByteOf(b, n) /\ CursorAt(b, n + 1)
        /\ wire.shift # Nothing /\ stdr # Nothing =>
              wire.shift = ByteOf(b, n) /\ stdr = ByteOf(b, n + 1) /\ CursorAt(b, n + 2)

\* Which flags can be up in which phase of a frame, and when the driver is idle.
FlagsInv ==
    /\ "RDF" \in port.SSR => wire.phase = "receiving"
    /\ "BEF" \in port.SSR => wire.phase = "over" \/ Ending
    /\ ~Ending /\ wire.phase \in {"idle", "address", "ignored"} => drv.state = "idle"

\* A bit error is still pending in the next frame, or has ended it to the driver, only if
\* the ISR was late. What the driver then goes on with ends when the frame does.
GivenUpInv ==
    /\ "BEF" \in port.SSR /\ wire.phase \notin {"idle", "address", "over"} => app.late
    /\ app.given_up => app.late
    /\ app.given_up /\ wire.phase \in {"idle", "address", "ignored"} => Ending
    /\ app.given_up /\ ~Ending =>
          /\ wire.phase = "receiving" => drv.state # "transmitting"
          /\ wire.phase \in {"sending", "over"} => drv.state \in {"idle", "transmitting"}

SendingInv ==
    wire.phase = "sending" =>
        /\ Ending => Untouched
        /\ ~Ending /\ ~app.given_up =>
              /\ drv.state \in {"idle", "transmitting"}
              /\ IF drv.state = "idle" THEN Untouched ELSE Underway(drv.tx_buffer, port.STDR)

\* The callback at the end of a frame.
CallOf(d, address) ==
    CASE d.state = "receiving" ->
            <<Call("after_receive", get_bytes_transferred(d.rx_buffer), address)>>
      [] d.state = "transmitting" -> <<Call("after_transmit", 0, address)>>
      [] OTHER -> <<>>

\* trailing_byte_sent is only ever set in a frame that is read.
Trailing(d) == d.trailing_byte_sent => d.state = "transmitting"

\* What error() says after k bytes for a buffer of n: the last did not fit, or they all did.
Overflow(n, k) == IF k > n THEN "buffer_overflow" ELSE "ok"
Smaller(i, j) == IF i <= j THEN i ELSE j

\* k bytes of this frame have been received.
Received(d, k) ==
    /\ IF k > 0 /\ initialised(d.rx_buffer)
       THEN d.state = "receiving" /\ d.rx_buffer.next_index = Smaller(k, d.rx_buffer.size)
       ELSE d.state = "idle"
    /\ k > 0 => d.error = Overflow(d.rx_buffer.size, k)

\* What the driver notes of the k bytes it has been asked for: that a dummy was among
\* them, and an underflow at the second one, or at the first if there is no buffer.
Underflow(n, k) ==
    IF k > 0 /\ (n = 0 \/ k > n + 1) THEN "buffer_underflow" ELSE "ok"
Asked(d, k) ==
    /\ d.trailing_byte_sent <=> d.tx_buffer.size > 0 /\ k > d.tx_buffer.size
    /\ d.error = Underflow(d.tx_buffer.size, k)

\* A slave that is written to receives; one that is read from sends until the master has enough.
DirectionInv ==
    /\ wire.phase = "receiving" => wire.direction = "write"
    /\ wire.phase \in {"sending", "over"} => wire.direction = "read"
    /\ wire.phase = "over" => ~Ending /\ (app.given_up \/ drv.state = "transmitting")

\* All bytes of the frame but the one in SRDR have been received.
Unread == IF "RDF" \in port.SSR THEN 1 ELSE 0
ReceivingInv ==
    wire.phase = "receiving" =>
        /\ "RDF" \in port.SSR => wire.count > 0 /\ port.SOF = (wire.count = 1)
        /\ Ending => wire.count = Unread
        /\ ~Ending /\ ~app.given_up => Received(drv, wire.count - Unread)

\* The bytes the driver has been asked for: those the master has read, the one on the wire and
\* the one in STDR. It is one more than the master wants, unless the ISR was late.
Handed == wire.count + (IF wire.shift = Nothing THEN 0 ELSE 1) + (IF port.STDR = Nothing THEN 0 ELSE 1)
AskedInv ==
    /\ Trailing(drv)
    /\ wire.phase = "sending" /\ ~Ending /\ ~app.given_up /\ drv.state = "transmitting" =>
          Handed > 0 /\ Asked(drv, Handed)
    /\ wire.phase = "over" /\ ~app.late /\ "BEF" \notin port.SSR =>
          drv.error = Underflow(drv.tx_buffer.size, wire.count + 1)

\* The address the ISR will tell: AVF announces one that it has not read yet.
AddressKnown == IF "AVF" \in port.SSR THEN port.SASR ELSE drv.address_called

\* The callbacks the ISR will make: for a frame whose end it has not handled, and for one
\* that waits for its first byte.
EndCalls(address) == IF Ending THEN CallOf(drv, address) ELSE <<>>
StartCalls(address) ==
    IF wire.phase = "sending" /\ (Ending \/ drv.state = "idle")
    THEN <<Call("before_transmit", 0, address)>> ELSE <<>>

\* They are the ones that are due, and if no ISR has been late so is the address.
CallsInv ==
    /\ app.given_up \/ \E ended \in Addresses \cup {0}, wanted \in Addresses \cup {0} :
          /\ app.due = EndCalls(ended) \o StartCalls(wanted)
          /\ ~app.late => ended = AddressKnown /\ wanted = AddressKnown
    /\ ~app.late /\ (Matched \/ Ending) => AddressKnown = wire.address

ReportInv == DirectionInv /\ ReceivingInv /\ AskedInv /\ CallsInv

FrameInv == FlagsInv /\ GivenUpInv /\ SendingInv

ByteInv == Inv /\ FrameInv /\ ReportInv

------------------------------------------------------------------------------
(* What each handler does to the flags, to STDR and to the transmit buffer. *)

\* The driver's fields that the address of a frame does not concern.
Fields == {"state", "error", "trailing_byte_sent", "rx_buffer", "tx_buffer"}

LEMMA AddressEffect ==
    ASSUME NEW m, MachineInv(m)
    PROVE  LET w == HandleAddress(m, m.port.SSR)
           IN  /\ w.port.SSR = m.port.SSR \ {"AVF"} /\ w.port.STDR = m.port.STDR
               /\ w.port.SOF = m.port.SOF /\ w.told = m.told
               /\ w.drv.address_called =
                     IF "AVF" \in m.port.SSR THEN m.port.SASR ELSE m.drv.address_called
               /\ \A field \in Fields : w.drv[field] = m.drv[field]
<1>1. m.port \in PortType /\ m.drv \in DriverType
  BY DEF MachineInv, DriverInv
<1>2. CASE "AVF" \notin m.port.SSR
  <2>1. m.port.SSR \ {"AVF"} = m.port.SSR
    BY <1>2
  <2> QED
    BY <1>2, <2>1 DEF HandleAddress
<1>3. CASE "AVF" \in m.port.SSR
  <2> DEFINE d == [m.drv EXCEPT !.address_called = m.port.SASR]
             p == [m.port EXCEPT !.SSR = @ \ {"AVF"}]
             w == HandleAddress(m, m.port.SSR)
  <2>1. w = [m EXCEPT !.drv = d, !.port = p]
    BY <1>3 DEF HandleAddress
  <2>2. d.address_called = m.port.SASR /\ \A field \in Fields : d[field] = m.drv[field]
    BY <1>1 DEF DriverType, Fields
  <2>3. p.SSR = m.port.SSR \ {"AVF"} /\ p.STDR = m.port.STDR /\ p.SOF = m.port.SOF
    BY <1>1 DEF PortType
  <2> HIDE DEF d, p, w
  <2>4. w.drv = d /\ w.port = p /\ w.told = m.told
    BY <2>1 DEF MachineInv
  <2> QED
    BY <1>3, <2>2, <2>3, <2>4 DEF w
<1> QED
  BY <1>2, <1>3

LEMMA TellEffect ==
    ASSUME NEW m, MachineInv(m), NEW name, NEW length, NEW a \in Answers
    PROVE  LET w == Tell(m, name, length, a)
           IN  /\ w.port = m.port
               /\ w.told = Append(m.told, Call(name, length, m.drv.address_called))
               /\ w.drv.state = m.drv.state /\ w.drv.error = m.drv.error
               /\ w.drv.address_called = m.drv.address_called
               /\ w.drv.trailing_byte_sent = m.drv.trailing_byte_sent
<1>1. LET d == Set(m.drv, a)
      IN  /\ d.state = m.drv.state /\ d.error = m.drv.error
          /\ d.address_called = m.drv.address_called
          /\ d.trailing_byte_sent = m.drv.trailing_byte_sent
  BY DEF MachineInv, DriverInv, DriverType, Set
<1>2. /\ Tell(m, name, length, a).drv = Set(m.drv, a) /\ Tell(m, name, length, a).port = m.port
      /\ Tell(m, name, length, a).told = Append(m.told, Call(name, length, m.drv.address_called))
  BY DEF MachineInv, Tell
<1> QED
  BY <1>1, <1>2

LEMMA EndOfFrameEffect ==
    ASSUME NEW m, MachineInv(m), NEW a \in Answers
    PROVE  LET w == end_of_frame(m, a)
           IN  /\ w.port = m.port /\ w.drv.state = "idle"
               /\ w.told = m.told \o CallOf(m.drv, m.drv.address_called)
               /\ w.drv.address_called = m.drv.address_called
               /\ Trailing(m.drv) => ~w.drv.trailing_byte_sent
               /\ m.drv.state = "aborted" => w.drv.trailing_byte_sent = m.drv.trailing_byte_sent
<1> DEFINE quiet == [m EXCEPT !.drv.trailing_byte_sent = FALSE]
           length == get_bytes_transferred(m.drv.rx_buffer)
           received == Tell(m, "after_receive", length, a)
           transmitted == Tell(quiet, "after_transmit", 0, a)
           ended == CASE m.drv.state = "receiving" -> received
                      [] m.drv.state = "transmitting" -> transmitted
                      [] OTHER -> m
<1>1. /\ MachineInv(quiet) /\ quiet.port = m.port /\ quiet.told = m.told
      /\ quiet.drv.trailing_byte_sent = FALSE
      /\ quiet.drv.address_called = m.drv.address_called
  <2> DEFINE d == [m.drv EXCEPT !.trailing_byte_sent = FALSE]
  <2>1. /\ DriverInv(d) /\ d.trailing_byte_sent = FALSE
        /\ d.address_called = m.drv.address_called
    BY DEF MachineInv, DriverInv, DriverType
  <2>2. quiet = [m EXCEPT !.drv = d]
    OBVIOUS
  <2> HIDE DEF d
  <2> QED
    BY <2>1, <2>2, WithDriver
<1> HIDE DEF quiet
<1>2. MachineInv(received)
  <2>1. length \in Nat
    BY Limits DEF MachineInv, DriverInv, DriverType, get_bytes_transferred
  <2> QED
    BY <2>1, TellInv
<1>3. MachineInv(transmitted)
  BY <1>1, TellInv
<1>4. /\ received.port = m.port /\ received.drv.address_called = m.drv.address_called
      /\ received.told = Append(m.told, Call("after_receive", length, m.drv.address_called))
      /\ received.drv.trailing_byte_sent = m.drv.trailing_byte_sent
  BY TellEffect
<1>5. /\ transmitted.port = m.port /\ transmitted.drv.address_called = m.drv.address_called
      /\ transmitted.told = Append(m.told, Call("after_transmit", 0, m.drv.address_called))
      /\ transmitted.drv.trailing_byte_sent = FALSE
  BY <1>1, TellEffect
<1> HIDE DEF received, transmitted
<1>6. /\ MachineInv(ended) /\ ended.port = m.port
      /\ ended.drv.address_called = m.drv.address_called
      /\ Trailing(m.drv) => ~ended.drv.trailing_byte_sent
      /\ m.drv.state = "aborted" => ended.drv.trailing_byte_sent = m.drv.trailing_byte_sent
  BY <1>2, <1>3, <1>4, <1>5 DEF Trailing
<1>7. ended.told = m.told \o CallOf(m.drv, m.drv.address_called)
  <2>1. m.told \in Seq(Calls) /\ m.told \o <<>> = m.told
    BY ConcatEmptySeq DEF MachineInv
  <2>2. \A c \in Calls : Append(m.told, c) = m.told \o <<c>>
    BY <2>1, AppendIsConcat
  <2>3. /\ Call("after_receive", length, m.drv.address_called) \in Calls
        /\ Call("after_transmit", 0, m.drv.address_called) \in Calls
    BY Limits DEF MachineInv, DriverInv, DriverType, get_bytes_transferred, Call, Calls
  <2> QED
    BY <1>4, <1>5, <2>1, <2>2, <2>3 DEF CallOf
<1>8. end_of_frame(m, a) = [ended EXCEPT !.drv.state = "idle"]
  BY DEF end_of_frame, quiet, received, transmitted
<1> HIDE DEF ended
<1> QED
  BY <1>6, <1>7, <1>8 DEF MachineInv, DriverInv, DriverType

\* The frame ended with a STOP or a repeated START.
EndsFrame(ssr) == ssr \cap {"RSF", "SDF"} # {}

\* What the end of a frame makes of the machine m.
EndOf(m, w) ==
    /\ w.port.SSR = m.port.SSR \ {"RSF", "SDF"} /\ w.port.STDR = m.port.STDR
    /\ w.port.SOF = m.port.SOF /\ w.drv.state = "idle"
    /\ w.told = m.told \o CallOf(m.drv, m.drv.address_called)
    /\ w.drv.address_called = m.drv.address_called
    /\ Trailing(m.drv) => ~w.drv.trailing_byte_sent

\* At the end of a frame the callback is made, of a frame that has one.
LEMMA HandleEndOfFrameEffect ==
    ASSUME NEW m, MachineInv(m), NEW ssr, NEW a \in Answers
    PROVE  IF EndsFrame(ssr) THEN EndOf(m, HandleEndOfFrame(m, ssr, a))
                             ELSE HandleEndOfFrame(m, ssr, a) = m
<1> DEFINE p == [m.port EXCEPT !.SSR = @ \ {"RSF", "SDF"}]
           s == [m EXCEPT !.port = p]
<1>1. /\ p \in PortType /\ p.SSR = m.port.SSR \ {"RSF", "SDF"} /\ p.STDR = m.port.STDR
      /\ p.SOF = m.port.SOF
  BY DEF MachineInv, PortType
<1>2. HandleEndOfFrame(m, ssr, a) = IF EndsFrame(ssr) THEN end_of_frame(s, a) ELSE m
  BY DEF HandleEndOfFrame, EndsFrame
<1> HIDE DEF p
<1>3. MachineInv(s) /\ s.port = p /\ s.drv = m.drv /\ s.told = m.told
  BY <1>1, WithPort
<1> HIDE DEF s
<1>4. LET w == end_of_frame(s, a)
      IN  /\ w.port = p /\ w.drv.state = "idle"
          /\ w.told = m.told \o CallOf(m.drv, m.drv.address_called)
          /\ w.drv.address_called = m.drv.address_called
          /\ Trailing(m.drv) => ~w.drv.trailing_byte_sent
  BY <1>3, EndOfFrameEffect
<1> QED
  BY <1>1, <1>2, <1>4 DEF EndOf

\* What HandleReceive() does with a byte once the frame has been started.
Take(d) ==
    IF initialised(d.rx_buffer)
    THEN [d EXCEPT !.rx_buffer = write(@),
                   !.error = IF all_done(d.rx_buffer) THEN "buffer_overflow" ELSE @]
    ELSE [d EXCEPT !.error = "buffer_overflow", !.state = "idle"]

\* The first byte of a frame resets the cursor; the others follow it.
LEMMA TakeEffect ==
    ASSUME NEW d, DriverInv(d), NEW k \in Nat, Received(d, k)
    PROVE  LET taken == Take(IF k = 0 THEN StartReceiving(d) ELSE d)
           IN  /\ Received(taken, k + 1) /\ taken.address_called = d.address_called
               /\ taken.trailing_byte_sent = d.trailing_byte_sent
<1> DEFINE s == IF k = 0 THEN StartReceiving(d) ELSE d
           b == s.rx_buffer
           e == IF all_done(b) THEN "buffer_overflow" ELSE s.error
           full == [s EXCEPT !.rx_buffer = write(@), !.error = e]
           none == [s EXCEPT !.error = "buffer_overflow", !.state = "idle"]
           taken == IF initialised(b) THEN full ELSE none
<1> SUFFICES /\ Received(taken, k + 1) /\ taken.address_called = d.address_called
             /\ taken.trailing_byte_sent = d.trailing_byte_sent
  BY DEF Take
<1>1. /\ DriverInv(s) /\ s.address_called = d.address_called
      /\ s.trailing_byte_sent = d.trailing_byte_sent
  <2>1. DriverInv(s)
    BY StartReceivingInv
  <2>2. /\ StartReceiving(d).address_called = d.address_called
        /\ StartReceiving(d).trailing_byte_sent = d.trailing_byte_sent
    BY DEF StartReceiving, DriverInv, DriverType
  <2> QED
    BY <2>1, <2>2
<1>2. initialised(b) => /\ s.state = "receiving" /\ b.next_index = Smaller(k, b.size)
                        /\ s.error = Overflow(b.size, k)
  <2>1. CASE k = 0
    <3>1. initialised(d.rx_buffer) =>
            /\ StartReceiving(d).state = "receiving" /\ StartReceiving(d).error = "ok"
            /\ StartReceiving(d).rx_buffer.next_index = 0
      BY DEF StartReceiving, reset, DriverInv, DriverType
    <3>2. StartReceiving(d).rx_buffer.size = d.rx_buffer.size /\ d.rx_buffer.size \in Nat
      BY Limits DEF StartReceiving, reset, DriverInv, DriverType
    <3> QED
      BY <2>1, <3>1, <3>2 DEF initialised, Smaller, Overflow
  <2>2. CASE k # 0
    BY <2>2 DEF Received
  <2> QED
    BY <2>1, <2>2
<1> HIDE DEF s
<1>3. b \in BufferType /\ Fits(b, s.rx_array) /\ b.size \in Nat /\ b.next_index \in Nat
  BY <1>1, Limits DEF DriverInv, DriverType, BufferType
<1>4. CASE initialised(b)
  <2>1. /\ write(b).size = b.size /\ write(b).next_index = Smaller(k + 1, b.size)
    BY <1>2, <1>3, <1>4 DEF write, all_done, Smaller, Fits, BufferType
  <2>2. e = Overflow(b.size, k + 1)
    BY <1>2, <1>3, <1>4 DEF all_done, Smaller, Overflow, initialised
  <2> HIDE DEF e
  <2>3. /\ full.state = "receiving" /\ full.rx_buffer = write(b) /\ full.error = e
        /\ full.address_called = s.address_called
        /\ full.trailing_byte_sent = s.trailing_byte_sent
    BY <1>1, <1>2, <1>4 DEF DriverInv, DriverType
  <2> HIDE DEF full
  <2>4. Received(full, k + 1)
    BY <1>4, <2>1, <2>2, <2>3 DEF Received, initialised
  <2> QED
    BY <1>1, <1>4, <2>3, <2>4
<1>5. CASE ~initialised(b)
  <2>1. /\ none.state = "idle" /\ none.error = "buffer_overflow" /\ none.rx_buffer = b
        /\ none.address_called = s.address_called
        /\ none.trailing_byte_sent = s.trailing_byte_sent
    BY <1>1 DEF DriverInv, DriverType
  <2> HIDE DEF none
  <2>2. Received(none, k + 1)
    BY <1>3, <1>5, <2>1 DEF Received, initialised, Overflow
  <2> QED
    BY <1>1, <1>5, <2>1, <2>2
<1> QED
  BY <1>4, <1>5

LEMMA HandleReceiveEffect ==
    ASSUME NEW m, MachineInv(m), NEW ssr
    PROVE  LET w == HandleReceive(m, ssr)
           IN  /\ "RDF" \notin ssr => w = m
               /\ "RDF" \in ssr => /\ w.port.SSR = m.port.SSR \ {"RDF"} /\ w.told = m.told
                                   /\ \A k \in Nat : Received(m.drv, k) /\ m.port.SOF = (k = 0) =>
                                         /\ Received(w.drv, k + 1)
                                         /\ w.drv.address_called = m.drv.address_called
                                         /\ w.drv.trailing_byte_sent = m.drv.trailing_byte_sent
<1> DEFINE d == IF m.port.SOF THEN StartReceiving(m.drv) ELSE m.drv
           taken == Take(d)
           p == [m.port EXCEPT !.SSR = @ \ {"RDF"}]
<1>1. HandleReceive(m, ssr) = IF "RDF" \notin ssr THEN m ELSE [m EXCEPT !.drv = taken, !.port = p]
  BY DEF HandleReceive, Take
<1>2. p.SSR = m.port.SSR \ {"RDF"}
  BY DEF MachineInv, PortType
<1>3. ASSUME NEW k \in Nat, Received(m.drv, k), m.port.SOF = (k = 0)
      PROVE  /\ Received(taken, k + 1) /\ taken.address_called = m.drv.address_called
             /\ taken.trailing_byte_sent = m.drv.trailing_byte_sent
  <2>1. d = IF k = 0 THEN StartReceiving(m.drv) ELSE m.drv
    BY <1>3
  <2>2. DriverInv(m.drv)
    BY DEF MachineInv
  <2> QED
    BY <1>3, <2>1, <2>2, TakeEffect
<1> HIDE DEF taken, p
<1>4. "RDF" \in ssr => /\ HandleReceive(m, ssr).port = p /\ HandleReceive(m, ssr).drv = taken
                       /\ HandleReceive(m, ssr).told = m.told
  BY <1>1 DEF MachineInv
<1> QED
  BY <1>1, <1>2, <1>3, <1>4

\* Whatever the byte, the handler neither transmits nor makes a callback.
LEMMA ReceiveLeaves ==
    ASSUME NEW m, MachineInv(m), NEW ssr
    PROVE  LET w == HandleReceive(m, ssr)
           IN  /\ w.drv.state \in {m.drv.state, "receiving", "idle"}
               /\ w.drv.address_called = m.drv.address_called
               /\ w.drv.trailing_byte_sent = m.drv.trailing_byte_sent
               /\ w.told = m.told
<1> DEFINE d == IF m.port.SOF THEN StartReceiving(m.drv) ELSE m.drv
           taken == Take(d)
           p == [m.port EXCEPT !.SSR = @ \ {"RDF"}]
<1>1. HandleReceive(m, ssr) = IF "RDF" \notin ssr THEN m ELSE [m EXCEPT !.drv = taken, !.port = p]
  BY DEF HandleReceive, Take
<1>2. /\ d \in DriverType /\ d.state \in {m.drv.state, "receiving"}
      /\ d.address_called = m.drv.address_called
      /\ d.trailing_byte_sent = m.drv.trailing_byte_sent
  <2>1. DriverInv(d)
    BY StartReceivingInv DEF MachineInv
  <2>2. m.drv \in DriverType
    BY DEF MachineInv, DriverInv
  <2> QED
    BY <2>1, <2>2 DEF StartReceiving, DriverInv, DriverType
<1> HIDE DEF d
<1>3. /\ taken.state \in {d.state, "idle"} /\ taken.address_called = d.address_called
      /\ taken.trailing_byte_sent = d.trailing_byte_sent
  BY <1>2 DEF Take, DriverType
<1> HIDE DEF taken, p
<1> QED
  BY <1>1, <1>2, <1>3 DEF MachineInv

LEMMA HandleBitErrorEffect ==
    ASSUME NEW m, MachineInv(m), NEW ssr, NEW a \in Answers
    PROVE  LET w == HandleBitError(m, ssr, a)
           IN  /\ "BEF" \notin ssr => w = m
               /\ "BEF" \in ssr =>
                     /\ w.port.SSR = m.port.SSR \ {"BEF"} /\ w.drv.state = "idle"
                     /\ w.told = m.told /\ w.drv.address_called = m.drv.address_called
                     /\ w.drv.trailing_byte_sent = m.drv.trailing_byte_sent
<1> DEFINE d == [m.drv EXCEPT !.state = "aborted", !.error = "bit_error"]
           p == [m.port EXCEPT !.SSR = @ \ {"BEF"}]
           w == [m EXCEPT !.port.SSR = @ \ {"BEF"}, !.drv.state = "aborted", !.drv.error = "bit_error"]
<1>1. /\ DriverInv(d) /\ d.state = "aborted" /\ d.address_called = m.drv.address_called
      /\ d.trailing_byte_sent = m.drv.trailing_byte_sent
  BY DEF MachineInv, DriverInv, DriverType, State, I2CError
<1>2. p \in PortType /\ p.SSR = m.port.SSR \ {"BEF"}
  BY DEF MachineInv, PortType
<1>3. w = [[m EXCEPT !.port = p] EXCEPT !.drv = d]
  BY DEF MachineInv
<1> HIDE DEF d, p
<1>4. MachineInv(w) /\ w.port = p /\ w.drv = d /\ w.told = m.told
  <2> DEFINE x == [m EXCEPT !.port = p]
  <2>1. MachineInv(x) /\ x.port = p /\ x.told = m.told
    BY <1>2, WithPort
  <2>2. w = [x EXCEPT !.drv = d]
    BY <1>3
  <2> HIDE DEF x, w
  <2> QED
    BY <1>1, <2>1, <2>2, WithDriver
<1>5. HandleBitError(m, ssr, a) = IF "BEF" \notin ssr THEN m ELSE end_of_frame(w, a)
  BY DEF HandleBitError
<1> HIDE DEF w
<1>6. CallOf(w.drv, w.drv.address_called) = <<>> /\ w.told \o <<>> = w.told
  BY <1>1, <1>4, ConcatEmptySeq DEF CallOf, MachineInv
<1>7. LET v == end_of_frame(w, a)
      IN  /\ v.port = p /\ v.drv.state = "idle" /\ v.told = m.told
          /\ v.drv.address_called = m.drv.address_called
          /\ v.drv.trailing_byte_sent = m.drv.trailing_byte_sent
  BY <1>1, <1>4, <1>6, EndOfFrameEffect
<1> QED
  BY <1>2, <1>5, <1>7

\* A byte is taken from the buffer, or a dummy sent when there is none left.
LEMMA LoadEffect ==
    ASSUME NEW b \in BufferType, NEW array, Fits(b, array), NEW k \in Nat, CursorAt(b, k)
    PROVE  /\ has_data_available(b) => /\ b.next_index = ByteOf(b, k) /\ CursorAt(read(b, 1), k + 1)
                                       /\ read(b, 1).size = b.size
           /\ ~has_data_available(b) => DUMMY_BYTE = ByteOf(b, k) /\ CursorAt(b, k + 1)
BY Limits DEF BufferType, Fits, CursorAt, ByteOf, has_data_available, read

\* What StartTransmitting() leaves: the buffer at its first byte when a frame begins.
LEMMA StartTransmittingEffect ==
    ASSUME NEW m, MachineInv(m), NEW a \in Answers, m.drv.state \in {"idle", "transmitting"}
    PROVE  LET s == StartTransmitting(m, a)
           IN  /\ s.port = m.port /\ s.drv.state = "transmitting"
               /\ s.drv.address_called = m.drv.address_called
               /\ s.drv.trailing_byte_sent = m.drv.trailing_byte_sent
               /\ m.drv.state = "transmitting" => s = m
               /\ m.drv.state = "idle" =>
                     /\ CursorAt(s.drv.tx_buffer, 0) /\ s.drv.error = "ok"
                     /\ s.told = Append(m.told, Call("before_transmit", 0, m.drv.address_called))
<1> DEFINE d == [m.drv EXCEPT !.error = "ok", !.state = "transmitting"]
           s == [m EXCEPT !.drv = d]
           asked == Tell(s, "before_transmit", 0, a)
           tx == asked.drv.tx_buffer
           b == IF initialised(tx) THEN reset(tx) ELSE tx
<1>1. /\ DriverInv(d) /\ d.state = "transmitting" /\ d.error = "ok"
      /\ d.address_called = m.drv.address_called
      /\ d.trailing_byte_sent = m.drv.trailing_byte_sent
  BY DEF MachineInv, DriverInv, DriverType, State, I2CError
<1>2. [m EXCEPT !.drv.error = "ok", !.drv.state = "transmitting"] = s
  BY DEF MachineInv
<1> HIDE DEF d
<1>3. MachineInv(s) /\ s.drv = d /\ s.port = m.port /\ s.told = m.told
  BY <1>1, WithDriver
<1> HIDE DEF s
<1>4. /\ MachineInv(asked) /\ asked.port = m.port
      /\ asked.drv.state = "transmitting" /\ asked.drv.error = "ok"
      /\ asked.drv.address_called = m.drv.address_called
      /\ asked.drv.trailing_byte_sent = m.drv.trailing_byte_sent
      /\ asked.told = Append(m.told, Call("before_transmit", 0, m.drv.address_called))
  <2>1. MachineInv(asked)
    BY <1>3, TellInv
  <2>2. LET w == asked
        IN  /\ w.port = s.port
            /\ w.told = Append(s.told, Call("before_transmit", 0, s.drv.address_called))
            /\ w.drv.state = s.drv.state /\ w.drv.error = s.drv.error
            /\ w.drv.address_called = s.drv.address_called
            /\ w.drv.trailing_byte_sent = s.drv.trailing_byte_sent
    BY <1>3, TellEffect
  <2> HIDE DEF asked
  <2> QED
    BY <1>1, <1>3, <2>1, <2>2
<1>5. StartTransmitting(m, a) =
        IF m.drv.state \notin {"idle", "aborted"} THEN m ELSE [asked EXCEPT !.drv.tx_buffer = b]
  BY <1>2 DEF StartTransmitting
<1> HIDE DEF asked
<1>6. CursorAt(b, 0)
  BY <1>4, Limits DEF MachineInv, DriverInv, DriverType, Fits, CursorAt, initialised, reset
<1> HIDE DEF b
<1>7. LET w == [asked EXCEPT !.drv.tx_buffer = b]
      IN  /\ w.port = asked.port /\ w.told = asked.told /\ w.drv.tx_buffer = b
          /\ w.drv.state = asked.drv.state /\ w.drv.error = asked.drv.error
          /\ w.drv.address_called = asked.drv.address_called
          /\ w.drv.trailing_byte_sent = asked.drv.trailing_byte_sent
  BY <1>4 DEF MachineInv, DriverInv, DriverType
<1> QED
  BY <1>4, <1>5, <1>6, <1>7

LEMMA HandleTransmitEffect ==
    ASSUME NEW m, MachineInv(m), NEW a \in Answers, NEW k \in Nat,
           \/ m.drv.state = "idle" /\ k = 0
           \/ m.drv.state = "transmitting" /\ CursorAt(m.drv.tx_buffer, k)
    PROVE  LET w == HandleTransmit(m, TRUE, a)
           IN  /\ w.port.SSR = m.port.SSR /\ w.drv.state = "transmitting"
               /\ w.port.STDR = ByteOf(w.drv.tx_buffer, k) /\ CursorAt(w.drv.tx_buffer, k + 1)
               /\ m.drv.state = "transmitting" => w.drv.tx_buffer.size = m.drv.tx_buffer.size
               /\ w.drv.address_called = m.drv.address_called
               /\ w.told = IF m.drv.state = "idle"
                           THEN Append(m.told, Call("before_transmit", 0, m.drv.address_called))
                           ELSE m.told
               /\ (IF m.drv.state = "idle" THEN ~m.drv.trailing_byte_sent ELSE Asked(m.drv, k)) =>
                     Asked(w.drv, k + 1)
<1> DEFINE s == StartTransmitting(m, a)
           tx == s.drv.tx_buffer
           w == HandleTransmit(m, TRUE, a)
           known == IF m.drv.state = "idle" THEN ~m.drv.trailing_byte_sent ELSE Asked(m.drv, k)
<1>1. MachineInv(s)
  BY StartTransmittingInv
<1>2. /\ s.port = m.port /\ s.drv.state = "transmitting" /\ CursorAt(tx, k)
      /\ s.drv.address_called = m.drv.address_called
      /\ s.told = IF m.drv.state = "idle"
                  THEN Append(m.told, Call("before_transmit", 0, m.drv.address_called))
                  ELSE m.told
      /\ m.drv.state = "transmitting" => s.drv.tx_buffer = m.drv.tx_buffer
  BY StartTransmittingEffect
<1>3. tx \in BufferType /\ Fits(tx, s.drv.tx_array) /\ tx.size \in Nat
  BY <1>1, Limits DEF MachineInv, DriverInv, DriverType, BufferType
<1>4. known => Asked(s.drv, k)
  <2>1. CASE m.drv.state = "idle"
    BY <1>3, <2>1, StartTransmittingEffect DEF Asked, Underflow
  <2>2. CASE m.drv.state = "transmitting"
    BY <2>2, StartTransmittingEffect
  <2> QED
    BY <2>1, <2>2
<1> DEFINE t == s.drv.trailing_byte_sent \/ initialised(tx)
           e == IF ~initialised(tx) \/ s.drv.trailing_byte_sent
                THEN "buffer_underflow" ELSE s.drv.error
<1>5. w = IF has_data_available(tx)
          THEN [s EXCEPT !.port.STDR = tx.next_index, !.drv.tx_buffer = read(@, 1)]
          ELSE [s EXCEPT !.port.STDR = DUMMY_BYTE, !.drv.trailing_byte_sent = t, !.drv.error = e]
  BY DEF HandleTransmit
<1> HIDE DEF s, w, known
<1>6. CASE has_data_available(tx)
  <2>1. /\ w.port.SSR = s.port.SSR /\ w.port.STDR = tx.next_index /\ w.told = s.told
        /\ w.drv.state = s.drv.state /\ w.drv.tx_buffer = read(tx, 1)
        /\ w.drv.address_called = s.drv.address_called /\ w.drv.error = s.drv.error
        /\ w.drv.trailing_byte_sent = s.drv.trailing_byte_sent
    BY <1>1, <1>5, <1>6 DEF MachineInv, DriverInv, DriverType, PortType
  <2>2. /\ tx.next_index = ByteOf(tx, k) /\ CursorAt(read(tx, 1), k + 1)
        /\ read(tx, 1).size = tx.size
    BY <1>2, <1>3, <1>6, LoadEffect
  <2>3. ByteOf(read(tx, 1), k) = ByteOf(tx, k)
    BY <2>2 DEF ByteOf
  <2>4. k < tx.size
    BY <1>2, <1>3, <1>6 DEF CursorAt, has_data_available
  <2>5. Asked(s.drv, k) => Asked(w.drv, k + 1)
    BY <1>3, <2>1, <2>2, <2>4 DEF Asked, Underflow
  <2> QED
    BY <1>2, <1>4, <2>1, <2>2, <2>3, <2>5 DEF w, known
<1>7. CASE ~has_data_available(tx)
  <2> HIDE DEF t, e
  <2>1. /\ w.port.SSR = s.port.SSR /\ w.port.STDR = DUMMY_BYTE /\ w.told = s.told
        /\ w.drv.state = s.drv.state /\ w.drv.tx_buffer = tx
        /\ w.drv.address_called = s.drv.address_called
        /\ w.drv.error = e /\ w.drv.trailing_byte_sent = t
    BY <1>1, <1>5, <1>7 DEF MachineInv, DriverInv, DriverType, PortType
  <2>2. DUMMY_BYTE = ByteOf(tx, k) /\ CursorAt(tx, k + 1)
    BY <1>2, <1>3, <1>7, LoadEffect
  <2>3. k >= tx.size
    BY <1>2, <1>3, <1>7 DEF CursorAt, has_data_available
  <2>4. Asked(s.drv, k) => Asked(w.drv, k + 1)
    <3>1. SUFFICES ASSUME Asked(s.drv, k) PROVE Asked(w.drv, k + 1)
      OBVIOUS
    <3>2. t <=> tx.size > 0 /\ k + 1 > tx.size
      BY <1>3, <2>3, <3>1 DEF t, initialised, Asked
    <3>3. e = Underflow(tx.size, k + 1)
      BY <1>3, <2>3, <3>1 DEF e, initialised, Asked, Underflow
    <3> QED
      BY <2>1, <3>2, <3>3 DEF Asked
  <2> QED
    BY <1>2, <1>4, <2>1, <2>2, <2>4 DEF w, known
<1> QED
  BY <1>6, <1>7

\* Whatever byte it is, the driver is transmitting afterwards.
LEMMA TransmitLeaves ==
    ASSUME NEW m, MachineInv(m), NEW a \in Answers, m.drv.state \in {"idle", "transmitting"}
    PROVE  LET w == HandleTransmit(m, TRUE, a)
           IN  /\ w.port.SSR = m.port.SSR /\ w.drv.state = "transmitting"
               /\ w.drv.address_called = m.drv.address_called
<1> DEFINE s == StartTransmitting(m, a)
           tx == s.drv.tx_buffer
           t == s.drv.trailing_byte_sent \/ initialised(tx)
           e == IF ~initialised(tx) \/ s.drv.trailing_byte_sent
                THEN "buffer_underflow" ELSE s.drv.error
           w == HandleTransmit(m, TRUE, a)
<1>1. MachineInv(s)
  BY StartTransmittingInv
<1>2. /\ s.port = m.port /\ s.drv.state = "transmitting"
      /\ s.drv.address_called = m.drv.address_called
  BY StartTransmittingEffect
<1>3. w = IF has_data_available(tx)
          THEN [s EXCEPT !.port.STDR = tx.next_index, !.drv.tx_buffer = read(@, 1)]
          ELSE [s EXCEPT !.port.STDR = DUMMY_BYTE, !.drv.trailing_byte_sent = t, !.drv.error = e]
  BY DEF HandleTransmit
<1> HIDE DEF s, w, t, e
<1>4. /\ w.port.SSR = s.port.SSR /\ w.drv.state = s.drv.state
      /\ w.drv.address_called = s.drv.address_called
  BY <1>1, <1>3 DEF MachineInv, DriverInv, DriverType, PortType
<1> HIDE DEF tx
<1> QED
  BY <1>2, <1>4 DEF w

------------------------------------------------------------------------------
(* The ISR.                                                                *)

\* A byte, or a dummy, is not the empty register.
LEMMA ByteIsSomething ==
    ASSUME NEW b \in BufferType, NEW k \in Nat
    PROVE  ByteOf(b, k) # Nothing
BY Limits DEF BufferType, ByteOf, DUMMY_BYTE, Nothing

\* A byte is handed to the peripheral: the one after those on their way.
LEMMA HandedOver ==
    ASSUME wire.count \in Nat, NEW b \in BufferType, NEW stdr, NEW k \in Nat,
           k = wire.count + (IF wire.shift = Nothing THEN 0 ELSE 1),
           wire.shift # Nothing => wire.shift = ByteOf(b, wire.count),
           stdr = ByteOf(b, k), CursorAt(b, k + 1)
    PROVE  Underway(b, stdr)
<1>1. stdr # Nothing
  BY ByteIsSomething
<1> QED
  BY <1>1 DEF Underway, CursorAt

\* The callbacks are callbacks.
LEMMA CallsTyped ==
    ASSUME TypeOK
    PROVE  /\ AddressKnown \in Addresses \cup {0}
           /\ \A a \in Addresses \cup {0} :
                 /\ CallOf(drv, a) \in Seq(Calls) /\ EndCalls(a) \in Seq(Calls)
                 /\ StartCalls(a) \in Seq(Calls) /\ Call("before_transmit", 0, a) \in Calls
           /\ LET c == CallOf(drv, AddressKnown) IN <<>> \o c = c
<1>1. AddressKnown \in Addresses \cup {0}
  BY DEF TypeOK, PortType, DriverType, AddressKnown
<1>2. get_bytes_transferred(drv.rx_buffer) \in Nat
  BY Limits DEF TypeOK, DriverType, get_bytes_transferred
<1>3. ASSUME NEW a \in Addresses \cup {0}
      PROVE  /\ CallOf(drv, a) \in Seq(Calls) /\ EndCalls(a) \in Seq(Calls)
             /\ StartCalls(a) \in Seq(Calls) /\ Call("before_transmit", 0, a) \in Calls
  <2>1. \A name \in {"after_receive", "before_transmit", "after_transmit"}, length \in Nat :
          Call(name, length, a) \in Calls
    BY DEF Call, Calls
  <2>2. \A c \in Calls : <<c>> \in Seq(Calls)
    OBVIOUS
  <2>3. <<>> \in Seq(Calls)
    OBVIOUS
  <2>4. CallOf(drv, a) \in Seq(Calls)
    BY <1>2, <2>1, <2>2, <2>3 DEF CallOf
  <2> QED
    BY <2>1, <2>2, <2>3, <2>4 DEF EndCalls, StartCalls
<1>4. CallOf(drv, AddressKnown) \in Seq(Calls)
  BY <1>1, <1>3
<1> QED
  BY <1>1, <1>3, <1>4, ConcatEmptySeq

\* Once the ISR has run no callback is due.
LEMMA NothingDue ==
    ASSUME TypeOK', app'.due = <<>>, ~Ending',
           ~app'.given_up /\ wire'.phase = "sending" => drv'.state # "idle",
           ~app'.late /\ Matched' => AddressKnown' = wire'.address
    PROVE  CallsInv'
<1>1. AddressKnown' \in Addresses \cup {0}
  BY DEF TypeOK, PortType, DriverType, AddressKnown
<1>2. ~app'.given_up => \A a : EndCalls(a)' = <<>> /\ StartCalls(a)' = <<>>
  BY DEF EndCalls, StartCalls
<1>3. <<>> \o <<>> = <<>>
  BY ConcatEmptySeq
<1> QED
  BY <1>1, <1>2, <1>3 DEF CallsInv

\* The ISR keeps the invariant, and makes the callbacks the state calls for.
LEMMA ISRByteStep ==
    ASSUME ByteInv, ISR
    PROVE  /\ FrameInv' /\ ReportInv'
           /\ ~app.given_up => app'.told = EndCalls(AddressKnown) \o StartCalls(AddressKnown)
<1>1. /\ app.pc = "idle" /\ TypeOK /\ wire' = wire /\ Interrupt
      /\ wire.count \in Nat
  BY Limits DEF ByteInv, Inv, ISR, Quiet, TypeOK, WireType
<1>2. MachineInv(Machine) /\ Machine.port = port /\ Machine.drv = drv /\ Machine.told = <<>>
  BY <1>1 DEF ByteInv, Inv, TypeOK, MachineInv, Machine, DriverInv, Setting
<1>3. Silent \in Answers
  BY DEF Answers
<1>4. PICK ended \in Answers, wanted \in Answers :
        LET m == ServiceInterrupt(Machine, ended, wanted)
        IN  /\ drv' = m.drv /\ port' = m.port
            /\ app' = [app EXCEPT !.told = m.told, !.due = <<>>, !.given_up = GivesUp]
  BY <1>3 DEF ISR
<1> DEFINE ssr == port.SSR
           called == HandleAddress(Machine, ssr)
           over == HandleEndOfFrame(called, ssr, ended)
           received == HandleReceive(over, ssr)
           sent == HandleTransmit(received, TDF, wanted)
           final == HandleBitError(sent, ssr, ended)
<1>5. /\ drv' = final.drv /\ port' = final.port
      /\ app'.told = final.told /\ app'.due = <<>> /\ app'.late = app.late
      /\ app'.given_up = GivesUp
  BY <1>1, <1>2, <1>4 DEF ServiceInterrupt, TypeOK, AppType
<1>6. /\ MachineInv(called) /\ called.port.SSR = ssr \ {"AVF"} /\ called.port.STDR = port.STDR
      /\ called.port.SOF = port.SOF /\ called.told = <<>>
      /\ called.drv.address_called = AddressKnown
      /\ called.drv.state = drv.state /\ called.drv.error = drv.error
      /\ called.drv.trailing_byte_sent = drv.trailing_byte_sent
      /\ called.drv.rx_buffer = drv.rx_buffer /\ called.drv.tx_buffer = drv.tx_buffer
  <2>1. MachineInv(called)
    BY <1>2, HandleAddressInv
  <2>2. /\ called.port.SSR = ssr \ {"AVF"} /\ called.port.STDR = port.STDR
        /\ called.port.SOF = port.SOF /\ called.told = <<>>
        /\ called.drv.address_called = IF "AVF" \in ssr THEN port.SASR ELSE drv.address_called
        /\ \A field \in Fields : called.drv[field] = drv[field]
    BY <1>2, AddressEffect
  <2> HIDE DEF called
  <2> QED
    BY <2>1, <2>2 DEF Fields, AddressKnown
<1> HIDE DEF called
<1>7. /\ MachineInv(over)
      /\ ~Ending => over = called
      /\ Ending => /\ over.port.SSR = called.port.SSR \ {"RSF", "SDF"} /\ over.drv.state = "idle"
                   /\ over.port.SOF = port.SOF
                   /\ over.told = called.told \o CallOf(called.drv, AddressKnown)
                   /\ over.drv.address_called = AddressKnown
                   /\ Trailing(called.drv) => ~over.drv.trailing_byte_sent
  <2>1. MachineInv(over)
    BY <1>6, HandleEndOfFrameInv
  <2>2. IF EndsFrame(ssr) THEN EndOf(called, over) ELSE over = called
    BY <1>6, HandleEndOfFrameEffect
  <2>3. EndsFrame(ssr) <=> Ending
    BY DEF EndsFrame, Ending
  <2> HIDE DEF over
  <2> QED
    BY <1>6, <2>1, <2>2, <2>3 DEF EndOf
<1> HIDE DEF over
<1>8. /\ over.port.SSR \cap {"RSF", "SDF", "AVF"} = {} /\ over.port.SSR \subseteq ssr
      /\ over.drv.address_called = AddressKnown /\ over.told = EndCalls(AddressKnown)
      /\ Trailing(over.drv) /\ over.port.SOF = port.SOF
  <2>1. over.port.SSR \cap {"RSF", "SDF", "AVF"} = {} /\ over.port.SSR \subseteq ssr
    BY <1>6, <1>7 DEF Ending
  <2>2. CallOf(called.drv, AddressKnown) = CallOf(drv, AddressKnown)
    BY <1>6 DEF CallOf
  <2>3. <<>> \o CallOf(drv, AddressKnown) = CallOf(drv, AddressKnown)
    BY CallsTyped, <1>1
  <2>4. over.told = EndCalls(AddressKnown)
    BY <1>6, <1>7, <2>2, <2>3 DEF EndCalls
  <2>5. Trailing(called.drv)
    BY <1>6 DEF ByteInv, ReportInv, AskedInv, Trailing
  <2> QED
    BY <1>6, <1>7, <2>1, <2>4, <2>5 DEF Trailing
<1>9. /\ MachineInv(received)
      /\ "RDF" \notin ssr => received = over
      /\ "RDF" \in ssr => /\ received.port.SSR = over.port.SSR \ {"RDF"} /\ received.told = over.told
                          /\ \A k \in Nat : Received(over.drv, k) /\ over.port.SOF = (k = 0) =>
                                /\ Received(received.drv, k + 1)
                                /\ received.drv.address_called = over.drv.address_called
                                /\ received.drv.trailing_byte_sent = over.drv.trailing_byte_sent
  BY <1>7, HandleReceiveEffect, HandleReceiveInv
<1> HIDE DEF received
<1>10. MachineInv(sent)
  BY <1>9, HandleTransmitInv
<1>11. TypeOK' /\ (Matched' <=> Matched)
  BY <1>1, ISRStep DEF ByteInv, Inv, Matched
\* Of a frame that was given up, only the end.
<1> DEFINE given_up == app.given_up /\ ~Ending
<1>12. /\ "BEF" \in ssr => wire.phase = "over" \/ Ending
       /\ wire.phase # "sending" => ~TDF
       /\ given_up => app.late
  BY DEF ByteInv, FrameInv, FlagsInv, GivenUpInv, TDF
<1>13. GivesUp <=> given_up \/ ("BEF" \in ssr /\ ("RDF" \in ssr \/ TDF))
  BY DEF GivesUp, Ending
\* What is left to show of each interrupt.
<1> DEFINE Done == /\ FlagsInv' /\ GivenUpInv' /\ SendingInv' /\ DirectionInv' /\ ReceivingInv'
                   /\ AskedInv'
                   /\ ~Ending' /\ "AVF" \notin port'.SSR /\ drv'.address_called = AddressKnown
                   /\ ~app'.given_up /\ wire.phase = "sending" => drv'.state # "idle"
                   /\ ~given_up => app'.told = EndCalls(AddressKnown) \o StartCalls(AddressKnown)
<1>14. ASSUME Done
       PROVE  /\ FrameInv' /\ ReportInv'
              /\ ~app.given_up => app'.told = EndCalls(AddressKnown) \o StartCalls(AddressKnown)
  <2>1. AddressKnown' = AddressKnown
    BY <1>14 DEF AddressKnown
  <2>2. ~app'.late /\ Matched' => AddressKnown' = wire'.address
    BY <1>1, <1>5, <1>11, <2>1 DEF ByteInv, ReportInv, CallsInv
  <2>3. CallsInv'
    BY <1>1, <1>5, <1>11, <1>14, <2>2, NothingDue
  <2> QED
    BY <1>14, <2>3 DEF ReportInv, FrameInv
<1>15. CASE wire.phase = "sending" /\ ~given_up
  <2>1. "RDF" \notin ssr /\ ("BEF" \in ssr => Ending /\ app.late)
    BY <1>15 DEF ByteInv, FrameInv, FlagsInv, GivenUpInv
  <2>2. TDF = TRUE
    BY <1>1, <1>15, <2>1 DEF ByteInv, FrameInv, SendingInv, Untouched, Interrupt, Ending, TDF
  <2>3. received = over /\ sent = HandleTransmit(over, TRUE, wanted)
    BY <1>9, <2>1, <2>2
  <2> HIDE DEF sent
  <2> DEFINE k == wire.count + (IF wire.shift = Nothing THEN 0 ELSE 1)
             b == sent.drv.tx_buffer
  <2>4. k \in Nat /\ Handed = k
    BY <1>1, <2>2 DEF TDF, Handed
  <2>5. Ending \/ drv.state = "idle" => wire.count = 0 /\ wire.shift = Nothing /\ k = 0
    BY <1>15 DEF ByteInv, FrameInv, SendingInv, Untouched
  <2>6. /\ sent.port.SSR = over.port.SSR /\ sent.drv.state = "transmitting"
        /\ sent.port.STDR = ByteOf(b, k) /\ CursorAt(b, k + 1)
        /\ wire.shift # Nothing => wire.shift = ByteOf(b, wire.count)
        /\ sent.drv.address_called = AddressKnown /\ Asked(sent.drv, k + 1)
        /\ sent.told = EndCalls(AddressKnown) \o StartCalls(AddressKnown)
    <3>1. CASE Ending \/ drv.state = "idle"
      <4>1. /\ over.drv.state = "idle" /\ ~over.drv.trailing_byte_sent
            /\ wire.count = 0 /\ wire.shift = Nothing /\ k = 0
        BY <1>6, <1>7, <1>8, <2>5, <3>1 DEF Trailing
      <4>3. Append(over.told, Call("before_transmit", 0, AddressKnown))
              = EndCalls(AddressKnown) \o StartCalls(AddressKnown)
        <5>1. /\ EndCalls(AddressKnown) \in Seq(Calls)
              /\ Call("before_transmit", 0, AddressKnown) \in Calls
          BY <1>1, CallsTyped
        <5>2. StartCalls(AddressKnown) = <<Call("before_transmit", 0, AddressKnown)>>
          BY <1>15, <3>1 DEF StartCalls
        <5> QED
          BY <1>8, <5>1, <5>2, AppendIsConcat
      <4> HIDE DEF k
      <4>4. LET w == HandleTransmit(over, TRUE, wanted)
            IN  /\ w.port.SSR = over.port.SSR /\ w.drv.state = "transmitting"
                /\ w.port.STDR = ByteOf(w.drv.tx_buffer, k) /\ CursorAt(w.drv.tx_buffer, k + 1)
                /\ w.drv.address_called = over.drv.address_called
                /\ w.told = Append(over.told, Call("before_transmit", 0, over.drv.address_called))
                /\ Asked(w.drv, k + 1)
        BY <1>7, <2>4, <4>1, HandleTransmitEffect
      <4> QED
        BY <1>8, <2>3, <4>1, <4>3, <4>4
    <3>2. CASE ~(Ending \/ drv.state = "idle")
      <4>1. /\ over = called /\ over.drv.state = "transmitting"
            /\ Underway(over.drv.tx_buffer, port.STDR) /\ port.STDR = Nothing
        BY <1>6, <1>7, <1>15, <2>2, <3>2 DEF ByteInv, FrameInv, SendingInv, TDF
      <4>2. /\ CursorAt(over.drv.tx_buffer, k)
            /\ wire.shift # Nothing => wire.shift = ByteOf(over.drv.tx_buffer, wire.count)
        BY <1>1, <2>4, <4>1 DEF Underway
      <4>3. Asked(over.drv, k)
        BY <1>6, <1>15, <2>4, <3>2, <4>1 DEF ByteInv, ReportInv, AskedInv, Asked
      <4>4. over.told = EndCalls(AddressKnown) \o StartCalls(AddressKnown)
        <5>1. EndCalls(AddressKnown) \in Seq(Calls)
          BY <1>1, CallsTyped
        <5>2. StartCalls(AddressKnown) = <<>>
          BY <3>2 DEF StartCalls
        <5> QED
          BY <1>8, <5>1, <5>2, ConcatEmptySeq
      <4> HIDE DEF k
      <4>5. LET w == HandleTransmit(over, TRUE, wanted)
            IN  /\ w.port.SSR = over.port.SSR /\ w.drv.state = "transmitting"
                /\ w.port.STDR = ByteOf(w.drv.tx_buffer, k) /\ CursorAt(w.drv.tx_buffer, k + 1)
                /\ w.drv.tx_buffer.size = over.drv.tx_buffer.size
                /\ w.drv.address_called = over.drv.address_called
                /\ w.told = over.told /\ Asked(w.drv, k + 1)
        BY <1>7, <2>4, <4>1, <4>2, <4>3, HandleTransmitEffect
      <4>6. wire.shift # Nothing => wire.shift = ByteOf(b, wire.count)
        BY <2>3, <4>2, <4>5 DEF ByteOf
      <4> QED
        BY <1>8, <2>3, <4>4, <4>5, <4>6
    <3> QED
      BY <3>1, <3>2
  <2>7. b \in BufferType
    BY <1>10 DEF MachineInv, DriverInv, DriverType, BufferType
  <2>8. Underway(b, sent.port.STDR)
    BY <1>1, <2>4, <2>6, <2>7, HandedOver
  <2>9. sent.port.STDR # Nothing
    BY <2>4, <2>6, <2>7, ByteIsSomething
  <2>10. sent.port.SSR \cap {"RSF", "SDF", "RDF", "AVF"} = {}
    BY <1>8, <2>1, <2>6
  <2>11. CASE "BEF" \notin ssr
    <3>1. drv' = sent.drv /\ port' = sent.port /\ app'.told = sent.told /\ ~app'.given_up
      BY <1>5, <1>10, <1>15, <1>13, <2>11, HandleBitErrorEffect
    <3>2. Handed' = k + 1
      BY <1>1, <2>9, <3>1 DEF Handed
    <3> HIDE DEF final, k
    <3>3. port'.SSR \cap {"RSF", "SDF", "RDF", "BEF", "AVF"} = {}
      BY <1>8, <2>6, <2>10, <2>11, <3>1
    <3>4. drv'.state = "transmitting" /\ Underway(drv'.tx_buffer, port'.STDR) /\ Asked(drv', k + 1)
      BY <2>6, <2>8, <3>1
    <3>5. FlagsInv' /\ GivenUpInv' /\ DirectionInv' /\ ReceivingInv' /\ ~Ending'
      BY <1>1, <1>15, <3>1, <3>3
      DEF FlagsInv, GivenUpInv, DirectionInv, ReceivingInv, ByteInv, ReportInv, Ending
    <3>6. SendingInv'
      BY <1>1, <3>3, <3>4 DEF SendingInv, Ending, Underway
    <3>7. AskedInv'
      BY <1>1, <1>15, <2>4, <3>2, <3>4 DEF AskedInv, Asked, Trailing
    <3>8. Done
      BY <2>6, <3>1, <3>3, <3>4, <3>5, <3>6, <3>7
    <3> QED
      BY <1>14, <3>8
  <2>12. CASE "BEF" \in ssr
    <3>1. ~sent.drv.trailing_byte_sent
      BY <2>1, <2>5, <2>6, <2>7, <2>12, Limits DEF Asked, BufferType
    <3>2. /\ port'.SSR = sent.port.SSR \ {"BEF"} /\ drv'.state = "idle" /\ app'.told = sent.told
          /\ drv'.address_called = sent.drv.address_called
          /\ drv'.trailing_byte_sent = sent.drv.trailing_byte_sent
      BY <1>5, <1>10, <2>12, HandleBitErrorEffect
    <3>3. app'.given_up /\ app'.late
      BY <1>5, <1>13, <2>1, <2>2, <2>12
    <3> HIDE DEF final, k
    <3>4. port'.SSR \cap {"RSF", "SDF", "RDF", "BEF", "AVF"} = {}
      BY <2>10, <3>2
    <3>5. FlagsInv' /\ GivenUpInv' /\ DirectionInv' /\ ReceivingInv' /\ ~Ending'
      BY <1>1, <1>15, <3>2, <3>3, <3>4
      DEF FlagsInv, GivenUpInv, DirectionInv, ReceivingInv, ByteInv, ReportInv, Ending
    <3>6. SendingInv' /\ AskedInv'
      BY <1>1, <1>15, <3>1, <3>2, <3>3, <3>5 DEF SendingInv, AskedInv, Trailing
    <3>7. Done
      BY <2>6, <3>2, <3>3, <3>4, <3>5, <3>6
    <3> QED
      BY <1>14, <3>7
  <2> QED
    BY <2>11, <2>12
<1>16. CASE wire.phase = "sending" /\ given_up
  <2>1. ssr \cap {"RDF", "BEF"} = {} /\ app.late /\ drv.state \in {"idle", "transmitting"}
    BY <1>16, <1>12 DEF ByteInv, FrameInv, FlagsInv, GivenUpInv
  <2>2. TDF = TRUE
    BY <1>1, <1>16, <2>1 DEF Interrupt, Ending, TDF
  <2>3. received = called /\ over = called /\ sent = HandleTransmit(called, TRUE, wanted)
    BY <1>7, <1>9, <1>16, <2>1, <2>2
  <2> HIDE DEF sent
  <2>4. final = sent
    BY <1>10, <2>1, HandleBitErrorEffect
  <2>5. /\ sent.port.SSR = called.port.SSR /\ sent.drv.state = "transmitting"
        /\ sent.drv.address_called = called.drv.address_called
    BY <1>6, <2>1, <2>3, TransmitLeaves
  <2>6. /\ drv'.state = "transmitting" /\ drv'.address_called = AddressKnown
        /\ port'.SSR = ssr \ {"AVF"} /\ app'.given_up /\ app'.late
    BY <1>5, <1>6, <1>16, <1>13, <2>1, <2>4, <2>5
  <2> HIDE DEF final
  <2>7. port'.SSR \cap {"RSF", "SDF", "RDF", "BEF", "AVF"} = {}
    BY <1>16, <2>1, <2>6 DEF Ending
  <2>8. FlagsInv' /\ GivenUpInv' /\ DirectionInv' /\ ReceivingInv' /\ ~Ending'
    BY <1>1, <1>16, <2>6, <2>7
    DEF FlagsInv, GivenUpInv, DirectionInv, ReceivingInv, ByteInv, ReportInv, Ending
  <2>9. SendingInv' /\ AskedInv'
    BY <1>1, <1>16, <2>6, <2>8 DEF SendingInv, AskedInv, Trailing
  <2>10. Done
    BY <1>16, <2>6, <2>7, <2>8, <2>9
  <2> QED
    BY <1>14, <2>10
<1>17. ASSUME wire.phase # "sending"
       PROVE  /\ sent = received /\ ~TDF
              /\ "BEF" \notin ssr => final = received
              /\ "BEF" \in ssr =>
                    /\ final.port.SSR = received.port.SSR \ {"BEF"} /\ final.drv.state = "idle"
                    /\ final.told = received.told
                    /\ final.drv.address_called = received.drv.address_called
                    /\ final.drv.trailing_byte_sent = received.drv.trailing_byte_sent
              /\ final.port.SSR \cap {"RSF", "SDF", "RDF", "BEF", "AVF"} = {}
              /\ ~given_up => over.told = EndCalls(AddressKnown) \o StartCalls(AddressKnown)
  <2>1. sent = received /\ ~TDF
    BY <1>17 DEF TDF, HandleTransmit
  <2> HIDE DEF sent
  <2>2. /\ "BEF" \notin ssr => final = received
        /\ "BEF" \in ssr =>
              /\ final.port.SSR = received.port.SSR \ {"BEF"} /\ final.drv.state = "idle"
              /\ final.told = received.told
              /\ final.drv.address_called = received.drv.address_called
              /\ final.drv.trailing_byte_sent = received.drv.trailing_byte_sent
    BY <1>10, <2>1, HandleBitErrorEffect
  <2> HIDE DEF final
  <2>3. final.port.SSR \cap {"RSF", "SDF", "RDF", "BEF", "AVF"} = {}
    BY <1>8, <1>9, <2>2
  <2>4. over.told = EndCalls(AddressKnown) \o StartCalls(AddressKnown)
    <3>1. EndCalls(AddressKnown) \in Seq(Calls)
      BY <1>1, CallsTyped
    <3>2. StartCalls(AddressKnown) = <<>>
      BY <1>17 DEF StartCalls
    <3> QED
      BY <1>8, <3>1, <3>2, ConcatEmptySeq
  <2> QED
    BY <2>1, <2>2, <2>3, <2>4
<1> HIDE DEF sent, final
<1>18. CASE wire.phase = "receiving" /\ ~given_up
  <2>1. "BEF" \in ssr => Ending /\ app.late
    BY <1>18 DEF ByteInv, FrameInv, FlagsInv, GivenUpInv
  <2>2. /\ Received(received.drv, wire.count)
        /\ received.drv.address_called = AddressKnown
        /\ ~received.drv.trailing_byte_sent /\ received.told = over.told
        /\ "RDF" \notin ssr => wire.count = 0
    <3>1. CASE "RDF" \in ssr
      <4>1. wire.count - 1 \in Nat /\ port.SOF = (wire.count - 1 = 0)
        BY <1>1, <1>18, <3>1 DEF ByteInv, ReportInv, ReceivingInv
      <4>2. Received(over.drv, wire.count - 1) /\ over.drv.state # "transmitting"
        <5>1. CASE Ending
          BY <1>1, <1>7, <1>18, <3>1, <5>1 DEF ByteInv, ReportInv, ReceivingInv, Unread, Received
        <5>2. CASE ~Ending
          <6>1. Received(drv, wire.count - 1)
            BY <1>18, <3>1, <5>2 DEF ByteInv, ReportInv, ReceivingInv, Unread
          <6> QED
            BY <1>6, <1>7, <5>2, <6>1 DEF Received
        <5> QED
          BY <5>1, <5>2
      <4>3. (wire.count - 1) + 1 = wire.count
        BY <1>1
      <4>4. /\ Received(received.drv, (wire.count - 1) + 1)
            /\ received.drv.address_called = over.drv.address_called
            /\ received.drv.trailing_byte_sent = over.drv.trailing_byte_sent
            /\ received.told = over.told
        BY <1>8, <1>9, <3>1, <4>1, <4>2
      <4> QED
        BY <1>8, <3>1, <4>2, <4>3, <4>4 DEF Trailing
    <3>2. CASE "RDF" \notin ssr
      <4>1. Ending
        BY <1>1, <1>18, <1>12, <3>2 DEF Interrupt, Ending
      <4>2. wire.count = 0
        BY <1>18, <3>2, <4>1 DEF ByteInv, ReportInv, ReceivingInv, Unread
      <4> QED
        BY <1>7, <1>8, <1>9, <3>2, <4>1, <4>2 DEF Received, Trailing
    <3> QED
      BY <3>1, <3>2
  <2>3. /\ drv'.address_called = AddressKnown /\ ~drv'.trailing_byte_sent
        /\ app'.told = EndCalls(AddressKnown) \o StartCalls(AddressKnown)
        /\ port'.SSR \cap {"RSF", "SDF", "RDF", "BEF", "AVF"} = {}
    BY <1>5, <1>18, <1>17, <2>2
  <2>4. ~app'.given_up => Received(drv', wire.count)
    <3>1. CASE "BEF" \notin ssr
      BY <1>5, <1>18, <1>17, <2>2, <3>1
    <3>2. CASE "BEF" \in ssr
      <4>1. ~app'.given_up => wire.count = 0
        BY <1>5, <1>13, <2>2, <3>2
      <4>2. drv'.state = "idle"
        BY <1>5, <1>18, <1>17, <3>2
      <4> QED
        BY <4>1, <4>2 DEF Received
    <3> QED
      BY <3>1, <3>2
  <2>5. app'.given_up => app'.late /\ drv'.state = "idle"
    BY <1>5, <1>18, <1>13, <1>17, <2>1
  <2>6. ~Ending' /\ Unread' = 0 /\ wire.count - 0 = wire.count
    BY <1>1, <2>3 DEF Ending, Unread
  <2>7. FlagsInv' /\ GivenUpInv' /\ SendingInv' /\ DirectionInv'
    BY <1>1, <1>18, <2>3, <2>5
    DEF FlagsInv, GivenUpInv, SendingInv, DirectionInv, ByteInv, ReportInv
  <2>8. ReceivingInv'
    BY <1>1, <2>3, <2>4, <2>6 DEF ReceivingInv
  <2>9. AskedInv'
    BY <1>1, <1>18, <2>3 DEF AskedInv, Trailing
  <2>10. Done
    BY <1>18, <2>3, <2>6, <2>7, <2>8, <2>9
  <2> QED
    BY <1>14, <2>10
<1>19. CASE wire.phase = "receiving" /\ given_up
  <2>1. "BEF" \notin ssr /\ app.late /\ drv.state # "transmitting" /\ "RDF" \in ssr
    BY <1>1, <1>19, <1>12 DEF ByteInv, FrameInv, FlagsInv, GivenUpInv, Interrupt, Ending
  <2>2. over = called /\ received = HandleReceive(called, ssr)
    BY <1>7, <1>19 DEF received
  <2>3. /\ received.drv.state \in {called.drv.state, "receiving", "idle"}
        /\ received.drv.address_called = called.drv.address_called
        /\ received.drv.trailing_byte_sent = called.drv.trailing_byte_sent
    BY <1>6, <2>2, ReceiveLeaves
  <2>4. /\ drv'.state # "transmitting" /\ drv'.address_called = AddressKnown
        /\ ~drv'.trailing_byte_sent /\ app'.given_up /\ app'.late
        /\ port'.SSR \cap {"RSF", "SDF", "RDF", "BEF", "AVF"} = {}
    <3>1. ~drv.trailing_byte_sent
      BY <2>1 DEF ByteInv, ReportInv, AskedInv, Trailing
    <3> QED
      BY <1>5, <1>6, <1>19, <1>13, <1>17, <2>1, <2>3, <3>1
  <2>5. FlagsInv' /\ GivenUpInv' /\ SendingInv' /\ DirectionInv' /\ ReceivingInv' /\ ~Ending'
    BY <1>1, <1>19, <2>4
    DEF FlagsInv, GivenUpInv, SendingInv, DirectionInv, ReceivingInv, ByteInv, ReportInv, Ending
  <2>6. AskedInv'
    BY <1>1, <1>19, <2>4 DEF AskedInv, Trailing
  <2>7. Done
    BY <1>19, <2>4, <2>5, <2>6
  <2> QED
    BY <1>14, <2>7
<1>20. CASE wire.phase \notin {"sending", "receiving"}
  <2>1. "RDF" \notin ssr
    BY <1>20 DEF ByteInv, FrameInv, FlagsInv
  <2>2. Ending /\ wire.phase \in {"idle", "address", "ignored"}
    BY <1>1, <1>20, <1>12, <2>1
       DEF Interrupt, Ending, ByteInv, ReportInv, DirectionInv, TypeOK, WireType, Phase
  <2>3. over.drv.state = "idle" /\ ~over.drv.trailing_byte_sent
    BY <1>7, <1>8, <2>2 DEF Trailing
  <2>4. /\ drv'.state = "idle" /\ ~drv'.trailing_byte_sent /\ ~app'.given_up
        /\ drv'.address_called = AddressKnown
        /\ app'.told = EndCalls(AddressKnown) \o StartCalls(AddressKnown)
        /\ port'.SSR \cap {"RSF", "SDF", "RDF", "BEF", "AVF"} = {}
    BY <1>5, <1>8, <1>9, <1>20, <1>13, <1>17, <2>1, <2>2, <2>3
  <2>5. /\ FlagsInv' /\ GivenUpInv' /\ SendingInv' /\ DirectionInv' /\ ReceivingInv' /\ AskedInv'
        /\ ~Ending'
    BY <1>1, <2>2, <2>4
       DEF FlagsInv, GivenUpInv, SendingInv, DirectionInv, ReceivingInv, AskedInv, Trailing, Ending
  <2>6. Done
    BY <1>20, <2>4, <2>5
  <2> QED
    BY <1>14, <2>6
<1> QED
  BY <1>15, <1>16, <1>18, <1>19, <1>20

------------------------------------------------------------------------------
\* The thread calls the driver while no frame is addressed to the slave.
LEMMA ThreadByteStep == PatientApp /\ ByteInv /\ Thread => FrameInv'
<1> SUFFICES ASSUME PatientApp, ByteInv, Thread PROVE FlagsInv' /\ GivenUpInv' /\ SendingInv'
  BY DEF FrameInv
<1>1. TypeOK
  BY DEF ByteInv, Inv
<1>2. ~Interrupt /\ wire.phase \in {"idle", "ignored"}
  BY DEF Thread, listen, stop_listening, SetBuffer, SetPointer, SetSize, MayCall, ByteInv, Inv, Quiet
<1>3. drv.state = "idle" /\ ~Ending
  BY <1>2 DEF ByteInv, FrameInv, FlagsInv, Ending, Interrupt
<1>4. drv'.state = "idle"
  BY <1>1, <1>3 DEF Thread, listen, stop_listening, SetBuffer, SetPointer, SetSize, TypeOK, DriverType
<1>5. wire'.phase \in {"idle", "ignored"}
  BY <1>1, <1>2 DEF Thread, listen, stop_listening, SetBuffer, SetPointer, SetSize, Matched, TypeOK, WireType
<1>6. port'.SSR \subseteq port.SSR
  BY <1>1 DEF Thread, listen, stop_listening, SetBuffer, SetPointer, SetSize, ResetPort, TypeOK, PortType
<1>7. port.SSR \cap {"RDF", "BEF"} = {} /\ ~app.given_up
  BY <1>2, <1>3 DEF ByteInv, FrameInv, FlagsInv, GivenUpInv
<1>8. ~app'.given_up
  BY <1>1, <1>7 DEF Thread, listen, stop_listening, SetBuffer, SetPointer, SetSize, TypeOK, AppType
<1> QED
  BY <1>4, <1>5, <1>6, <1>7, <1>8 DEF FlagsInv, GivenUpInv, SendingInv

\* What a step of the bus adds to the callbacks due, and when it is late.
LEMMA DueFacts ==
    ASSUME TypeOK, NEW calls
    PROVE  /\ Due(calls) => /\ app'.due = app.due \o calls /\ app'.late = app.late
                            /\ app'.given_up = app.given_up
           /\ DueByte(calls) => /\ app'.due = app.due \o calls /\ app'.given_up = app.given_up
                                /\ app'.late <=> app.late \/ Interrupt
           /\ app.due \o <<>> = app.due
<1>1. app.due \in Seq(Calls) /\ app.late \in BOOLEAN
  BY DEF TypeOK, AppType
<1>2. app.due \o <<>> = app.due
  BY <1>1, ConcatEmptySeq
<1>3. Due(calls) => /\ app'.due = app.due \o calls /\ app'.late = app.late
                    /\ app'.given_up = app.given_up
  BY DEF Due, TypeOK, AppType
<1>4. DueByte(calls) => /\ app'.due = app.due \o calls /\ app'.given_up = app.given_up
                        /\ app'.late <=> app.late \/ Interrupt
  BY DEF DueByte, TypeOK, AppType
<1> QED
  BY <1>2, <1>3, <1>4

\* Frames begin and end: the flags.
LEMMA ConditionByteStep ==
    ASSUME ByteInv, UNCHANGED drv, app'.given_up = app.given_up, app.late => app'.late,
           StartCondition \/ StopCondition
    PROVE  FrameInv'
<1>1. TypeOK
  BY DEF ByteInv, Inv
<1>2. wire'.phase \in {"idle", "address"}
  BY <1>1 DEF StartCondition, StopCondition, TypeOK, WireType
<1>3. wire.phase \in {"idle", "ignored", "receiving", "over"} /\ "RDF" \notin port.SSR
  BY DEF StartCondition, StopCondition, Stalled, ByteInv, FrameInv, FlagsInv
<1>4. CASE Matched
  <2>1. port'.SSR \cap {"RSF", "SDF"} # {} /\ port'.SSR \subseteq port.SSR \cup {"RSF", "SDF"}
    BY <1>1, <1>4 DEF StartCondition, StopCondition, Raise, TypeOK, PortType
  <2> QED
    BY <1>2, <1>3, <2>1 DEF FrameInv, FlagsInv, GivenUpInv, SendingInv, Ending, ByteInv
<1>5. CASE ~Matched
  <2>1. port' = port /\ wire.phase \in {"idle", "ignored"}
    BY <1>3, <1>5 DEF StartCondition, StopCondition, Matched
  <2> QED
    BY <1>2, <1>3, <2>1 DEF FrameInv, FlagsInv, GivenUpInv, SendingInv, Ending, ByteInv
<1> QED
  BY <1>4, <1>5

\* The address: the slave's own, or another's. An end of a frame not handled by then is late.
LEMMA AddressByteStep ==
    ASSUME ByteInv, UNCHANGED drv, NEW calls, DueByte(calls),
           SomeoneElseCalled \/ \E a \in Addresses, direction \in {"write", "read"} : Called(a, direction)
    PROVE  FrameInv'
<1>1. TypeOK /\ wire.phase = "address"
  BY DEF ByteInv, Inv, SomeoneElseCalled, Called
<1>2. "RDF" \notin port.SSR /\ ("BEF" \in port.SSR \/ app.given_up => Ending)
  BY <1>1 DEF ByteInv, FrameInv, FlagsInv, GivenUpInv
<1>3. Ending \/ drv.state = "idle"
  BY <1>1 DEF ByteInv, FrameInv, FlagsInv
<1>4. app'.given_up = app.given_up /\ (app.late \/ Ending => app'.late)
  BY <1>1, DueFacts DEF Interrupt, Ending
<1>5. app.given_up => app.late
  BY DEF ByteInv, FrameInv, GivenUpInv
<1>6. CASE SomeoneElseCalled
  <2>1. wire'.phase = "ignored" /\ port' = port
    BY <1>1, <1>6 DEF SomeoneElseCalled, TypeOK, WireType
  <2>2. Ending' = Ending
    BY <2>1 DEF Ending
  <2> QED
    BY <1>2, <1>3, <1>4, <1>5, <2>1, <2>2 DEF FrameInv, FlagsInv, GivenUpInv, SendingInv
<1>7. CASE \E a \in Addresses, direction \in {"write", "read"} : Called(a, direction)
  <2>1. PICK a \in Addresses, direction \in {"write", "read"} : Called(a, direction)
    BY <1>7
  <2>2. port'.SSR = port.SSR \cup {"AVF"} /\ (direction = "read" => port'.STDR = Nothing)
    BY <1>1, <2>1 DEF Called, TypeOK, PortType
  <2>3. /\ wire'.phase = IF direction = "read" THEN "sending" ELSE "receiving"
        /\ wire'.count = 0 /\ wire'.shift = Nothing
    BY <2>1 DEF Called
  <2>4. Ending' = Ending
    BY <2>2 DEF Ending
  <2> QED
    BY <1>2, <1>3, <1>4, <1>5, <2>2, <2>3, <2>4
    DEF FrameInv, FlagsInv, GivenUpInv, SendingInv, Untouched
<1> QED
  BY <1>6, <1>7

\* A byte is written, put on the wire, read, or spoilt.
LEMMA DataByteStep ==
    ASSUME ByteInv, "deaf" \notin Faults, UNCHANGED drv, app'.given_up = app.given_up,
           app.late => app'.late,
           \/ ByteWritten \/ ShiftOut \/ BitError
           \/ \E answer \in {"ACK", "NACK"} : ByteRead(answer)
    PROVE  FrameInv'
<1>1. TypeOK /\ wire.count \in Nat /\ FlagsInv /\ GivenUpInv /\ SendingInv
  BY Limits DEF ByteInv, FrameInv, Inv, TypeOK, WireType
<1>2. CASE ByteWritten
  <2>1. wire'.phase = "receiving" /\ wire.phase = "receiving" /\ port'.SSR = port.SSR \cup {"RDF"}
    BY <1>1, <1>2 DEF ByteWritten, TypeOK, WireType, PortType
  <2>2. Ending' = Ending
    BY <2>1 DEF Ending
  <2> QED
    BY <1>1, <2>1, <2>2 DEF FrameInv, FlagsInv, GivenUpInv, SendingInv
\* What a byte on the wire, or on its way there, says of the driver.
<1>3. ASSUME wire.phase = "sending", wire.shift # Nothing \/ port.STDR # Nothing
      PROVE  /\ port.SSR \cap {"RDF", "BEF"} = {} /\ ~Ending
             /\ drv.state \in {"idle", "transmitting"}
             /\ ~app.given_up => drv.state = "transmitting" /\ Underway(drv.tx_buffer, port.STDR)
  BY <1>1, <1>3 DEF FlagsInv, GivenUpInv, SendingInv, Untouched
<1>4. CASE BitError
  <2>1. /\ wire'.phase = "over" /\ wire.phase = "sending" /\ wire.shift # Nothing
        /\ port'.SSR = port.SSR \cup {"BEF"}
    BY <1>1, <1>4 DEF BitError, Raise, TypeOK, WireType, PortType
  <2> QED
    BY <1>1, <1>3, <2>1 DEF FrameInv, FlagsInv, GivenUpInv, SendingInv
<1>5. CASE ShiftOut
  <2>1. /\ wire.phase = "sending" /\ wire.shift = Nothing /\ port.STDR # Nothing
        /\ port'.SSR = port.SSR /\ port'.STDR = Nothing
        /\ wire'.phase = "sending" /\ wire'.shift = port.STDR /\ wire'.count = wire.count
    BY <1>1, <1>5 DEF ShiftOut, TypeOK, WireType, PortType
  <2>2. ~app.given_up => Underway(drv.tx_buffer, port.STDR)'
    BY <1>3, <2>1 DEF Underway, CursorAt, ByteOf
  <2> QED
    BY <1>1, <1>3, <2>1, <2>2 DEF FrameInv, FlagsInv, GivenUpInv, SendingInv, Ending
<1>6. CASE \E answer \in {"ACK", "NACK"} : ByteRead(answer)
  <2>1. PICK answer \in {"ACK", "NACK"} : ByteRead(answer)
    BY <1>6
  <2>2. /\ wire.phase = "sending" /\ wire.shift # Nothing /\ port' = port
        /\ wire'.phase = (IF answer = "ACK" THEN "sending" ELSE "over")
        /\ wire'.shift = Nothing /\ wire'.count = wire.count + 1
    BY <1>1, <2>1 DEF ByteRead, TypeOK, WireType
  <2>3. (wire.count + 1) + 1 = wire.count + 2
    BY <1>1
  <2>4. ~app.given_up => Underway(drv.tx_buffer, port.STDR)'
    BY <1>3, <2>2, <2>3 DEF Underway, CursorAt, ByteOf
  <2> QED
    BY <1>1, <1>3, <2>2, <2>4 DEF FrameInv, FlagsInv, GivenUpInv, SendingInv, Ending
<1> QED
  BY <1>2, <1>4, <1>5, <1>6

LEMMA BusByteStep == ASSUME "deaf" \notin Faults, ByteInv, Bus PROVE FrameInv'
<1>1. UseBus /\ UNCHANGED drv
  BY DEF Bus
<1>2. \A calls : Due(calls) \/ DueByte(calls) =>
        app'.given_up = app.given_up /\ (app.late => app'.late)
  BY DueFacts DEF ByteInv, Inv
<1>3. CASE (StartCondition \/ StopCondition) /\ Due(CallsAtEnd)
  BY <1>1, <1>2, <1>3, ConditionByteStep
<1>4. CASE \E a \in Addresses : Called(a, "write") /\ DueByte(<<>>)
  BY <1>1, <1>4, AddressByteStep
<1>5. CASE \E a \in Addresses : Called(a, "read") /\ DueByte(<<Call("before_transmit", 0, a)>>)
  BY <1>1, <1>5, AddressByteStep
<1>6. CASE SomeoneElseCalled /\ DueByte(<<>>)
  BY <1>1, <1>6, AddressByteStep
<1>7. CASE \/ ByteWritten /\ DueByte(<<>>)
           \/ (ShiftOut \/ BitError) /\ Due(<<>>)
           \/ \E answer \in {"ACK", "NACK"} : ByteRead(answer) /\ DueByte(<<>>)
  BY <1>1, <1>2, <1>7, DataByteStep
<1> QED
  BY <1>1, <1>3, <1>4, <1>5, <1>6, <1>7 DEF UseBus

------------------------------------------------------------------------------
(* What becomes of the callbacks that are due, and of the error. *)

\* When nothing but the time passes for the callbacks.
LEMMA SameCalls ==
    ASSUME CallsInv, drv' = drv, Ending' = Ending, AddressKnown' = AddressKnown,
           app'.due = app.due, ~app'.late => ~app.late, wire'.address = wire.address,
           app'.given_up = app.given_up, Matched' => Matched,
           ~app.given_up =>
              (wire.phase = "sending" /\ (Ending \/ drv.state = "idle") <=>
                  wire'.phase = "sending" /\ (Ending \/ drv.state = "idle"))
    PROVE  CallsInv'
<1> SUFFICES ASSUME ~app.given_up PROVE CallsInv'
  BY DEF CallsInv
<1>1. \A a : EndCalls(a)' = EndCalls(a) /\ StartCalls(a)' = StartCalls(a)
  BY DEF EndCalls, StartCalls, CallOf
<1>2. PICK ended \in Addresses \cup {0}, wanted \in Addresses \cup {0} :
        /\ app.due = EndCalls(ended) \o StartCalls(wanted)
        /\ ~app.late => ended = AddressKnown /\ wanted = AddressKnown
  BY DEF CallsInv
<1>3. /\ app'.due = EndCalls(ended)' \o StartCalls(wanted)'
      /\ ~app'.late => ended = AddressKnown' /\ wanted = AddressKnown'
  BY <1>1, <1>2
<1> QED
  BY <1>3 DEF CallsInv

LEMMA MinIsSmaller == \A i \in Nat, j \in Nat : Min({i, j}) = Smaller(i, j)
<1> SUFFICES ASSUME NEW i \in Nat, NEW j \in Nat PROVE Min({i, j}) = Smaller(i, j)
  OBVIOUS
<1>1. Smaller(i, j) \in {i, j} /\ \A y \in {i, j} : Smaller(i, j) <= y
  BY DEF Smaller
<1>2. \A x \in {i, j} : (\A y \in {i, j} : x <= y) => x = Smaller(i, j)
  BY DEF Smaller
<1> QED
  BY <1>1, <1>2 DEF Min

\* What the frame on the bus calls for when it ends is what the driver's state will make of it.
LEMMA CallsAtEndAreMade ==
    ASSUME ByteInv, Matched, ~Ending, ~app.given_up, wire.phase # "sending", ~Stalled
    PROVE  CallsAtEnd = CallOf(drv, wire.address)
<1>1. wire.count \in Nat /\ drv.rx_buffer.size \in Nat
  BY Limits DEF ByteInv, Inv, TypeOK, WireType, DriverType
<1>2. CASE wire.phase = "over"
  BY <1>2 DEF ByteInv, ReportInv, DirectionInv, CallsAtEnd, CallOf, Matched
<1>3. CASE wire.phase = "receiving"
  <2>1. wire.direction = "write" /\ Received(drv, wire.count)
    <3>1. "RDF" \notin port.SSR
      BY <1>3 DEF Stalled
    <3>2. wire.count - Unread = wire.count
      BY <1>1, <3>1 DEF Unread
    <3> QED
      BY <1>3, <3>2 DEF ByteInv, ReportInv, DirectionInv, ReceivingInv
  <2>2. CASE wire.count > 0 /\ initialised(drv.rx_buffer)
    <3>1. drv.state = "receiving"
          /\ get_bytes_transferred(drv.rx_buffer) = Smaller(wire.count, drv.rx_buffer.size)
      BY <2>1, <2>2 DEF Received, get_bytes_transferred
    <3>2. CallsAtEnd =
            <<Call("after_receive", Min({wire.count, drv.rx_buffer.size}), wire.address)>>
      BY <1>3, <2>1, <2>2 DEF CallsAtEnd, Matched
    <3> QED
      BY <1>1, <3>1, <3>2, MinIsSmaller DEF CallOf
  <2>3. CASE ~(wire.count > 0 /\ initialised(drv.rx_buffer))
    <3>1. drv.state = "idle"
      BY <2>1, <2>3 DEF Received
    <3>2. CallsAtEnd = <<>>
      BY <1>3, <2>1, <2>3 DEF CallsAtEnd, Matched
    <3> QED
      BY <3>1, <3>2 DEF CallOf
  <2> QED
    BY <2>2, <2>3
<1> QED
  BY <1>2, <1>3 DEF Matched

\* Frames begin and end.
LEMMA ConditionReport ==
    ASSUME ByteInv, UNCHANGED drv, StartCondition \/ StopCondition, Due(CallsAtEnd)
    PROVE  ReportInv'
<1>1. TypeOK /\ CallsInv /\ Trailing(drv)
  BY DEF ByteInv, Inv, ReportInv, AskedInv
<1>2. wire'.phase \in {"idle", "address"} /\ wire'.address = wire.address
  BY <1>1 DEF StartCondition, StopCondition, TypeOK, WireType
<1>3. wire.phase \in {"idle", "ignored", "receiving", "over"} /\ "RDF" \notin port.SSR /\ ~Stalled
  BY DEF StartCondition, StopCondition, Stalled, ByteInv, FrameInv, FlagsInv
<1>4. DirectionInv' /\ ReceivingInv' /\ AskedInv'
  BY <1>1, <1>2 DEF DirectionInv, ReceivingInv, AskedInv, Trailing
<1>5. app'.due = app.due \o CallsAtEnd /\ app'.late = app.late /\ app.due \o <<>> = app.due
      /\ app'.given_up = app.given_up
  BY <1>1, DueFacts
<1>6. CASE ~Matched
  <2>1. port' = port /\ CallsAtEnd = <<>>
    BY <1>6 DEF StartCondition, StopCondition, CallsAtEnd
  <2>2. Ending' = Ending /\ AddressKnown' = AddressKnown
    BY <2>1 DEF Ending, AddressKnown
  <2>3. CallsInv'
    BY <1>1, <1>2, <1>3, <1>5, <2>1, <2>2, SameCalls DEF Matched
  <2> QED
    BY <1>4, <2>3 DEF ReportInv
<1>7. CASE Matched
  <2>1. PICK flag \in {"RSF", "SDF"} : port' = [port EXCEPT !.SSR = @ \cup {flag}]
    BY <1>7 DEF StartCondition, StopCondition, Raise
  <2>2. Ending' /\ AddressKnown' = AddressKnown
    BY <1>1, <2>1 DEF Ending, AddressKnown, TypeOK, PortType
  <2>3. \A a : EndCalls(a)' = CallOf(drv, a) /\ StartCalls(a)' = <<>> /\ StartCalls(a) = <<>>
    BY <1>2, <1>3, <2>2 DEF EndCalls, StartCalls, CallOf
  <2>4. ~app'.late => AddressKnown' = wire'.address
    BY <1>1, <1>2, <1>5, <1>7, <2>2 DEF CallsInv
  <2>5. PICK address \in Addresses : address = wire.address
    BY <1>1 DEF TypeOK, WireType
  <2>6. CASE app.given_up
    BY <1>4, <1>5, <2>4, <2>6 DEF ReportInv, CallsInv
  <2>7. CASE ~Ending /\ ~app.given_up
    <3>1. app.due = <<>>
      <4>1. \A a : EndCalls(a) = <<>>
        BY <2>7 DEF EndCalls
      <4> QED
        BY <1>1, <2>3, <2>7, <4>1, ConcatEmptySeq DEF CallsInv
    <3>2. CallsAtEnd = CallOf(drv, address)
      BY <1>3, <1>7, <2>5, <2>7, CallsAtEndAreMade
    <3>3. CallOf(drv, address) \in Seq(Calls)
      BY <1>1, <2>5, CallsTyped
    <3>4. app'.due = EndCalls(address)' \o StartCalls(address)'
      <4>1. app'.due = <<>> \o CallOf(drv, address)
        BY <1>5, <3>1, <3>2
      <4> QED
        BY <2>3, <3>3, <4>1, ConcatEmptySeq
    <3>5. ~app'.late => address = AddressKnown'
      BY <1>2, <2>4, <2>5
    <3> QED
      BY <1>4, <2>4, <2>5, <3>4, <3>5 DEF ReportInv, CallsInv
  <2>8. CASE Ending /\ ~app.given_up
    <3>1. wire.phase = "receiving" /\ wire.direction = "write" /\ wire.count = 0
      BY <1>3, <1>7, <2>8 DEF ByteInv, ReportInv, DirectionInv, ReceivingInv, Unread, Matched
    <3>2. CallsAtEnd = <<>>
      BY <3>1 DEF CallsAtEnd, Matched
    <3>3. PICK ended \in Addresses \cup {0}, wanted \in Addresses \cup {0} :
            /\ app.due = EndCalls(ended) \o StartCalls(wanted)
            /\ ~app.late => ended = AddressKnown /\ wanted = AddressKnown
      BY <1>1, <2>8 DEF CallsInv
    <3>4. app'.due = EndCalls(ended)' \o StartCalls(wanted)'
      BY <1>5, <2>3, <2>8, <3>2, <3>3 DEF EndCalls
    <3>5. ~app'.late => ended = AddressKnown' /\ wanted = AddressKnown'
      BY <1>5, <2>2, <3>3
    <3> QED
      BY <1>4, <2>4, <3>4, <3>5 DEF ReportInv, CallsInv
  <2> QED
    BY <2>7, <2>8, <2>6
<1> QED
  BY <1>6, <1>7

\* The slave's own address.
LEMMA CalledReport ==
    ASSUME ByteInv, UNCHANGED drv, NEW a \in Addresses, NEW direction \in {"write", "read"},
           Called(a, direction),
           DueByte(IF direction = "read" THEN <<Call("before_transmit", 0, a)>> ELSE <<>>)
    PROVE  ReportInv'
<1> DEFINE calls == IF direction = "read" THEN <<Call("before_transmit", 0, a)>> ELSE <<>>
<1>1. TypeOK /\ CallsInv /\ Trailing(drv) /\ wire.phase = "address"
  BY DEF ByteInv, Inv, ReportInv, AskedInv, Called
<1>2. /\ port'.SSR = port.SSR \cup {"AVF"} /\ port'.SASR = a
      /\ wire'.phase = (IF direction = "read" THEN "sending" ELSE "receiving")
      /\ wire'.direction = direction /\ wire'.address = a /\ wire'.count = 0
  BY <1>1 DEF Called, TypeOK, PortType
<1>3. "RDF" \notin port.SSR /\ (Ending \/ drv.state = "idle") /\ Ending' = Ending
  BY <1>1, <1>2 DEF ByteInv, FrameInv, FlagsInv, Ending
<1>4. /\ app'.due = app.due \o calls /\ app'.given_up = app.given_up
      /\ ~app'.late => ~app.late /\ ~Interrupt
  BY <1>1, DueFacts
<1>5. DirectionInv' /\ ReceivingInv'
  <2>1. Unread' = 0
    BY <1>2, <1>3 DEF Unread
  <2> QED
    BY <1>2, <1>3, <2>1 DEF DirectionInv, ReceivingInv, Received
<1>6. AskedInv'
  BY <1>1, <1>2, <1>3 DEF AskedInv, Trailing
<1>7. AddressKnown' = a
  BY <1>2 DEF AddressKnown
<1> SUFFICES ASSUME ~app.given_up PROVE CallsInv'
  BY <1>2, <1>4, <1>5, <1>6, <1>7 DEF CallsInv, ReportInv
<1>8. /\ \A x : EndCalls(x)' = EndCalls(x)
      /\ StartCalls(a)' = calls /\ \A x : StartCalls(x) = <<>>
  BY <1>1, <1>2, <1>3 DEF EndCalls, StartCalls, CallOf
<1>9. PICK ended \in Addresses \cup {0} : app.due = EndCalls(ended) /\ (~Ending => ended = a)
  <2>1. PICK e \in Addresses \cup {0}, wanted \in Addresses \cup {0} :
          app.due = EndCalls(e) \o StartCalls(wanted)
    BY <1>1 DEF CallsInv
  <2>2. EndCalls(e) \in Seq(Calls)
    BY <1>1, CallsTyped
  <2>3. app.due = EndCalls(e)
    BY <1>8, <2>1, <2>2, ConcatEmptySeq
  <2>4. ~Ending => app.due = EndCalls(a)
    BY <2>3 DEF EndCalls
  <2> QED
    BY <2>3, <2>4
<1>10. ~app'.late => ended = a
  BY <1>4, <1>9 DEF Interrupt, Ending
<1> HIDE DEF calls
<1>11. app'.due = EndCalls(ended)' \o StartCalls(a)'
  BY <1>4, <1>8, <1>9
<1> QED
  BY <1>2, <1>7, <1>10, <1>11 DEF CallsInv

\* Another slave's, and the bytes of a frame.
LEMMA DataReport ==
    ASSUME ByteInv, "deaf" \notin Faults, UNCHANGED drv,
           \/ (SomeoneElseCalled \/ ByteWritten) /\ DueByte(<<>>)
           \/ (ShiftOut \/ BitError) /\ Due(<<>>)
           \/ \E answer \in {"ACK", "NACK"} : ByteRead(answer) /\ DueByte(<<>>)
    PROVE  ReportInv'
<1>1. TypeOK /\ CallsInv /\ Trailing(drv) /\ wire.count \in Nat
  BY Limits DEF ByteInv, Inv, ReportInv, AskedInv, TypeOK, WireType
<1>2. app'.due = app.due /\ (~app'.late => ~app.late) /\ app'.given_up = app.given_up
  BY <1>1, DueFacts
<1>3. CASE SomeoneElseCalled
  <2>1. port' = port /\ wire'.phase = "ignored" /\ wire.phase = "address" /\ wire'.address = wire.address
    BY <1>1, <1>3 DEF SomeoneElseCalled, TypeOK, WireType
  <2>2. Ending' = Ending /\ AddressKnown' = AddressKnown /\ ~Matched'
    BY <2>1 DEF Ending, AddressKnown, Matched
  <2>3. CallsInv'
    BY <1>1, <1>2, <2>1, <2>2, SameCalls
  <2> QED
    BY <1>1, <2>1, <2>3 DEF ReportInv, DirectionInv, ReceivingInv, AskedInv, Trailing
<1>4. CASE ByteWritten
  <2>1. /\ wire.phase = "receiving" /\ "RDF" \notin port.SSR
        /\ port'.SSR = port.SSR \cup {"RDF"} /\ port'.SOF = (wire.count = 0) /\ port'.SASR = port.SASR
        /\ wire'.phase = "receiving" /\ wire'.count = wire.count + 1
        /\ wire'.direction = wire.direction /\ wire'.address = wire.address
    BY <1>1, <1>4 DEF ByteWritten, Stalled, TypeOK, PortType, WireType
  <2>2. Ending' = Ending /\ AddressKnown' = AddressKnown /\ (Matched' => Matched)
    BY <2>1 DEF Ending, AddressKnown, Matched
  <2>3. Unread = 0 /\ Unread' = 1 /\ wire.count - 0 = wire.count /\ (wire.count + 1) - 1 = wire.count
    BY <1>1, <2>1 DEF Unread
  <2>4. ReceivingInv'
    <3>1. wire'.count > 0 /\ (wire.count = 0 <=> wire'.count = 1)
      BY <1>1, <2>1
    <3>2. /\ Ending => wire.count = 0
          /\ ~Ending /\ ~app.given_up => Received(drv, wire.count)
      BY <2>1, <2>3 DEF ByteInv, ReportInv, ReceivingInv
    <3> QED
      BY <1>1, <1>2, <2>1, <2>2, <2>3, <3>1, <3>2 DEF ReceivingInv
  <2>5. CallsInv'
    BY <1>1, <1>2, <2>1, <2>2, SameCalls
  <2> QED
    BY <1>1, <2>1, <2>4, <2>5 DEF ReportInv, DirectionInv, AskedInv, Trailing, ByteInv
<1>5. CASE ShiftOut
  <2>1. /\ wire.phase = "sending" /\ wire.shift = Nothing /\ port.STDR # Nothing
        /\ port'.SSR = port.SSR /\ port'.SASR = port.SASR /\ port'.STDR = Nothing
        /\ wire'.phase = "sending" /\ wire'.shift = port.STDR /\ wire'.count = wire.count
        /\ wire'.direction = wire.direction /\ wire'.address = wire.address
    BY <1>1, <1>5 DEF ShiftOut, TypeOK, WireType, PortType
  <2>2. Ending' = Ending /\ AddressKnown' = AddressKnown /\ (Matched' => Matched)
    BY <2>1 DEF Ending, AddressKnown, Matched
  <2>3. Handed' = Handed
    BY <1>1, <2>1 DEF Handed
  <2>4. CallsInv'
    BY <1>1, <1>2, <2>1, <2>2, SameCalls
  <2> QED
    BY <1>1, <1>2, <2>1, <2>2, <2>3, <2>4
       DEF ReportInv, DirectionInv, ReceivingInv, AskedInv, Trailing, Asked, ByteInv
<1>6. CASE BitError
  <2>1. /\ wire.phase = "sending" /\ wire.shift # Nothing
        /\ port'.SSR = port.SSR \cup {"BEF"} /\ port'.SASR = port.SASR
        /\ wire'.phase = "over" /\ wire'.direction = wire.direction /\ wire'.address = wire.address
    BY <1>1, <1>6 DEF BitError, Raise, TypeOK, WireType, PortType
  <2>2. Ending' = Ending /\ AddressKnown' = AddressKnown /\ (Matched' => Matched)
    BY <2>1 DEF Ending, AddressKnown, Matched
  <2>3. ~Ending /\ (~app.given_up => drv.state = "transmitting")
    BY <2>1 DEF ByteInv, FrameInv, SendingInv, Untouched
  <2>4. CallsInv'
    BY <1>1, <1>2, <2>1, <2>2, <2>3, SameCalls
  <2> QED
    BY <1>1, <1>2, <2>1, <2>2, <2>3, <2>4
       DEF ReportInv, DirectionInv, ReceivingInv, AskedInv, Trailing, ByteInv
<1>7. CASE \E answer \in {"ACK", "NACK"} : ByteRead(answer) /\ DueByte(<<>>)
  <2>1. PICK answer \in {"ACK", "NACK"} : ByteRead(answer)
    BY <1>7
  <2>2. /\ wire.phase = "sending" /\ wire.shift # Nothing /\ port' = port
        /\ wire'.phase = (IF answer = "ACK" THEN "sending" ELSE "over")
        /\ wire'.shift = Nothing /\ wire'.count = wire.count + 1
        /\ wire'.direction = wire.direction /\ wire'.address = wire.address
    BY <1>1, <2>1 DEF ByteRead, TypeOK, WireType
  <2>3. Ending' = Ending /\ AddressKnown' = AddressKnown /\ (Matched' => Matched)
    BY <2>2 DEF Ending, AddressKnown, Matched
  <2>4. /\ ~Ending
        /\ ~app.given_up => drv.state = "transmitting" /\ Handed > 0 /\ Asked(drv, Handed)
    BY <2>2 DEF ByteInv, FrameInv, SendingInv, Untouched, ReportInv, AskedInv
  <2>5. Handed' = Handed
    BY <1>1, <2>2 DEF Handed
  <2>6. CallsInv'
    BY <1>1, <1>2, <2>2, <2>3, <2>4, SameCalls
  <2>7. ~app'.late /\ answer = "NACK" => Handed = wire'.count + 1
    <3>1. ~app'.late => port.STDR # Nothing
      BY <1>1, <1>7, <2>2, DueFacts DEF Interrupt, TDF
    <3> QED
      BY <1>1, <2>2, <3>1 DEF Handed
  <2>8. AskedInv'
    <3>1. app.given_up => app.late
      BY DEF ByteInv, FrameInv, GivenUpInv
    <3> QED
      BY <1>1, <1>2, <2>2, <2>4, <2>5, <2>7, <3>1 DEF AskedInv, Trailing, Asked
  <2> QED
    BY <1>2, <2>2, <2>3, <2>4, <2>6, <2>8 DEF ReportInv, DirectionInv, ReceivingInv, ByteInv
<1> QED
  BY <1>3, <1>4, <1>5, <1>6, <1>7

LEMMA BusReport == ASSUME "deaf" \notin Faults, ByteInv, Bus PROVE ReportInv'
<1>1. UseBus /\ UNCHANGED drv
  BY DEF Bus
<1>2. CASE (StartCondition \/ StopCondition) /\ Due(CallsAtEnd)
  BY <1>1, <1>2, ConditionReport
<1>3. CASE \E a \in Addresses : Called(a, "write") /\ DueByte(<<>>)
  <2>1. PICK a \in Addresses : Called(a, "write") /\ DueByte(<<>>)
    BY <1>3
  <2> QED
    BY <1>1, <2>1, CalledReport
<1>4. CASE \E a \in Addresses : Called(a, "read") /\ DueByte(<<Call("before_transmit", 0, a)>>)
  <2>1. PICK a \in Addresses : Called(a, "read") /\ DueByte(<<Call("before_transmit", 0, a)>>)
    BY <1>4
  <2> QED
    BY <1>1, <2>1, CalledReport
<1>5. CASE \/ (SomeoneElseCalled \/ ByteWritten) /\ DueByte(<<>>)
           \/ (ShiftOut \/ BitError) /\ Due(<<>>)
           \/ \E answer \in {"ACK", "NACK"} : ByteRead(answer) /\ DueByte(<<>>)
  BY <1>1, <1>5, DataReport
<1> QED
  BY <1>1, <1>2, <1>3, <1>4, <1>5 DEF UseBus

\* Between two frames the thread finds nothing due and leaves it so.
LEMMA ThreadReport == ASSUME PatientApp, ByteInv, Thread PROVE ReportInv'
<1>1. TypeOK /\ TypeOK' /\ CallsInv /\ Trailing(drv)
  BY Step DEF ByteInv, Inv, ReportInv, AskedInv, Next
<1>2. ~Interrupt /\ wire.phase \in {"idle", "ignored"}
  BY DEF Thread, listen, stop_listening, SetBuffer, SetPointer, SetSize, MayCall, ByteInv, Inv, Quiet
<1>3. drv.state = "idle" /\ ~Ending /\ ~app.given_up
  BY <1>2 DEF ByteInv, FrameInv, FlagsInv, GivenUpInv, Ending, Interrupt
<1>4. drv'.trailing_byte_sent = drv.trailing_byte_sent
  BY <1>1 DEF Thread, listen, stop_listening, SetBuffer, SetPointer, SetSize, TypeOK, DriverType
<1>5. wire'.phase \in {"idle", "ignored"}
  BY <1>1, <1>2 DEF Thread, listen, stop_listening, SetBuffer, SetPointer, SetSize, Matched, TypeOK, WireType
<1>6. port'.SSR \subseteq port.SSR
  BY <1>1 DEF Thread, listen, stop_listening, SetBuffer, SetPointer, SetSize, ResetPort, TypeOK, PortType
<1>7. ~Ending' /\ ~Matched'
  BY <1>3, <1>5, <1>6 DEF Ending, Matched
<1>8. app.due = <<>>
  <2>1. \A a : EndCalls(a) = <<>> /\ StartCalls(a) = <<>>
    BY <1>2, <1>3 DEF EndCalls, StartCalls
  <2> QED
    BY <1>1, <1>3, <2>1, ConcatEmptySeq DEF CallsInv
<1>9. app'.due = <<>>
  BY <1>1, <1>8 DEF Thread, listen, stop_listening, SetBuffer, SetPointer, SetSize, TypeOK, AppType
<1>10. CallsInv'
  BY <1>1, <1>5, <1>7, <1>9, NothingDue
<1> QED
  BY <1>1, <1>3, <1>4, <1>5, <1>10 DEF ReportInv, DirectionInv, ReceivingInv, AskedInv, Trailing

------------------------------------------------------------------------------
LEMMA InitByte == Init => ByteInv
<1> SUFFICES ASSUME Init PROVE FrameInv /\ ReportInv
  BY Initially DEF ByteInv
<1>1. FrameInv /\ DirectionInv /\ ReceivingInv /\ AskedInv
  BY DEF Init, FrameInv, FlagsInv, GivenUpInv, SendingInv, DirectionInv, ReceivingInv, AskedInv, Trailing
<1>2. app.due = <<>> /\ ~Ending /\ ~Matched /\ wire.phase # "sending"
  BY DEF Init, Ending, Matched
<1>3. \A a : EndCalls(a) = <<>> /\ StartCalls(a) = <<>>
  BY <1>2 DEF EndCalls, StartCalls
<1>4. <<>> \o <<>> = <<>>
  BY ConcatEmptySeq
<1>5. AddressKnown \in Addresses \cup {0}
  BY Initially, CallsTyped DEF Inv
<1>6. CallsInv
  BY <1>2, <1>3, <1>4, <1>5 DEF CallsInv
<1> QED
  BY <1>1, <1>6 DEF ReportInv

LEMMA ByteStep == ASSUME PatientApp, "deaf" \notin Faults, ByteInv, [Next]_vars PROVE ByteInv'
<1>1. Inv'
  BY Step DEF ByteInv
<1>2. CASE ISR
  BY <1>1, <1>2, ISRByteStep DEF ByteInv
<1>3. CASE Thread
  BY <1>1, <1>3, ThreadByteStep, ThreadReport DEF ByteInv
<1>4. CASE Bus
  BY <1>1, <1>4, BusByteStep, BusReport DEF ByteInv
<1>5. CASE UNCHANGED vars
  <2>1. FrameInv'
    BY <1>5 DEF vars, ByteInv, FrameInv, FlagsInv, GivenUpInv, SendingInv, Ending, Untouched, Underway
  <2>2. DirectionInv' /\ ReceivingInv' /\ AskedInv'
    BY <1>5 DEF vars, ByteInv, ReportInv, DirectionInv, ReceivingInv, AskedInv, Ending,
                Unread, Handed, Trailing, Received, Asked
  <2>3. CallsInv'
    <3>1. CallsInv
      BY DEF ByteInv, ReportInv
    <3>2. Ending' = Ending /\ AddressKnown' = AddressKnown /\ (Matched' => Matched)
      BY <1>5 DEF vars, Ending, AddressKnown, Matched
    <3> QED
      BY <1>5, <3>1, <3>2, SameCalls DEF vars
  <2> QED
    BY <1>1, <2>1, <2>2, <2>3 DEF ByteInv, ReportInv
<1> QED
  BY <1>2, <1>3, <1>4, <1>5 DEF Next

LEMMA ByteImplies == ByteInv => RightByte
<1> SUFFICES ASSUME ByteInv, ~app.given_up, wire.phase = "sending", wire.shift # Nothing
             PROVE  wire.shift = IF wire.count < drv.tx_buffer.size THEN wire.count ELSE DUMMY_BYTE
  BY DEF RightByte
<1>1. Underway(drv.tx_buffer, port.STDR)
  BY DEF ByteInv, FrameInv, SendingInv, Untouched
<1> QED
  BY <1>1 DEF Underway, ByteOf

\* The master reads the bytes of the transmit buffer, from the first one in every frame, then
\* dummies, however late the ISR is, but for a frame the driver has given up (the ISR was so
\* late that it handled the bit error of the frame before after the start of this one); if
\* no bit error hides a STOP and the thread leaves the driver alone during a frame
\* (HandleTransmit of ServiceInterrupt, IMX_RT1060_I2CSlave).
THEOREM BytesAreRight == ASSUME PatientApp, "deaf" \notin Faults PROVE Spec => []RightByte
<1>1. ByteInv /\ [Next]_vars => ByteInv'
  BY ByteStep
<1> QED
  BY <1>1, InitByte, ByteImplies, PTL DEF Spec

LEMMA ErrorImplies == ByteInv => ErrorIsTrue
<1> SUFFICES ASSUME ByteInv, ~app.late, ~Interrupt, "BEF" \notin port.SSR,
                    wire.phase \in {"receiving", "over"}, wire.count > 0
             PROVE  drv.error =
                      IF wire.direction = "read"
                      THEN IF wire.count > drv.tx_buffer.size THEN "buffer_underflow" ELSE "ok"
                      ELSE IF wire.count > drv.rx_buffer.size THEN "buffer_overflow" ELSE "ok"
  BY DEF ErrorIsTrue
<1>1. wire.count \in Nat /\ drv.tx_buffer.size \in Nat
  BY Limits DEF ByteInv, Inv, TypeOK, WireType, DriverType
<1>2. CASE wire.phase = "receiving"
  <2>1. ~Ending /\ Unread = 0 /\ wire.count - 0 = wire.count /\ ~app.given_up
    BY <1>1 DEF Interrupt, Ending, Unread, ByteInv, FrameInv, GivenUpInv
  <2> QED
    BY <1>2, <2>1 DEF ByteInv, ReportInv, DirectionInv, ReceivingInv, Received, Overflow
<1>3. CASE wire.phase = "over"
  <2>1. wire.direction = "read" /\ drv.error = Underflow(drv.tx_buffer.size, wire.count + 1)
    BY <1>3 DEF ByteInv, ReportInv, DirectionInv, AskedInv
  <2> QED
    BY <1>1, <2>1 DEF Underflow
<1> QED
  BY <1>2, <1>3

\* error() after a frame tells whether the master read more than there was, or wrote more than
\* there was room for, although one byte too many is always asked for (trailing_byte_sent),
\* for every buffer and frame that the ISR was in time for.
THEOREM ErrorsAreTrue == ASSUME PatientApp, "deaf" \notin Faults PROVE Spec => []ErrorIsTrue
<1>1. ByteInv /\ [Next]_vars => ByteInv'
  BY ByteStep
<1> QED
  BY <1>1, InitByte, ErrorImplies, PTL DEF Spec

\* Callbacks that differ only in the address.
LEMMA AnonymousCalls ==
    ASSUME TypeOK, NEW a \in Addresses \cup {0}, NEW b \in Addresses \cup {0}, NEW k \in Addresses \cup {0}
    PROVE  Anonymous(EndCalls(a) \o StartCalls(b)) = Anonymous(EndCalls(k) \o StartCalls(k))
<1> DEFINE s == EndCalls(a) \o StartCalls(b)
           t == EndCalls(k) \o StartCalls(k)
<1>1. /\ EndCalls(a) \in Seq(Calls) /\ StartCalls(b) \in Seq(Calls)
      /\ EndCalls(k) \in Seq(Calls) /\ StartCalls(k) \in Seq(Calls)
  BY CallsTyped
<1>2. /\ Len(EndCalls(a)) = Len(EndCalls(k)) /\ Len(StartCalls(b)) = Len(StartCalls(k))
      /\ \A i \in 1..Len(EndCalls(a)) : /\ EndCalls(a)[i].name = EndCalls(k)[i].name
                                        /\ EndCalls(a)[i].length = EndCalls(k)[i].length
      /\ \A i \in 1..Len(StartCalls(b)) : /\ StartCalls(b)[i].name = StartCalls(k)[i].name
                                          /\ StartCalls(b)[i].length = StartCalls(k)[i].length
  BY DEF EndCalls, StartCalls, CallOf, Call
<1>3. /\ s \in Seq(Calls) /\ Len(s) = Len(EndCalls(a)) + Len(StartCalls(b))
      /\ \A i \in 1..Len(s) : s[i] = IF i <= Len(EndCalls(a)) THEN EndCalls(a)[i]
                                     ELSE StartCalls(b)[i - Len(EndCalls(a))]
  BY <1>1, ConcatProperties
<1>4. /\ t \in Seq(Calls) /\ Len(t) = Len(EndCalls(k)) + Len(StartCalls(k))
      /\ \A i \in 1..Len(t) : t[i] = IF i <= Len(EndCalls(k)) THEN EndCalls(k)[i]
                                     ELSE StartCalls(k)[i - Len(EndCalls(k))]
  BY <1>1, ConcatProperties
<1>5. Len(EndCalls(a)) \in Nat /\ Len(StartCalls(b)) \in Nat
  BY <1>1, LenProperties
<1>6. DOMAIN s = DOMAIN t /\ \A i \in DOMAIN s : s[i].name = t[i].name /\ s[i].length = t[i].length
  <2>1. DOMAIN s = 1..Len(s) /\ DOMAIN t = 1..Len(t) /\ Len(s) = Len(t)
    BY <1>2, <1>3, <1>4, LenProperties
  <2>2. ASSUME NEW i \in 1..Len(s) PROVE s[i].name = t[i].name /\ s[i].length = t[i].length
    <3>1. CASE i <= Len(EndCalls(a))
      <4>1. i \in 1..Len(EndCalls(a))
        BY <1>5, <3>1
      <4> QED
        BY <1>2, <1>3, <1>4, <2>1, <2>2, <3>1, <4>1
    <3>2. CASE ~(i <= Len(EndCalls(a)))
      <4>1. i - Len(EndCalls(a)) \in 1..Len(StartCalls(b))
        BY <1>3, <1>5, <3>2
      <4> QED
        BY <1>2, <1>3, <1>4, <2>1, <2>2, <3>2, <4>1
    <3> QED
      BY <3>1, <3>2
  <2> QED
    BY <2>1, <2>2
<1> HIDE DEF s, t
<1>7. Anonymous(s) = Anonymous(t)
  BY <1>6 DEF Anonymous
<1> QED
  BY <1>7 DEF s, t

\* Every frame gets its callbacks, once, in the order of the bus, with the right number of bytes,
\* and with its own address if no ISR has been late: for all buffers, frames and callbacks that
\* replace buffers, and however late the ISR is, but for a frame the driver has given up for a
\* bit error of the one before (end_of_frame() and ServiceInterrupt of IMX_RT1060_I2CSlave).
THEOREM CallbacksAreMade ==
    ASSUME PatientApp, "deaf" \notin Faults
    PROVE  Spec => CallbacksAreDue
<1>1. ByteInv /\ [Next]_vars => ByteInv'
  BY ByteStep
<1>2. ASSUME ByteInv, ISR, ~app.given_up
      PROVE  /\ Anonymous(app'.told) = Anonymous(app.due)
             /\ ~app.late => app'.told = app.due
  <2>1. app'.told = EndCalls(AddressKnown) \o StartCalls(AddressKnown)
    BY <1>2, ISRByteStep
  <2>2. PICK ended \in Addresses \cup {0}, wanted \in Addresses \cup {0} :
          /\ app.due = EndCalls(ended) \o StartCalls(wanted)
          /\ ~app.late => ended = AddressKnown /\ wanted = AddressKnown
    BY <1>2 DEF ByteInv, ReportInv, CallsInv
  <2>3. TypeOK /\ AddressKnown \in Addresses \cup {0}
    BY <1>2, CallsTyped DEF ByteInv, Inv
  <2>4. Anonymous(app'.told) = Anonymous(app.due)
    BY <2>1, <2>2, <2>3, AnonymousCalls
  <2> QED
    BY <2>1, <2>2, <2>4
<1>3. ByteInv /\ [Next]_vars =>
        [ISR => \/ app.given_up
                \/ /\ Anonymous(app'.told) = Anonymous(app.due)
                   /\ ~app.late => app'.told = app.due]_vars
  BY <1>2
<1> QED
  BY <1>1, <1>3, InitByte, PTL DEF Spec, CallbacksAreDue
==============================================================================
