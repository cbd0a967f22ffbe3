-------------------------- MODULE ReliabilityTester --------------------------
(***************************************************************************)
(* raspberry_pi_reliability.py, class Tester: a Raspberry Pi writes a      *)
(* message to the Teensy and reads one from it again and again over a bus  *)
(* that fails now and then, and counts what went wrong. The Teensy is the  *)
(* sketch tests/raspberry_pi_reliability.cpp, whose callback answers to a  *)
(* register number. SMBus (smbus2) is external: a call returns, raises an  *)
(* error, or is interrupted by Ctrl-C.                                     *)
(***************************************************************************)
EXTENDS Integers

CONSTANTS
    TestSize,         \* test_size
    ReportInterval,   \* report_interval
    MessageLength,    \* len(expected_from_teensy)
    MaxFaults,        \* bound: calls that the bus spoils
    MaxInterrupts     \* bound: how often the user presses Ctrl-C

ASSUME TesterAssumption ==
    /\ TestSize \in Nat \ {0} /\ ReportInterval \in Nat \ {0} /\ MessageLength \in Nat \ {0}
    /\ MaxFaults \in Nat /\ MaxInterrupts \in Nat

VARIABLES
    pc,           \* the call the tester is in
    running, test_count, counts, bus,
    teensy,       \* the sketch: its transmit buffer and received_message_ok
    faults, interrupts,
    test,         \* history of this test: faults, whether one did damage, how it ended
    reported      \* the counts that were printed last

vars == <<pc, running, test_count, counts, bus, teensy, faults, interrupts, test, reported>>

Errors(c) == c.read_errors + c.write_errors + c.other_errors

Registers == {0, 1, 10, 99}      \* the Teensy knows three; the last stands for any other
OK == 170                        \* 0xAA
Bytes == {OK, 0, 118}            \* 118 is the message's first letter, 0 stands for the rest

\* What a read of the message can bring: the text, another text, or no text at all.
Texts == {"message", "other", "undecodable"}

NewTest == [faults |-> 0, damage |-> FALSE, errors |-> 0, ended |-> "running"]

Init ==
    /\ pc = "while" /\ running = TRUE /\ test_count = 0 /\ bus = "open"
    /\ counts = [bytes_read |-> 0, read_attempts |-> 0, read_errors |-> 0, bytes_written |-> 0,
                 write_attempts |-> 0, write_errors |-> 0, other_errors |-> 0]
    /\ teensy = [transmit |-> "none", received_message_ok |-> 0]
    /\ faults = 0 /\ interrupts = 0
    /\ test = NewTest /\ reported = counts

-----------------------------------------------------------------------------
(* The sketch.                                                             *)

\* Mutation: a message that differs leaves the verdict on the one before.
after_receive_no_reset(t, register, data) ==
    CASE data = "message" -> [t EXCEPT !.received_message_ok = OK]
      [] data = "bad" -> t
      [] data = "empty" /\ register = 0  -> [t EXCEPT !.transmit = "message"]
      [] data = "empty" /\ register = 1  -> [t EXCEPT !.transmit = "received_message_ok"]
      [] data = "empty" /\ register = 10 -> [t EXCEPT !.received_message_ok = 0]
      [] data = "empty" /\ register = 99 -> t

\* Mutation: the buffer of the first register that was read is sent for good.
after_receive_first_buffer(t, register, data) ==
    CASE data = "message" -> [t EXCEPT !.received_message_ok = OK]
      [] data = "bad" -> [t EXCEPT !.received_message_ok = 0]
      [] data = "empty" /\ register = 0 /\ t.transmit = "none" -> [t EXCEPT !.transmit = "message"]
      [] data = "empty" /\ register = 1 /\ t.transmit = "none" -> [t EXCEPT !.transmit = "received_message_ok"]
      [] data = "empty" /\ register = 10 -> [t EXCEPT !.received_message_ok = 0]
      [] OTHER -> t

\* A register number alone, or one (that is ignored) with a message.
after_receive(t, register, data) ==
    CASE data = "message" -> [t EXCEPT !.received_message_ok = OK]
      [] data = "bad" -> [t EXCEPT !.received_message_ok = 0]
      [] data = "empty" /\ register = 0  -> [t EXCEPT !.transmit = "message"]
      [] data = "empty" /\ register = 1  -> [t EXCEPT !.transmit = "received_message_ok"]
      [] data = "empty" /\ register = 10 -> [t EXCEPT !.received_message_ok = 0]
      [] data = "empty" /\ register = 99 -> t

\* The transmit buffer as text: 0xAA does not begin a character. And its first byte.
TextOf(t) ==
    CASE t.transmit = "message" -> "message"
      [] t.transmit = "received_message_ok" /\ t.received_message_ok = OK -> "undecodable"
      [] OTHER -> "other"
FirstByteOf(t) ==
    CASE t.transmit = "message" -> 118
      [] t.transmit = "received_message_ok" -> t.received_message_ok
      [] t.transmit = "none" -> 0

-----------------------------------------------------------------------------
(* smbus2: what a call can do to the Teensy and what it returns. In an      *)
(* outcome, raises is an error; what did not raise has a value, and damage  *)
(* says that it, or what the Teensy got, is not what was sent.              *)

Outcome(t, value, fault, damage, raises) ==
    [teensy |-> t, value |-> value, fault |-> fault, damage |-> damage, raises |-> raises]

\* What the tester makes of a block it reads: a text, or the verdict in its first byte.
Reading(register, t) == IF register = 0 THEN TextOf(t) ELSE FirstByteOf(t)
Readings(register) == IF register = 0 THEN Texts ELSE Bytes

\* The register number is written, then the buffer is read.
read_i2c_block_data(register) ==
    LET selected(r) == after_receive(teensy, r, "empty")
        got(r) == Reading(register, selected(r))
    IN {Outcome(selected(register), got(register), FALSE, FALSE, FALSE)}
       \cup {Outcome(selected(r), got(r), TRUE, got(r) # got(register), FALSE) :
                r \in Registers \ {register}}
       \cup {Outcome(selected(register), v, TRUE, TRUE, FALSE) :
                v \in Readings(register) \ {got(register)}}
       \cup {Outcome(t, got(register), TRUE, TRUE, TRUE) : t \in {teensy, selected(register)}}

\* A frame that is cut short is a frame of what has got there.
write_i2c_block_data(register) ==
    LET got(data) == after_receive(teensy, register, data)
    IN {Outcome(got("message"), "sent", FALSE, FALSE, FALSE), Outcome(got("bad"), "sent", TRUE, TRUE, FALSE)}
       \cup {Outcome(t, "sent", TRUE, TRUE, TRUE) :
                t \in {teensy, got("empty"), got("bad"), got("message")}}

\* What a call that does not return can leave the Teensy with.
AfterError(outcomes) == {o.teensy : o \in {p \in outcomes : p.raises}}

Suffers(o) ==
    /\ o.fault => faults < MaxFaults
    /\ faults' = IF o.fault THEN faults + 1 ELSE faults
    /\ teensy' = o.teensy

Tested(o) == [test EXCEPT !.faults = IF o.fault THEN @ + 1 ELSE @, !.damage = @ \/ o.damage]

-----------------------------------------------------------------------------
(* The tester.                                                             *)

Unless(raised, next) == IF raised THEN "except" ELSE next

While ==
    /\ pc = "while"
    /\ IF running /\ test_count < TestSize
       THEN /\ pc' = "read" /\ test_count' = test_count + 1
            /\ test' = [NewTest EXCEPT !.errors = Errors(counts)]
       ELSE pc' = "finally" /\ UNCHANGED <<test_count, test>>
    /\ UNCHANGED <<running, counts, bus, teensy, faults, interrupts, reported>>

\* decode() raises when what was read is not a text.
ReadAttempted(c) == [c EXCEPT !.read_attempts = @ + 1, !.bytes_written = @ + 1]

read_and_check_message ==
    /\ pc = "read"
    /\ \E o \in read_i2c_block_data(0) :
          /\ Suffers(o)
          /\ LET attempted == ReadAttempted(counts)
                 got == [attempted EXCEPT !.bytes_read = @ + MessageLength]
             IN counts' = CASE o.raises -> attempted
                            [] ~o.raises /\ o.value = "other" -> [got EXCEPT !.read_errors = @ + 1]
                            [] ~o.raises /\ o.value # "other" -> got
          /\ pc' = Unless(o.raises \/ o.value = "undecodable", "write")
          /\ test' = Tested(o)
    /\ UNCHANGED <<running, test_count, bus, interrupts, reported>>

WriteAttempted(c) == [c EXCEPT !.write_attempts = @ + 1, !.bytes_written = @ + MessageLength + 1]

write_and_check_message ==
    /\ pc = "write"
    /\ \E o \in write_i2c_block_data(10) :
          /\ Suffers(o)
          /\ counts' = WriteAttempted(counts)
          /\ pc' = Unless(o.raises, "check")
          /\ test' = Tested(o)
    /\ UNCHANGED <<running, test_count, bus, interrupts, reported>>

\* The rest of write_and_check_message(): did the Teensy get it?
CheckAttempted(c) == [c EXCEPT !.bytes_written = @ + 1]

check_message ==
    /\ pc = "check"
    /\ \E o \in read_i2c_block_data(1) :
          /\ Suffers(o)
          /\ counts' = LET attempted == CheckAttempted(counts)
                           got == [attempted EXCEPT !.bytes_read = @ + 1]
                       IN CASE o.raises -> attempted
                            [] ~o.raises /\ o.value # OK -> [got EXCEPT !.write_errors = @ + 1]
                            [] ~o.raises /\ o.value = OK -> got
          /\ pc' = Unless(o.raises, IF test_count % ReportInterval = 0 THEN "report" ELSE "while")
          /\ test' = [Tested(o) EXCEPT !.ended = IF o.raises THEN @ ELSE "completed"]
    /\ UNCHANGED <<running, test_count, bus, interrupts, reported>>

\* In the loop, and once more when the loop is left.
report ==
    /\ reported' = counts
    /\ \/ pc = "report" /\ pc' = "while"
       \/ pc = "final report" /\ pc' = "done"
    /\ UNCHANGED <<running, test_count, counts, bus, teensy, faults, interrupts, test>>

\* The handler of any other exception, up to the write that is to free the bus.
ExceptAny ==
    /\ pc = "except"
    /\ counts' = [counts EXCEPT !.other_errors = @ + 1]
    /\ test' = [test EXCEPT !.ended = "raised"]
    /\ pc' = "recover"
    /\ UNCHANGED <<running, test_count, bus, teensy, faults, interrupts, reported>>

\* Nobody need answer to address 0; whether or not it raises, the test goes on.
write_byte ==
    /\ pc = "recover"
    /\ pc' = "while"
    /\ UNCHANGED <<running, test_count, counts, bus, teensy, faults, interrupts, test, reported>>

\* Ctrl-C while a test is under way stops the run. In the call the Teensy may have got
\* what an error would have left it with.
InterruptedTest ==
    /\ interrupts < MaxInterrupts /\ interrupts' = interrupts + 1
    /\ \/ /\ pc = "read" /\ counts' = ReadAttempted(counts)
          /\ teensy' \in AfterError(read_i2c_block_data(0))
       \/ /\ pc = "write" /\ counts' = WriteAttempted(counts)
          /\ teensy' \in AfterError(write_i2c_block_data(10))
       \/ /\ pc = "check" /\ counts' = CheckAttempted(counts)
          /\ teensy' \in AfterError(read_i2c_block_data(1))
       \/ pc = "report" /\ UNCHANGED <<counts, teensy>>
    /\ running' = FALSE /\ pc' = "while"
    /\ test' = [test EXCEPT !.ended = "interrupted"]
    /\ UNCHANGED <<test_count, bus, faults, reported>>

\* While the bus is being freed, the inner handler swallows it.
InterruptedRecovery ==
    /\ interrupts < MaxInterrupts /\ interrupts' = interrupts + 1
    /\ pc = "recover" /\ pc' = "while"
    /\ UNCHANGED <<running, test_count, counts, bus, teensy, faults, test, reported>>

\* Mutation: nothing is done about it.
InterruptedLoop_uncaught ==
    /\ interrupts < MaxInterrupts /\ interrupts' = interrupts + 1
    /\ pc \in {"while", "except"} /\ pc' = "done"
    /\ UNCHANGED <<running, test_count, counts, bus, teensy, faults, test, reported>>

\* Between two tests it leaves the loop as an exception.
InterruptedLoop ==
    /\ interrupts < MaxInterrupts /\ interrupts' = interrupts + 1
    /\ pc \in {"while", "except"} /\ pc' = "finally"
    /\ UNCHANGED <<running, test_count, counts, bus, teensy, faults, test, reported>>

\* Mutation: reported after a multiple of the interval only, as in the loop.
Finally_inverted ==
    /\ pc = "finally"
    /\ bus' = "closed"
    /\ pc' = IF test_count % ReportInterval = 0 THEN "final report" ELSE "done"
    /\ UNCHANGED <<running, test_count, counts, teensy, faults, interrupts, test, reported>>

Finally ==
    /\ pc = "finally"
    /\ bus' = "closed"
    /\ pc' = IF test_count % ReportInterval # 0 THEN "final report" ELSE "done"
    /\ UNCHANGED <<running, test_count, counts, teensy, faults, interrupts, test, reported>>

\* In close() or in the last report() it skips what is left of "finally".
InterruptedFinally ==
    /\ interrupts < MaxInterrupts /\ interrupts' = interrupts + 1
    /\ \/ pc = "finally" /\ bus' \in {bus, "closed"}
       \/ pc = "final report" /\ UNCHANGED bus
    /\ pc' = "killed"
    /\ UNCHANGED <<running, test_count, counts, teensy, faults, test, reported>>

Tester ==
    \/ While \/ read_and_check_message \/ write_and_check_message \/ check_message
    \/ report \/ ExceptAny \/ write_byte \/ Finally

Interrupted == InterruptedTest \/ InterruptedRecovery \/ InterruptedLoop \/ InterruptedFinally

Done == pc \in {"done", "killed"} /\ UNCHANGED vars

Next == Tester \/ Interrupted \/ Done

\* A call of smbus2 ends: the kernel's driver has a timeout.
Spec == Init /\ [][Next]_vars /\ WF_vars(Tester)

-----------------------------------------------------------------------------
(* Properties.                                                             *)

\* Every error that was counted is the bus's doing, and each of its faults counts once: a
\* spoilt call leaves nothing behind in the Teensy (a register still selected, a verdict
\* on an older message) that would make a later test fail.
CountsAreFaults == Errors(counts) <= faults

\* Nothing that went wrong goes uncounted: if one call of a test was spoilt and somebody
\* got other data than were sent, the test added to an error count. (Of two faults in one
\* test the second can hide the first.)
DamageIsCounted ==
    pc = "while" /\ test.faults = 1 /\ test.damage /\ test.ended \in {"completed", "raised"} =>
       Errors(counts) > test.errors

\* When the run is over its final counts have been printed; unless the last test is one
\* after which run() would have reported, and was left by an exception before it did. A run
\* that a Ctrl-C in "finally" itself has ended ("killed") promises nothing.
FinalCountsReported ==
    pc = "done" =>
       reported = counts \/ (test_count % ReportInterval = 0 /\ test.ended # "completed")

\* The run ends and gives the bus back, however often the bus fails and even if Ctrl-C
\* hits the handler that swallows it; unless it hits "finally" itself, which can skip the
\* bus's close().
RunEnds == <>((pc = "done" /\ bus = "closed") \/ pc = "killed")
=============================================================================
