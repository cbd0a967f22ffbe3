----------------------- MODULE ReliabilityTesterProofs -----------------------
(***************************************************************************)
(* The counts of raspberry_pi_reliability.py are the bus's faults, however *)
(* many tests are run, however often they are reported and interrupted and *)
(* whatever the bus spoils.                                                *)
(*                                                                         *)
(* The bound alone is not inductive. An error is counted some steps after  *)
(* its fault: by the handler of an exception, or by the read of a verdict  *)
(* that an earlier write has left in the Teensy. In between, the fault is  *)
(* one that no count stands for yet.                                       *)
(***************************************************************************)
EXTENDS ReliabilityTester, TLAPS

Counts == [bytes_read : Nat, read_attempts : Nat, read_errors : Nat, bytes_written : Nat,
           write_attempts : Nat, write_errors : Nat, other_errors : Nat]
Sketch == [transmit : {"none", "message", "received_message_ok"}, received_message_ok : {0, OK}]

Types == counts \in Counts /\ teensy \in Sketch /\ faults \in Nat

\* A fault that has not been counted.
Owed == Errors(counts) + 1 <= faults

Inv ==
    /\ Types
    /\ CountsAreFaults
    /\ pc = "except" => Owed
    /\ pc = "check" => teensy.received_message_ok = OK \/ Owed

------------------------------------------------------------------------------
\* The sketch's callback leaves it with a buffer and a verdict.
LEMMA SketchType ==
    ASSUME NEW t \in Sketch, NEW r \in Registers, NEW data \in {"message", "bad", "empty"}
    PROVE  after_receive(t, r, data) \in Sketch
BY DEF after_receive, Sketch, Registers

\* What it reads when nothing is spoilt: the message, and the verdict.
LEMMA ReadsMessage ==
    ASSUME NEW t \in Sketch
    PROVE  TextOf(after_receive(t, 0, "empty")) = "message"
BY DEF after_receive, TextOf, Sketch

LEMMA ReadsVerdict ==
    ASSUME NEW t \in Sketch
    PROVE  FirstByteOf(after_receive(t, 1, "empty")) = t.received_message_ok
BY DEF after_receive, FirstByteOf, Sketch

\* A block that is read: the sketch keeps its type, and without a fault the tester gets
\* what is there.
LEMMA ReadOutcome ==
    ASSUME teensy \in Sketch, NEW register \in {0, 1},
           NEW o \in read_i2c_block_data(register)
    PROVE  /\ o.teensy \in Sketch /\ o.fault \in BOOLEAN
           /\ ~o.fault => /\ ~o.raises
                          /\ o.value = Reading(register, after_receive(teensy, register, "empty"))
<1> DEFINE selected(r) == after_receive(teensy, r, "empty")
           got(r) == Reading(register, selected(r))
<1>1. register \in Registers /\ \A r \in Registers : selected(r) \in Sketch
  BY SketchType DEF Registers
<1> HIDE DEF got
<1>2. CASE o = Outcome(selected(register), got(register), FALSE, FALSE, FALSE)
  BY <1>1, <1>2 DEF Outcome, got
<1>3. CASE \E r \in Registers : o = Outcome(selected(r), got(r), TRUE, got(r) # got(register), FALSE)
  BY <1>1, <1>3 DEF Outcome
<1>4. CASE \E v \in Readings(register) : o = Outcome(selected(register), v, TRUE, TRUE, FALSE)
  BY <1>1, <1>4 DEF Outcome
<1>5. CASE \E t \in {teensy, selected(register)} : o = Outcome(t, got(register), TRUE, TRUE, TRUE)
  BY <1>1, <1>5 DEF Outcome
<1> QED
  BY <1>2, <1>3, <1>4, <1>5 DEF read_i2c_block_data, got

\* A block that is written: without a fault the Teensy has got the message.
LEMMA WriteOutcome ==
    ASSUME teensy \in Sketch, NEW o \in write_i2c_block_data(10)
    PROVE  /\ o.teensy \in Sketch /\ o.fault \in BOOLEAN
           /\ ~o.fault => o.teensy.received_message_ok = OK /\ ~o.raises
<1> DEFINE received(data) == after_receive(teensy, 10, data)
<1>1. \A data \in {"message", "bad", "empty"} : received(data) \in Sketch
  BY SketchType DEF Registers
<1>2. received("message").received_message_ok = OK
  BY DEF after_receive, Sketch
<1> HIDE DEF received
<1>3. CASE o = Outcome(received("message"), "sent", FALSE, FALSE, FALSE)
  BY <1>1, <1>2, <1>3 DEF Outcome
<1>4. CASE o = Outcome(received("bad"), "sent", TRUE, TRUE, FALSE)
  BY <1>1, <1>4 DEF Outcome
<1>5. CASE \E t \in {teensy, received("empty"), received("bad"), received("message")} :
             o = Outcome(t, "sent", TRUE, TRUE, TRUE)
  BY <1>1, <1>5 DEF Outcome
<1> QED
  BY <1>3, <1>4, <1>5 DEF write_i2c_block_data, received

\* Attempts and bytes do not count as errors.
LEMMA AttemptsAreNoErrors ==
    ASSUME NEW c \in Counts
    PROVE  /\ ReadAttempted(c) \in Counts /\ Errors(ReadAttempted(c)) = Errors(c)
           /\ WriteAttempted(c) \in Counts /\ Errors(WriteAttempted(c)) = Errors(c)
           /\ CheckAttempted(c) \in Counts /\ Errors(CheckAttempted(c)) = Errors(c)
<1>1. MessageLength \in Nat
  BY TesterAssumption
<1>2. ReadAttempted(c) \in Counts /\ WriteAttempted(c) \in Counts /\ CheckAttempted(c) \in Counts
  <2> /\ c.read_attempts + 1 \in Nat /\ c.write_attempts + 1 \in Nat
      /\ c.bytes_written + 1 \in Nat /\ c.bytes_written + MessageLength + 1 \in Nat
    BY <1>1 DEF Counts
  <2>1. ReadAttempted(c) \in Counts
    BY DEF Counts, ReadAttempted
  <2>2. WriteAttempted(c) \in Counts
    BY DEF Counts, WriteAttempted
  <2>3. CheckAttempted(c) \in Counts
    BY DEF Counts, CheckAttempted
  <2> QED
    BY <2>1, <2>2, <2>3
<1>3. \A d \in {ReadAttempted(c), WriteAttempted(c), CheckAttempted(c)} :
        /\ d.read_errors = c.read_errors
        /\ d.write_errors = c.write_errors
        /\ d.other_errors = c.other_errors
  BY DEF Counts, ReadAttempted, WriteAttempted, CheckAttempted
<1> QED
  BY <1>2, <1>3 DEF Errors

LEMMA BytesAreNoErrors ==
    ASSUME NEW c \in Counts, NEW n \in Nat
    PROVE  LET got == [c EXCEPT !.bytes_read = @ + n]
           IN  got \in Counts /\ Errors(got) = Errors(c)
BY DEF Counts, Errors

\* Each of the three error counts adds one.
LEMMA OneError ==
    ASSUME NEW c \in Counts
    PROVE  /\ Errors(c) \in Nat
           /\ LET d == [c EXCEPT !.read_errors = @ + 1] IN d \in Counts /\ Errors(d) = Errors(c) + 1
           /\ LET d == [c EXCEPT !.write_errors = @ + 1] IN d \in Counts /\ Errors(d) = Errors(c) + 1
           /\ LET d == [c EXCEPT !.other_errors = @ + 1] IN d \in Counts /\ Errors(d) = Errors(c) + 1
BY DEF Counts, Errors

------------------------------------------------------------------------------
LEMMA ReadStep == Inv /\ read_and_check_message => Inv'
<1> SUFFICES ASSUME Inv, read_and_check_message PROVE Inv'
  OBVIOUS
<1>1. PICK o \in read_i2c_block_data(0) :
        /\ Suffers(o)
        /\ LET attempted == ReadAttempted(counts)
               got == [attempted EXCEPT !.bytes_read = @ + MessageLength]
           IN counts' = CASE o.raises -> attempted
                          [] ~o.raises /\ o.value = "other" -> [got EXCEPT !.read_errors = @ + 1]
                          [] ~o.raises /\ o.value # "other" -> got
        /\ pc' = Unless(o.raises \/ o.value = "undecodable", "write")
  BY DEF read_and_check_message
<1> DEFINE attempted == ReadAttempted(counts)
           got == [attempted EXCEPT !.bytes_read = @ + MessageLength]
<1>2. /\ attempted \in Counts /\ Errors(attempted) = Errors(counts)
      /\ got \in Counts /\ Errors(got) = Errors(counts) /\ Errors(counts) \in Nat
  <2>1. counts \in Counts /\ MessageLength \in Nat
    BY TesterAssumption DEF Inv, Types
  <2>2. attempted \in Counts /\ Errors(attempted) = Errors(counts)
    BY <2>1, AttemptsAreNoErrors
  <2> HIDE DEF attempted
  <2>3. got \in Counts /\ Errors(got) = Errors(attempted)
    BY <2>1, <2>2, BytesAreNoErrors
  <2> QED
    BY <2>1, <2>2, <2>3, OneError
<1>3. /\ o.teensy \in Sketch /\ o.fault \in BOOLEAN
      /\ ~o.fault => ~o.raises /\ o.value = "message"
  BY ReadOutcome, ReadsMessage DEF Inv, Types, Reading
<1>4. Types'
  <2>1. counts' \in {attempted, got, [got EXCEPT !.read_errors = @ + 1]}
    BY <1>1
  <2> HIDE DEF attempted, got
  <2>2. counts' \in Counts
    BY <1>2, <2>1, OneError
  <2>3. faults' \in Nat /\ teensy' \in Sketch
    BY <1>1, <1>3 DEF Inv, Types, Suffers
  <2> QED
    BY <2>2, <2>3 DEF Types
<1>5. CASE ~o.fault
  <2>1. counts' = got /\ faults' = faults /\ pc' = "write"
    BY <1>1, <1>3, <1>5 DEF Suffers, Unless
  <2> QED
    BY <1>2, <1>4, <2>1 DEF Inv, CountsAreFaults
<1>6. CASE o.fault
  <2>1. faults' = faults + 1 /\ faults \in Nat /\ Errors(counts) <= faults
    BY <1>1, <1>6 DEF Suffers, Inv, Types, CountsAreFaults
  <2>2. CASE o.raises \/ o.value # "other"
    <3>1. Errors(counts') = Errors(counts) /\ pc' # "check"
      BY <1>1, <1>2, <2>2 DEF Unless
    <3> QED
      BY <1>2, <1>4, <2>1, <3>1 DEF Inv, CountsAreFaults, Owed
  <2>3. CASE ~o.raises /\ o.value = "other"
    <3>1. Errors(counts') = Errors(counts) + 1 /\ pc' = "write"
      BY <1>1, <1>2, <2>3, OneError DEF Unless
    <3> QED
      BY <1>2, <1>4, <2>1, <3>1 DEF Inv, CountsAreFaults
  <2> QED
    BY <2>2, <2>3
<1> QED
  BY <1>3, <1>5, <1>6

LEMMA WriteStep == Inv /\ write_and_check_message => Inv'
<1> SUFFICES ASSUME Inv, write_and_check_message PROVE Inv'
  OBVIOUS
<1>1. PICK o \in write_i2c_block_data(10) :
        Suffers(o) /\ counts' = WriteAttempted(counts) /\ pc' = Unless(o.raises, "check")
  BY DEF write_and_check_message
<1>2. counts' \in Counts /\ Errors(counts') = Errors(counts) /\ Errors(counts) \in Nat
  BY <1>1, AttemptsAreNoErrors, OneError DEF Inv, Types
<1>3. /\ o.teensy \in Sketch /\ o.fault \in BOOLEAN
      /\ ~o.fault => o.teensy.received_message_ok = OK /\ ~o.raises
  BY WriteOutcome DEF Inv, Types
<1>4. Types' /\ faults \in Nat /\ Errors(counts) <= faults
  BY <1>1, <1>2, <1>3 DEF Inv, Types, Suffers, CountsAreFaults
<1>5. CASE ~o.fault
  <2>1. faults' = faults /\ pc' = "check" /\ teensy'.received_message_ok = OK
    BY <1>1, <1>3, <1>5 DEF Suffers, Unless
  <2> QED
    BY <1>2, <1>4, <2>1 DEF Inv, CountsAreFaults
<1>6. CASE o.fault
  <2>1. faults' = faults + 1
    BY <1>1, <1>6 DEF Suffers
  <2> QED
    BY <1>2, <1>4, <2>1 DEF Inv, CountsAreFaults, Owed
<1> QED
  BY <1>3, <1>5, <1>6

LEMMA CheckStep == Inv /\ check_message => Inv'
<1> SUFFICES ASSUME Inv, check_message PROVE Inv'
  OBVIOUS
<1>1. PICK o \in read_i2c_block_data(1) :
        /\ Suffers(o)
        /\ counts' = LET attempted == CheckAttempted(counts)
                         got == [attempted EXCEPT !.bytes_read = @ + 1]
                     IN CASE o.raises -> attempted
                          [] ~o.raises /\ o.value # OK -> [got EXCEPT !.write_errors = @ + 1]
                          [] ~o.raises /\ o.value = OK -> got
        /\ pc' = Unless(o.raises, IF test_count % ReportInterval = 0 THEN "report" ELSE "while")
  BY DEF check_message
<1> DEFINE attempted == CheckAttempted(counts)
           got == [attempted EXCEPT !.bytes_read = @ + 1]
<1>2. /\ attempted \in Counts /\ Errors(attempted) = Errors(counts)
      /\ got \in Counts /\ Errors(got) = Errors(counts) /\ Errors(counts) \in Nat
  <2>1. counts \in Counts
    BY DEF Inv, Types
  <2>2. attempted \in Counts /\ Errors(attempted) = Errors(counts)
    BY <2>1, AttemptsAreNoErrors
  <2> HIDE DEF attempted
  <2>3. got \in Counts /\ Errors(got) = Errors(attempted)
    BY <2>2, BytesAreNoErrors
  <2> QED
    BY <2>1, <2>2, <2>3, OneError
<1>3. /\ o.teensy \in Sketch /\ o.fault \in BOOLEAN
      /\ ~o.fault => ~o.raises /\ o.value = teensy.received_message_ok
  BY ReadOutcome, ReadsVerdict DEF Inv, Types, Reading
<1>4. Types' /\ faults \in Nat /\ Errors(counts) <= faults /\ pc' # "check"
  <2>1. counts' \in {attempted, got, [got EXCEPT !.write_errors = @ + 1]}
    BY <1>1
  <2> HIDE DEF attempted, got
  <2>2. counts' \in Counts
    BY <1>2, <2>1, OneError
  <2>3. faults' \in Nat /\ teensy' \in Sketch
    BY <1>1, <1>3 DEF Inv, Types, Suffers
  <2>4. pc' # "check"
    BY <1>1 DEF Unless
  <2> QED
    BY <2>2, <2>3, <2>4 DEF Types, Inv, CountsAreFaults
<1>5. CASE ~o.fault
  <2>1. faults' = faults /\ pc' # "except" /\ ~o.raises
    BY <1>1, <1>3, <1>5 DEF Suffers, Unless
  <2>2. CASE teensy.received_message_ok = OK
    <3>1. counts' = got
      BY <1>1, <1>3, <1>5, <2>2
    <3> QED
      BY <1>2, <1>4, <2>1, <3>1 DEF Inv, CountsAreFaults
  <2>3. CASE teensy.received_message_ok # OK
    <3>1. Owed
      BY <2>3 DEF Inv, check_message
    <3>2. Errors(counts') = Errors(counts) + 1
      BY <1>1, <1>2, <1>3, <1>5, <2>3, OneError
    <3> QED
      BY <1>2, <1>4, <2>1, <3>1, <3>2 DEF Inv, CountsAreFaults, Owed
  <2> QED
    BY <2>2, <2>3
<1>6. CASE o.fault
  <2>1. faults' = faults + 1
    BY <1>1, <1>6 DEF Suffers
  <2>2. CASE o.raises
    <3>1. counts' = attempted
      BY <1>1, <2>2
    <3> QED
      BY <1>2, <1>4, <2>1, <3>1 DEF Inv, CountsAreFaults, Owed
  <2>3. CASE ~o.raises
    <3>1. Errors(counts') \in {Errors(counts), Errors(counts) + 1} /\ pc' # "except"
      BY <1>1, <1>2, <2>3, OneError DEF Unless
    <3> QED
      BY <1>2, <1>4, <2>1, <3>1 DEF Inv, CountsAreFaults
  <2> QED
    BY <2>2, <2>3
<1> QED
  BY <1>3, <1>5, <1>6

LEMMA ExceptStep == Inv /\ ExceptAny => Inv'
<1> SUFFICES ASSUME Inv, ExceptAny PROVE Inv'
  OBVIOUS
<1>1. counts' \in Counts /\ Errors(counts') = Errors(counts) + 1
  BY OneError DEF Inv, Types, ExceptAny
<1>2. Owed /\ pc' = "recover" /\ UNCHANGED <<teensy, faults>>
  BY DEF Inv, ExceptAny
<1> QED
  BY <1>1, <1>2 DEF Inv, Types, CountsAreFaults, Owed

LEMMA InterruptedStep == Inv /\ InterruptedTest => Inv'
<1> SUFFICES ASSUME Inv, InterruptedTest PROVE Inv'
  OBVIOUS
<1>1. counts' \in Counts /\ Errors(counts') = Errors(counts)
  BY AttemptsAreNoErrors DEF Inv, Types, InterruptedTest
<1>2. teensy' \in Sketch
  <2>1. \A o \in read_i2c_block_data(0) : o.teensy \in Sketch
    BY ReadOutcome DEF Inv, Types
  <2>2. \A o \in read_i2c_block_data(1) : o.teensy \in Sketch
    BY ReadOutcome DEF Inv, Types
  <2>3. \A o \in write_i2c_block_data(10) : o.teensy \in Sketch
    BY WriteOutcome DEF Inv, Types
  <2> QED
    BY <2>1, <2>2, <2>3 DEF InterruptedTest, AfterError, Inv, Types
<1>3. pc' = "while" /\ faults' = faults
  BY DEF InterruptedTest
<1> QED
  BY <1>1, <1>2, <1>3 DEF Inv, Types, CountsAreFaults

\* The other steps leave the counts, the sketch and the faults alone, and go neither to
\* the handler nor to the check.
LEMMA OtherStep ==
    ASSUME Inv, UNCHANGED <<counts, teensy, faults>>,
           pc' \in {"except", "check"} => pc' = pc
    PROVE  Inv'
BY DEF Inv, Types, CountsAreFaults, Owed

LEMMA Step == Inv /\ [Next]_vars => Inv'
<1> SUFFICES ASSUME Inv, [Next]_vars PROVE Inv'
  OBVIOUS
<1>1. CASE read_and_check_message
  BY <1>1, ReadStep
<1>2. CASE write_and_check_message
  BY <1>2, WriteStep
<1>3. CASE check_message
  BY <1>3, CheckStep
<1>4. CASE ExceptAny
  BY <1>4, ExceptStep
<1>5. CASE InterruptedTest
  BY <1>5, InterruptedStep
<1>6. CASE While
  BY <1>6, OtherStep DEF While
<1>7. CASE report \/ write_byte \/ Finally
  BY <1>7, OtherStep DEF report, write_byte, Finally
<1>8. CASE InterruptedRecovery \/ InterruptedLoop \/ InterruptedFinally
  BY <1>8, OtherStep DEF InterruptedRecovery, InterruptedLoop, InterruptedFinally
<1>9. CASE Done \/ UNCHANGED vars
  BY <1>9, OtherStep DEF Done, vars
<1> QED
  BY <1>1, <1>2, <1>3, <1>4, <1>5, <1>6, <1>7, <1>8, <1>9 DEF Next, Tester, Interrupted

\* However many tests are run and whenever the user interrupts them, the error counts add
\* up to no more than what the bus has spoilt (raspberry_pi_reliability.py, class Tester).
THEOREM CountsAreTheBus == Spec => []CountsAreFaults
<1>1. Init => Inv
  BY DEF Init, Inv, Types, Counts, Sketch, CountsAreFaults, Errors
<1>2. Inv => CountsAreFaults
  BY DEF Inv
<1> QED
  BY <1>1, <1>2, Step, PTL DEF Spec

------------------------------------------------------------------------------
(* What happens to a test: whether its damage is counted and its counts are *)
(* reported.                                                                *)

Tests == [faults : Nat, damage : BOOLEAN, errors : Nat,
          ended : {"running", "completed", "raised", "interrupted"}]

\* One call of the test was spoilt, and with it the data. The test has added to a count.
SpoiltOnce == test.faults = 1 /\ test.damage
Counted == Errors(counts) > test.errors

\* A spoilt read is counted at once or raises; a spoilt write can also wait in the Teensy
\* for the check to find the wrong verdict.
DamageInv ==
    /\ test.errors <= Errors(counts)
    /\ test.faults = 0 => ~test.damage
    /\ pc = "read" => test.faults = 0
    /\ pc \in {"write", "report", "recover"} /\ SpoiltOnce => Counted
    /\ pc = "check" =>
          /\ test.faults = 0 => teensy.received_message_ok = OK
          /\ SpoiltOnce => Counted \/ teensy.received_message_ok # OK
    /\ DamageIsCounted

\* A test that was completed and is one to be reported has been; the others are reported
\* at the end.
ReportedInv ==
    /\ pc \in {"read", "write", "check", "except"} => test.ended = "running"
    /\ pc = "recover" => test.ended = "raised"
    /\ pc \in {"while", "finally"} /\ test_count % ReportInterval = 0 /\ test.ended = "completed" =>
          reported = counts
    /\ FinalCountsReported

TestInv == test \in Tests /\ DamageInv /\ ReportedInv

\* A read that did damage and did not raise has brought something else than what is there.
LEMMA ReadDamage ==
    ASSUME teensy \in Sketch, NEW register \in {0, 1},
           NEW o \in read_i2c_block_data(register)
    PROVE  LET there == Reading(register, after_receive(teensy, register, "empty"))
           IN  /\ o.damage \in BOOLEAN /\ o.value \in Readings(register)
               /\ ~o.fault => ~o.damage
               /\ o.damage /\ ~o.raises => o.value # there
<1> DEFINE selected(r) == after_receive(teensy, r, "empty")
           got(r) == Reading(register, selected(r))
<1>1. register \in Registers /\ \A r \in Registers : selected(r) \in Sketch
  BY SketchType DEF Registers
<1> HIDE DEF selected
<1>2. \A r \in Registers : got(r) \in Readings(register)
  BY <1>1 DEF Reading, Readings, TextOf, FirstByteOf, Texts, Bytes, Sketch
<1> HIDE DEF got
<1>3. CASE o = Outcome(selected(register), got(register), FALSE, FALSE, FALSE)
  BY <1>1, <1>2, <1>3 DEF Outcome, got, selected
<1>4. CASE \E r \in Registers : o = Outcome(selected(r), got(r), TRUE, got(r) # got(register), FALSE)
  <2>1. o.damage \in BOOLEAN /\ o.value \in Readings(register) /\ o.fault
    BY <1>2, <1>4 DEF Outcome
  <2>2. o.damage => o.value # got(register)
    <3>1. PICK r \in Registers :
            o = Outcome(selected(r), got(r), TRUE, got(r) # got(register), FALSE)
      BY <1>4
    <3>2. o.damage = (got(r) # got(register))
      BY <3>1, Zenon DEF Outcome
    <3>3. o.value = got(r)
      BY <3>1 DEF Outcome
    <3> QED
      BY <3>2, <3>3
  <2> QED
    BY <2>1, <2>2 DEF got, selected
<1>5. CASE \E v \in Readings(register) \ {got(register)} :
             o = Outcome(selected(register), v, TRUE, TRUE, FALSE)
  BY <1>5 DEF Outcome, got, selected
<1>6. CASE \E t \in {teensy, selected(register)} : o = Outcome(t, got(register), TRUE, TRUE, TRUE)
  BY <1>1, <1>2, <1>6 DEF Outcome
<1> QED
  BY <1>3, <1>4, <1>5, <1>6 DEF read_i2c_block_data, got, selected

\* A write that did damage and did not raise has left the Teensy a verdict that is not OK.
LEMMA WriteDamage ==
    ASSUME teensy \in Sketch, NEW o \in write_i2c_block_data(10)
    PROVE  /\ o.damage \in BOOLEAN
           /\ ~o.fault => ~o.damage
           /\ o.damage /\ ~o.raises => o.teensy.received_message_ok # OK
<1> DEFINE received(data) == after_receive(teensy, 10, data)
<1>1. received("bad").received_message_ok = 0
  BY DEF after_receive, Sketch
<1> HIDE DEF received
<1>2. CASE o = Outcome(received("message"), "sent", FALSE, FALSE, FALSE)
  BY <1>2 DEF Outcome
<1>3. CASE o = Outcome(received("bad"), "sent", TRUE, TRUE, FALSE)
  BY <1>1, <1>3 DEF Outcome, OK
<1>4. CASE \E t \in {teensy, received("empty"), received("bad"), received("message")} :
             o = Outcome(t, "sent", TRUE, TRUE, TRUE)
  BY <1>4 DEF Outcome
<1> QED
  BY <1>2, <1>3, <1>4 DEF write_i2c_block_data, received

\* What a call adds to the test it belongs to.
LEMMA TestedTest ==
    ASSUME test \in Tests, NEW o, o.fault \in BOOLEAN, o.damage \in BOOLEAN
    PROVE  /\ Tested(o) \in Tests
           /\ Tested(o).faults = IF o.fault THEN test.faults + 1 ELSE test.faults
           /\ Tested(o).damage <=> test.damage \/ o.damage
           /\ Tested(o).errors = test.errors /\ Tested(o).ended = test.ended
<1> DEFINE f == IF o.fault THEN test.faults + 1 ELSE test.faults
           d == test.damage \/ o.damage
<1>1. f \in Nat /\ d \in BOOLEAN
  BY DEF Tests
<1>2. Tested(o) = [test EXCEPT !.faults = f, !.damage = d]
  BY DEF Tested
<1> HIDE DEF f, d
<1>3. /\ Tested(o) \in Tests /\ Tested(o).faults = f /\ Tested(o).damage = d
      /\ Tested(o).errors = test.errors /\ Tested(o).ended = test.ended
  BY <1>1, <1>2 DEF Tests
<1> QED
  BY <1>1, <1>3 DEF f, d

\* One error more, in the counts of a block that was read.
LEMMA CountsOfBlock ==
    ASSUME NEW c \in Counts, NEW a \in Counts, Errors(a) = Errors(c), NEW n \in Nat
    PROVE  LET got == [a EXCEPT !.bytes_read = @ + n]
           IN  /\ Errors(got) = Errors(c)
               /\ Errors([got EXCEPT !.read_errors = @ + 1]) = Errors(c) + 1
               /\ Errors([got EXCEPT !.write_errors = @ + 1]) = Errors(c) + 1
<1> DEFINE got == [a EXCEPT !.bytes_read = @ + n]
<1>1. got \in Counts /\ Errors(got) = Errors(a)
  BY BytesAreNoErrors
<1> HIDE DEF got
<1>2. /\ Errors([got EXCEPT !.read_errors = @ + 1]) = Errors(got) + 1
      /\ Errors([got EXCEPT !.write_errors = @ + 1]) = Errors(got) + 1
  BY <1>1, OneError
<1> QED
  BY <1>1, <1>2 DEF got

LEMMA TestRead == Inv /\ TestInv /\ read_and_check_message => TestInv'
<1> SUFFICES ASSUME Inv, TestInv, read_and_check_message PROVE TestInv'
  OBVIOUS
<1>1. PICK o \in read_i2c_block_data(0) :
        /\ LET attempted == ReadAttempted(counts)
               got == [attempted EXCEPT !.bytes_read = @ + MessageLength]
           IN counts' = CASE o.raises -> attempted
                          [] ~o.raises /\ o.value = "other" -> [got EXCEPT !.read_errors = @ + 1]
                          [] ~o.raises /\ o.value # "other" -> got
        /\ pc' = Unless(o.raises \/ o.value = "undecodable", "write")
        /\ test' = Tested(o)
  BY DEF read_and_check_message
<1>2. /\ Errors(counts) \in Nat /\ test \in Tests /\ test.errors <= Errors(counts)
      /\ test.faults = 0 /\ ~test.damage /\ test.ended = "running"
  BY OneError DEF Inv, Types, TestInv, DamageInv, ReportedInv, read_and_check_message
<1>3. /\ o.fault \in BOOLEAN /\ o.damage \in BOOLEAN /\ o.value \in Texts
      /\ ~o.fault => ~o.damage
      /\ o.damage /\ ~o.raises => o.value # "message"
  BY ReadOutcome, ReadDamage, ReadsMessage DEF Inv, Types, Reading, Readings
<1>4. /\ test' \in Tests /\ test'.faults = (IF o.fault THEN 1 ELSE 0)
      /\ test'.damage <=> o.damage
      /\ test'.errors = test.errors /\ test'.ended = "running"
  BY <1>1, <1>2, <1>3, TestedTest
<1>5. /\ Errors(counts') \in {Errors(counts), Errors(counts) + 1}
      /\ ~o.raises /\ o.value = "other" => Errors(counts') = Errors(counts) + 1
  <2>1. /\ counts \in Counts /\ MessageLength \in Nat
        /\ ReadAttempted(counts) \in Counts /\ Errors(ReadAttempted(counts)) = Errors(counts)
    BY TesterAssumption, AttemptsAreNoErrors DEF Inv, Types
  <2> QED
    BY <1>1, <2>1, CountsOfBlock
<1>6. pc' \in {"except", "write"} /\ (pc' = "write" /\ o.damage => ~o.raises /\ o.value = "other")
  BY <1>1, <1>3 DEF Unless, Texts
<1>7. Errors(counts') \in Nat /\ test.errors <= Errors(counts')
  BY <1>2, <1>5 DEF Tests
<1>8. DamageInv'
  <2>1. SpoiltOnce' /\ pc' = "write" => Counted'
    BY <1>2, <1>4, <1>5, <1>6 DEF SpoiltOnce, Counted, Tests
  <2>2. (test'.faults = 0 => ~test'.damage) /\ test'.errors <= Errors(counts')
    BY <1>3, <1>4, <1>7
  <2> QED
    BY <1>6, <2>1, <2>2 DEF DamageInv, DamageIsCounted
<1> QED
  BY <1>4, <1>6, <1>8 DEF TestInv, ReportedInv, FinalCountsReported

LEMMA TestWrite == Inv /\ TestInv /\ write_and_check_message => TestInv'
<1> SUFFICES ASSUME Inv, TestInv, write_and_check_message PROVE TestInv'
  OBVIOUS
<1>1. PICK o \in write_i2c_block_data(10) :
        /\ Suffers(o) /\ counts' = WriteAttempted(counts) /\ pc' = Unless(o.raises, "check")
        /\ test' = Tested(o)
  BY DEF write_and_check_message
<1>2. /\ Errors(counts) \in Nat /\ test \in Tests /\ test.errors <= Errors(counts)
      /\ test.faults = 0 => ~test.damage
      /\ SpoiltOnce => Counted
      /\ test.ended = "running"
  BY OneError DEF Inv, Types, TestInv, DamageInv, ReportedInv, write_and_check_message
<1>3. /\ o.fault \in BOOLEAN /\ o.damage \in BOOLEAN
      /\ ~o.fault => o.teensy.received_message_ok = OK /\ ~o.damage
      /\ o.damage /\ ~o.raises => o.teensy.received_message_ok # OK
  BY WriteOutcome, WriteDamage DEF Inv, Types
<1>4. /\ test' \in Tests /\ test'.faults = (IF o.fault THEN test.faults + 1 ELSE test.faults)
      /\ test'.damage <=> test.damage \/ o.damage
      /\ test'.errors = test.errors /\ test'.ended = "running"
  BY <1>1, <1>2, <1>3, TestedTest
<1>5. Errors(counts') = Errors(counts)
  BY <1>1, AttemptsAreNoErrors DEF Inv, Types
<1>6. pc' \in {"except", "check"} /\ (pc' = "check" => ~o.raises) /\ teensy' = o.teensy
  BY <1>1 DEF Unless, Suffers
<1>7. DamageInv'
  <2>1. pc' = "check" /\ test'.faults = 0 => teensy'.received_message_ok = OK
    BY <1>2, <1>3, <1>4, <1>6 DEF Tests
  <2>2. pc' = "check" /\ SpoiltOnce' => Counted' \/ teensy'.received_message_ok # OK
    BY <1>2, <1>3, <1>4, <1>5, <1>6 DEF SpoiltOnce, Counted, Tests
  <2>3. (test'.faults = 0 => ~test'.damage) /\ test'.errors <= Errors(counts')
    BY <1>2, <1>3, <1>4, <1>5 DEF Tests
  <2> QED
    BY <1>6, <2>1, <2>2, <2>3 DEF DamageInv, DamageIsCounted
<1> QED
  BY <1>4, <1>6, <1>7 DEF TestInv, ReportedInv, FinalCountsReported

LEMMA TestCheck == Inv /\ TestInv /\ check_message => TestInv'
<1> SUFFICES ASSUME Inv, TestInv, check_message PROVE TestInv'
  OBVIOUS
<1>1. PICK o \in read_i2c_block_data(1) :
        /\ counts' = LET attempted == CheckAttempted(counts)
                         got == [attempted EXCEPT !.bytes_read = @ + 1]
                     IN CASE o.raises -> attempted
                          [] ~o.raises /\ o.value # OK -> [got EXCEPT !.write_errors = @ + 1]
                          [] ~o.raises /\ o.value = OK -> got
        /\ pc' = Unless(o.raises, IF test_count % ReportInterval = 0 THEN "report" ELSE "while")
        /\ test' = [Tested(o) EXCEPT !.ended = IF o.raises THEN @ ELSE "completed"]
  BY DEF check_message
<1>2. /\ Errors(counts) \in Nat /\ test \in Tests /\ test.errors <= Errors(counts)
      /\ test.faults = 0 => ~test.damage /\ teensy.received_message_ok = OK
      /\ SpoiltOnce => Counted \/ teensy.received_message_ok # OK
      /\ test.ended = "running" /\ test_count' = test_count
  BY OneError DEF Inv, Types, TestInv, DamageInv, ReportedInv, check_message
<1>3. /\ o.fault \in BOOLEAN /\ o.damage \in BOOLEAN
      /\ ~o.fault => ~o.damage /\ ~o.raises /\ o.value = teensy.received_message_ok
      /\ o.damage /\ ~o.raises => o.value # teensy.received_message_ok
  BY ReadOutcome, ReadDamage, ReadsVerdict DEF Inv, Types, Reading
<1>4. /\ test' \in Tests /\ test'.faults = (IF o.fault THEN test.faults + 1 ELSE test.faults)
      /\ test'.damage <=> test.damage \/ o.damage
      /\ test'.errors = test.errors
      /\ test'.ended = IF o.raises THEN "running" ELSE "completed"
  <2>1. /\ Tested(o) \in Tests /\ Tested(o).ended = "running"
        /\ Tested(o).faults = IF o.fault THEN test.faults + 1 ELSE test.faults
        /\ Tested(o).damage <=> test.damage \/ o.damage
        /\ Tested(o).errors = test.errors
    BY <1>2, <1>3, TestedTest
  <2> QED
    BY <1>1, <2>1 DEF Tests
<1>5. /\ Errors(counts') \in {Errors(counts), Errors(counts) + 1}
      /\ ~o.raises /\ o.value # OK => Errors(counts') = Errors(counts) + 1
  <2>1. /\ counts \in Counts
        /\ CheckAttempted(counts) \in Counts /\ Errors(CheckAttempted(counts)) = Errors(counts)
    BY AttemptsAreNoErrors DEF Inv, Types
  <2> QED
    BY <1>1, <2>1, CountsOfBlock
<1>6. /\ o.raises => pc' = "except"
      /\ ~o.raises => pc' = IF test_count % ReportInterval = 0 THEN "report" ELSE "while"
  BY <1>1 DEF Unless
<1>7. ~o.raises /\ SpoiltOnce' => Counted'
  <2>1. CASE o.fault
    <3>1. SUFFICES ASSUME ~o.raises, test'.faults = 1, test'.damage PROVE Counted'
      BY DEF SpoiltOnce
    <3>2. test.faults = 0 /\ o.damage
      BY <1>2, <1>4, <2>1, <3>1 DEF Tests
    <3>3. o.value # OK
      BY <1>2, <1>3, <3>1, <3>2
    <3> QED
      BY <1>2, <1>4, <1>5, <3>1, <3>3 DEF Counted, Tests
  <2>2. CASE ~o.fault
    <3>1. SUFFICES ASSUME SpoiltOnce' PROVE Counted'
      OBVIOUS
    <3>2. SpoiltOnce
      BY <1>3, <1>4, <2>2, <3>1 DEF SpoiltOnce
    <3>3. Counted \/ Errors(counts') = Errors(counts) + 1
      BY <1>2, <1>3, <1>5, <2>2, <3>2
    <3> QED
      BY <1>2, <1>4, <1>5, <3>3 DEF Counted, Tests
  <2> QED
    BY <1>3, <2>1, <2>2
<1>8. DamageInv'
  <2>1. (test'.faults = 0 => ~test'.damage) /\ test'.errors <= Errors(counts')
    BY <1>2, <1>3, <1>4, <1>5 DEF Tests
  <2> QED
    BY <1>6, <1>7, <2>1 DEF DamageInv, DamageIsCounted, SpoiltOnce, Counted
<1> QED
  BY <1>2, <1>4, <1>6, <1>8 DEF TestInv, ReportedInv, FinalCountsReported

\* The handler of an exception counts it.
LEMMA TestExcept == Inv /\ TestInv /\ ExceptAny => TestInv'
<1> SUFFICES ASSUME Inv, TestInv, ExceptAny PROVE TestInv'
  OBVIOUS
<1>1. /\ Errors(counts) \in Nat /\ Errors(counts') = Errors(counts) + 1
      /\ test \in Tests /\ test.errors <= Errors(counts)
      /\ test.faults = 0 => ~test.damage
  BY OneError DEF Inv, Types, TestInv, DamageInv, ExceptAny
<1>2. /\ pc' = "recover" /\ test' \in Tests /\ test'.ended = "raised"
      /\ test'.faults = test.faults /\ test'.damage = test.damage /\ test'.errors = test.errors
  BY <1>1 DEF ExceptAny, Tests
<1> QED
  BY <1>1, <1>2
  DEF TestInv, DamageInv, ReportedInv, DamageIsCounted, FinalCountsReported, Counted, Tests

LEMMA TestInterrupted == Inv /\ TestInv /\ InterruptedTest => TestInv'
<1> SUFFICES ASSUME Inv, TestInv, InterruptedTest PROVE TestInv'
  OBVIOUS
<1>1. Errors(counts') = Errors(counts)
  BY AttemptsAreNoErrors DEF Inv, Types, InterruptedTest
<1>2. /\ pc' = "while" /\ test \in Tests /\ test' = [test EXCEPT !.ended = "interrupted"]
  BY DEF TestInv, InterruptedTest
<1>3. /\ test' \in Tests /\ test'.ended = "interrupted"
      /\ test'.faults = test.faults /\ test'.damage = test.damage /\ test'.errors = test.errors
  BY <1>2 DEF Tests
<1> QED
  BY <1>1, <1>2, <1>3
  DEF TestInv, DamageInv, ReportedInv, DamageIsCounted, FinalCountsReported

\* A test begins with nothing spoilt and what has been counted so far.
LEMMA TestBegins == Inv /\ TestInv /\ While => TestInv'
<1> SUFFICES ASSUME Inv, TestInv, While PROVE TestInv'
  OBVIOUS
<1>1. Errors(counts) \in Nat /\ counts' = counts /\ reported' = reported
  BY OneError DEF Inv, Types, While
<1>2. CASE pc' = "read" /\ test' = [NewTest EXCEPT !.errors = Errors(counts)]
  <2>1. /\ test' \in Tests /\ test'.errors = Errors(counts) /\ test'.faults = 0
        /\ ~test'.damage /\ test'.ended = "running"
    BY <1>1, <1>2 DEF NewTest, Tests
  <2> QED
    BY <1>1, <1>2, <2>1
    DEF TestInv, DamageInv, ReportedInv, DamageIsCounted, FinalCountsReported, SpoiltOnce
<1>3. CASE pc' = "finally" /\ UNCHANGED <<test_count, test>>
  BY <1>1, <1>3
  DEF While, TestInv, DamageInv, ReportedInv, DamageIsCounted, FinalCountsReported
<1> QED
  BY <1>2, <1>3 DEF While

\* The other steps leave the test and its counts alone.
LEMMA TestGoesOn ==
    ASSUME TestInv, UNCHANGED <<test_count, counts, test>>,
           \/ report \/ write_byte \/ Finally
           \/ InterruptedRecovery \/ InterruptedLoop \/ InterruptedFinally
    PROVE  TestInv'
<1>1. DamageInv'
  BY DEF TestInv, DamageInv, DamageIsCounted, SpoiltOnce, Counted, report, write_byte, Finally,
         InterruptedRecovery, InterruptedLoop, InterruptedFinally
<1>2. ReportedInv'
  BY DEF TestInv, ReportedInv, FinalCountsReported, report, write_byte, Finally,
         InterruptedRecovery, InterruptedLoop, InterruptedFinally
<1> QED
  BY <1>1, <1>2 DEF TestInv

LEMMA TestStep == Inv /\ TestInv /\ [Next]_vars => TestInv'
<1> SUFFICES ASSUME Inv, TestInv, [Next]_vars PROVE TestInv'
  OBVIOUS
<1>1. CASE read_and_check_message
  BY <1>1, TestRead
<1>2. CASE write_and_check_message
  BY <1>2, TestWrite
<1>3. CASE check_message
  BY <1>3, TestCheck
<1>4. CASE ExceptAny
  BY <1>4, TestExcept
<1>5. CASE InterruptedTest
  BY <1>5, TestInterrupted
<1>6. CASE While
  BY <1>6, TestBegins
<1>7. CASE \/ report \/ write_byte \/ Finally
           \/ InterruptedRecovery \/ InterruptedLoop \/ InterruptedFinally
  <2>1. UNCHANGED <<test_count, counts, test>>
    BY <1>7 DEF report, write_byte, Finally, InterruptedRecovery, InterruptedLoop,
                InterruptedFinally
  <2> QED
    BY <1>7, <2>1, TestGoesOn
<1>8. CASE Done \/ UNCHANGED vars
  BY <1>8 DEF Done, vars, TestInv, DamageInv, ReportedInv, DamageIsCounted, FinalCountsReported,
              SpoiltOnce, Counted
<1> QED
  BY <1>1, <1>2, <1>3, <1>4, <1>5, <1>6, <1>7, <1>8 DEF Next, Tester, Interrupted

LEMMA TestInvariance == Spec => [](Inv /\ TestInv)
<1>1. Init => Inv
  BY DEF Init, Inv, Types, Counts, Sketch, CountsAreFaults, Errors
<1>2. Init => TestInv
  BY DEF Init, TestInv, Tests, NewTest, Errors, DamageInv, ReportedInv, DamageIsCounted,
         FinalCountsReported, SpoiltOnce
<1>3. Inv /\ TestInv /\ [Next]_vars => Inv' /\ TestInv'
  BY Step, TestStep
<1> QED
  BY <1>1, <1>2, <1>3, PTL DEF Spec

\* Of a test with one spoilt call, and other data than were sent, one of the three error
\* counts knows, in whichever call of the test it was and whatever it left in the Teensy
\* (read_and_check_message(), write_and_check_message() and the handler in run()).
THEOREM DamageIsAlwaysCounted == Spec => []DamageIsCounted
<1>1. TestInv => DamageIsCounted
  BY DEF TestInv, DamageInv
<1> QED
  BY <1>1, TestInvariance, PTL

\* What a run has printed last are its final counts, for any number of tests and any
\* interval: if it comes to the end of run(), not left by a Ctrl-C in "finally" itself, and
\* but for the other exception that FinalCountsReported names.
THEOREM FinalCountsArePrinted == Spec => []FinalCountsReported
<1>1. TestInv => FinalCountsReported
  BY DEF TestInv, ReportedInv
<1> QED
  BY <1>1, TestInvariance, PTL
==============================================================================
