# Verification of teensy4_i2c

TLA+ models of the I2C driver for the Teensy 4 (`src/src`) and of the tools its clock
profiles and its reliability come from (`src/tools`, `src/examples`), the TLC runs that
check them, and the theorems that TLAPS proves about them. The driver is interrupt-driven
C++ without an operating system: a thread (`setup()` and `loop()`), the interrupt service
routines (ISR) of three LPI2C peripherals, and the bus. What is hard about it is the order
in which these three act, and that the intervals they put on the bus suit everyone on it.

Short names: *cpp* is `src/src/imx_rt1060/imx_rt1060_i2c_driver.cpp`, *hdr* its
header, *api* is `src/src/i2c_driver.h`, *wire* is `src/src/i2c_driver_wire.cpp`.

## 1. Inventory

| Component | State | Operations | Modelled by |
|---|---|---|---|
| `I2CBuffer` (hdr 14-80) | array, `size`, `next_index` | `initialise`, `write`, `read`, queries | `I2CBuffer` |
| Master driver (`IMX_RT1060_I2CMaster`) | `state`, `_error`, `ignore_tdf`, `stop_on_completion`, `buff` | `begin`, `end`, `finished`, `write_async`, `read_async`, ISR | `I2CMaster`, promise in `I2CTransfer` |
| LPI2C master peripheral and bus (hardware) | FIFOs, MSR, MIER, MCR | | `LPI2CMaster` (external) |
| Slave driver (`IMX_RT1060_I2CSlave`) | `state`, `_error`, `address_called`, `trailing_byte_sent`, `rx_buffer`, `tx_buffer`, callbacks | `listen`, `stop_listening`, setters, ISR, `end_of_frame` | `I2CSlave` |
| LPI2C slave peripheral and the master on its bus (hardware) | SSR, SASR, SRDR, STDR | | `LPI2CSlave` (external) |
| `I2CRegisterSlave` | `got_reg_num`, `rx_buffer`, the application's two arrays | `listen`, `after_receive`, `after_transmit` | `I2CRegisterSlave`, promise in `RegisterFile` |
| `I2CDevice` | none of its own | blocking `read` and `write` of registers, 200 ms timeout | `I2CDevice`, `I2CBlockingCall` |
| `I2CDriverWire` | transmit and receive arrays, three cursors | the Arduino `Wire` API | `I2CDriverWire`, `I2CBlockingCall` |
| Clock configuration (`set_clock`, profiles) | timing registers | `set_clock` | `BusTiming` |
| Timing calculator (`teensy_config.py`) | one `TeensyConfig` | an interval for each parameter of I2C | `TeensyConfig` |
| Scope simulator (`i2c_line.py`, `i2c_trace.py`, design plots) | edges of SDA and SCL | draw an edge, measure | `I2CTrace`, `BusTiming` |
| I2C specification (`i2c_specification.py`) | three tables | | `I2CSpecification` |
| Raspberry Pi reliability tester and its sketch | error counts; transmit buffer, verdict | test, count, recover, report | `ReliabilityTester` |
| Pin configuration, register map, debug logging, other scripts and tests | | | no |

**Interaction.** The thread calls the master driver, which writes commands (START,
TRANSMIT, RECEIVE, STOP) to a four-word FIFO; the peripheral works through
them and raises flags; the ISR reads the flags, moves bytes between the FIFOs and
the caller's array, and sets `state` and `_error`, which the thread polls through
`finished()` and `error()`. The slave driver is driven from the other end: the bus
raises flags, the ISR moves bytes and calls the application back, and the
application sets buffers from those callbacks or from its thread. `I2CDevice` and
`I2CDriverWire` poll the master with a timeout; `I2CRegisterSlave` and
`I2CDriverWire` are the application of the slave driver. The calculator's constants are
copied into the profiles by hand; the simulator draws what the calculator computes.

**What is hard, and what makes each part correct.** The full list, with lines, is
`hazards` in `PROJECT.json`.

* Master. The ISR preempts `write_async()` and `read_async()` between any two register
  accesses; a NACK, lost arbitration or a line held low arrives between two
  interrupts; an ISR sees several flags at once and interprets them with a `state`
  that may have moved on; a caller whose wait timed out calls again in the middle of
  a transaction. Correct means: `finished()` becomes true, and when it is, `error()`
  and `get_bytes_transferred()` tell what happened on the bus, the caller's array is
  the caller's again, and the FIFO holds nothing that could spoil the next call.
* Slave. A late ISR finds the end of one frame and the start of the next in one
  reading of SSR; the peripheral asks for a byte more than the master reads; buffers
  are replaced under the ISR. Correct means: each frame gets its callbacks, with its
  address and length, exactly once; the master is sent the bytes of the buffer from
  the first; errors are reported when they happened and not otherwise; SCL is
  always released.
* Register slave. One flag, toggled by each frame, decides whether the next frame is
  a register number or data. Correct means: the arrays behave as a file of registers.
* `I2CDevice`, `I2CDriverWire`. The timeout ends the wait and not the transfer, and sets
  no error; a read is two transactions; arrays and cursors are shared between thread and
  callbacks. Correct means: a call returns, and what it returns happened on the bus.
* Timing. Seven fields of a profile must keep eleven limits for every rise time of two
  lines, and the port counts its latency in whole ticks. Correct means: the bus keeps to
  the specification, and the calculator's worst case is one.
* Tester. It must find the driver's errors, so that what it counts must be the bus's
  doing: no more, and nothing missed.

## 2. The modules

```
I2CBuffer ----+
LPI2CMaster --+-> I2CMaster --> MCI2CMaster            I2CMaster implements I2CTransfer
                   |  |
                   |  +-> I2CMasterProofs --> I2CMasterOutcomeProofs
                   +-> I2CBlockingCall --+-> I2CDevice -----+
                                         +-> I2CDriverWire -+-> I2CClients --> I2CClientsProofs
I2CBuffer ----+
LPI2CSlave ---+-> I2CSlave --> I2CSlaveProofs --> I2CSlaveByteProofs

I2CRegisterSlave --> I2CRegisterSlaveProofs            I2CRegisterSlave implements RegisterFile
I2CTrace ---------+
I2CSpecification -+-> BusTiming --> BusTimingProofs
TeensyConfig -----+

ReliabilityTester --> ReliabilityTesterProofs
```

**`I2CBuffer`** is the cursor: bytes are not modelled, how many there are and how far
the cursor has come is.

**`LPI2CMaster`** (external) has the command FIFO, the receive FIFO, the latched flags
NDF, ALF, FEF, PLTF and SDF, TDF and RDF (which follow the FIFOs), the bus phase and what the
slave has answered since the last START (`bus.moved`, `bus.nak`), which is what the
driver's reports are compared with.

**`I2CMaster`**. `drv` is the fields of the class, `caller` the thread's program counter
and its last call. A call is several actions (`StartCall`, `SendStart`, `ArmWrite`,
`EnableTransmit`, ...), one for each stretch between register accesses that the ISR
can tell apart; so is one that is refused (`RejectCall`, `Abort`, `AbortStop`, `Rejected`). The ISR runs to completion, so it is one action made of four handlers in
source order (`HandleErrors`, `HandleStop`, `HandleReceive`, `HandleTransmit`), each a
function of the record `[drv, port]`. `begin` and `end` reset the peripheral and not
the driver, as the code does.

**`I2CTransfer`** is what `class I2CMaster` (api) promises, without registers or
interrupts: busy until the transfer is over, then success with every byte moved or
failure; `I2CMaster` implements it under the mapping at the end of that module.

**`I2CBlockingCall`**, **`I2CDevice`**, **`I2CDriverWire`**, **`I2CClients`**: the two blocking
APIs over that driver, its ISR and its bus, not over the promise: what they get wrong comes
from the middle of a transfer. `finish()` is a wait that may time out at any moment, as a slave may
stretch the clock for as long as it likes. `thread.got` and `thread.fault` are
taken from the bus, and compared with what a call returns. Wire's slave half is its three
cursors: a step of the thread is what the compiler may not tear further (the comparison, then the
read; the comparison and the copy, then the cursor), and the two callbacks may come between any two steps. The cursor that
`write()` stores is the one it has loaded (`dest`) or the one it finds by then: the compiler may do either.

**`LPI2CSlave`** (external) has the registers of the slave and the frame on the bus.
TXDSTALL and RXSTALL are on, as `listen()` sets them: the bus waits while a byte is
wanted or unread (`Stalled`). A byte is the index it has in its array, so that
`RightByte` can tell which byte was sent.

**`I2CSlave`**. The ISR is one action; the application's answer to a callback (nothing, or a
new buffer) is part of it. From the thread, `initialise()` is its three assignments
(`SetBuffer`, `SetPointer`, `SetSize`) with the ISR in between. `app.due` is computed
from the bus alone (`CallsAtEnd`): the callbacks a frame calls for; `app.told` is what
the last run of the ISR made of it. `app.given_up` is a frame that the ISR has ended by mistake (`GivesUp`). `app.late` remembers that an interrupt was still pending
when a byte's time was over.

**`I2CRegisterSlave`** has the arrays with their bytes and the slave's two buffers as
pointers into them. A frame is one step: it is received, or sent, as the slave driver
does it (at most `size` bytes; no callback without a receive buffer), and the callback
is made. `memcpy()` is modelled as writing where it is told to: past the end, the array's
domain grows and `TypeOK` fails. **`RegisterFile`** is the promise: select, write, read.
It leaves open what the code leaves open: which register `after_read` reports when
none was selected, and whether `after_write` counts the bytes that came or those that fitted.

**`TeensyConfig`** is the calculator in whole picoseconds (times 1/clock), with the
floors where the Python has them. **`I2CTrace`** is the waveform: edges with a rise time, and
the instant at which an edge passes a voltage; the logarithms of `i2c_line.py` are tabulated at the three
voltages that are used. **`BusTiming`** puts a message on the bus edge by edge, each edge at the
calculator's nominal delay after the one that causes it, and measures the result the way the design
plots do. A `bit` may be set by master or slave, a START repeated, a STOP sent, at any point where
the protocol has one. **`I2CSpecification`** is the three tables.

**`ReliabilityTester`** is `class Tester` call by call, with Python's `try`/`except`/`finally` as
program counters and Ctrl-C as a step that may come in any call, and the two callbacks of its sketch. `Finally` and the last `report` are
two calls: a Ctrl-C in either (`InterruptedFinally`) leaves `run()` without the rest, and the run ends as "killed", not as "done".
A call of smbus2 has a set of outcomes (`read_i2c_block_data`, ...): right, damaged, or raised, with what each leaves in the Teensy.

## 3. The runs

| Run | Asks | Result |
|---|---|---|
| `master` | With NACKs anywhere and a caller who may call too early: are outcomes truthful, does each call end, is `I2CTransfer` implemented? | holds |
| `master_recovery` | With lost arbitration, lines held low, transfers that keep the bus, `begin()` and `end()` at any time: are cursor and queue sound, and does a caller who keeps trying get the driver back? | holds |
| `clients` | An `I2CDevice` or Wire over the driver, with NACKs and other masters: does every call return, and truthfully? | holds |
| `slave` | Two addresses, bit errors, buffers set between frames and in callbacks, an ISR as late as clock stretching lets it be: callbacks, bytes, errors, SCL | holds |
| `register_slave` | All frames of up to four bytes: a file of registers? | holds |
| `timing` | Every profile, every example of the calculator, rise times from 3 % to 100 %: I2C specification, calculator, worst case | holds |
| `raspberry_pi` | Up to three spoilt calls and two Ctrl-C, in `finally` too: counts, final report, end of the run | holds |
| `master_arbitration` | api:102, `finished()` after losing arbitration | violated |
| `device_stale_data` | `i2c_device.h:110`, a failed read is zeroed | violated |
| `slave_buffer` | hdr:20-22, `initialise()` is safe anywhere | violated |
| `register_slave_discard` | `i2c_register_slave.cpp:41`, "Discard the next write" | violated |
| `timing_worst_case` | `i2c_timing_analysis.md:391`, the worst case of tHIGH | violated |

Each violated run is a `finding` in `PROJECT.json`, with the line it contradicts.

**What the passing runs check.** Each property is stated in words above its definition, and each
has a mutant in `PROJECT.json`: a plausible bug in a mapped definition with which TLC finds it violated.

* *Master*: `Complete` (no error means every byte was
  moved, counted, and the STOP sent), `NakReported`, `FifosEmptyAtStart` and `NoFifoError` (the
  two conditions the code calls programming errors never arise), `NoInterruptStorm` (the ISR
  always changes something), `StaysFinished`, `BufferReleased`, `CallEnds`, `KeepsPromise`;
  `RetryRecovers`; `BufferInBounds`, `OneStart`.
* *Clients*: `OutcomeIsTrue` and `CountIsTrue` compare what a call returns with the bus; `ArrayIsLent`
  (the ISR leaves a client's array alone after the call); `CursorsInBuffers`; `CallsReturn`.
* *Slave*: `CallbacksAreDue`, `RightByte`, `ErrorIsTrue`, `CursorsInArrays`, `ClockReleased`.
* *Register slave*: `BuffersInArrays`, `KeepsRegisterFile`.
* *Timing*: `MeetsSpecification`, `NotFasterThanAsked`, `CalculatorAgrees` (to 2 ns), `WorstCaseBound`.
* *Tester*: `CountsAreFaults`, `DamageIsCounted`, `FinalCountsReported`, `RunEnds`.

**Bounds.** The master's FIFO has its real depth, 4. Lengths 0, 1, 5 and 6 are a probe, one
byte, more than the FIFO holds (so that it is refilled), and one more than a read may ask
for (`MAX_MASTER_READ_LENGTH` is 5 instead of 256). The receive FIFO can fill to its
depth. One port is modelled: the three share nothing. Clients: Wire's arrays have 2 bytes, a call asks for none, some, or more
than there is room for, a read of a device for more than a read may ask for; the longest transfer, 4,
fills the FIFO. The slave's arrays have up to 2
bytes and frames up to 3, so that every frame can be short, exact, or one too long, and a
read can ask for the dummy byte and one more. Register slave: two mutable registers, one
read-only, one number that is neither, frames one byte longer than `rx_buffer`; a byte
is one of four values and arithmetic on `uint8_t` is modulo that. Timing: seven frequencies
on both sides of each of `set_clock()`'s limits; two rise times out of 3, 40, 90, 97 and 100 % of the slowest,
one for each line; six edges of SCL, which is START, two bits, a repeated START or a STOP, and what follows.
Tester: four tests, a report every two, so that a run ends at a report and between two.

**Timing of ISR and caller.** `PromptISR` means the ISR runs before the next event on the bus that takes the
time of a byte: nine bit times, 22 us at 400 kHz, against less than a microsecond for an ISR
on a 600 MHz processor. `PromptCaller` means the bus does not get that far while the thread is inside a call:
an accepted call returns before the address byte is over, and `start()`, once it has begun to refuse one, gets from `MIER &= ~TDIE` to `state = idle`
(cpp:463-478, 419-420: a handful of register accesses, less than a microsecond) between two events on the bus. Not assumed is that nothing happens between
`start()` finding `finished()` false (cpp:408, `RejectCall`) and `abort_transaction_async()` (`Abort`): bus and ISR go on there, and the transfer may have ended or failed by then. For a call
on a bus that is kept the assumption is stronger than its reason: there is no address byte yet, and what it excludes is an automatic STOP, or a line held low,
between `state = starting` and the START. They are assumed in `master`, `master_recovery` and `clients`, and in `I2CMasterOutcomeProofs`; `I2CMasterProofs` does not need them. `slave` does not assume a prompt ISR: properties
that need one say so with `app.late`. That goes for bit errors too: BEF does not interrupt (cpp:558), so that it is
handled with the next flag that does, and the ISR may be so late that this is a byte of the next frame. That frame is then over for the
driver, whatever the master goes on to read: `app.given_up` says so until its end, and `RightByte` and `CallbacksAreDue` say nothing of it. What happens in
it is in section 6. `AvoidsStop` (`clients`) means no call is made in the microseconds in which an automatic STOP
is on the wire. A Wire slave `write()`s in `loop()`, as `i2c_driver_wire.h:110-112` advises, or in its callbacks, as Arduino's
does (`Fillings`), and not in both. All matter: see section 6.

**Fairness.** `WF(ISR)`: an enabled interrupt is taken. `WF(FinishCall)`, `WF(SetPointer \/
SetSize)`: a call that was made returns. `WF(BeginOnBus)`, `SF(UseBus)`: the peripheral works
through its queue and the slave or the bus answers; strong, because a caller who keeps
calling can disable the bus step for the length of a call, over and over. `WF(PinReleased)`:
whoever holds a line low lets go. Nothing obliges anyone to make a call, except in
`RetrySpec` (`master_recovery`), which is about a caller who tries again (`SF(RejectCall)`). In `clients`,
`WF(finish)`: `finish()` polls, and its time is limited; and a thread inside a call of the client
goes on with it. In `raspberry_pi`, `WF(Tester)`: a call of smbus2 ends, as the kernel's driver has a timeout of its own; Ctrl-C is never obliged to come.
`master_arbitration` has `CHECK_DEADLOCK FALSE`: with the driver stuck and a caller who waits
for it, nothing can happen any more, which is the finding. `timing` has it because a trace ends at its last edge.

## 4. What is proved

Each theorem holds for every value of the constants that the named assumptions allow; TLC evaluates
these in each run.

**`I2CMasterProofs`**, with no assumption on faults or on the timing of ISR and caller: `TypeCorrect` (including that the driver
never overfills the FIFO), `CursorInBounds` and `StartComesFirst`. The inductive invariant is
`TypeOK /\ BufferInBounds /\ OneStart`; none of the three is
inductive alone. The ISR fills the FIFO from `bytes_left`, which is a natural number only
because the cursor is in bounds, and the cursor moves by as much as there is space. The
argument goes handler by handler: each keeps `MachineInv` (the same invariant of the record
a handler works on), the ISR is their composition (`ServiceInterruptInv`), and one lemma per
group of actions lifts that to `Inv'`. `TransmitKInv` is the step that needs care: k words
appended to the queue at once, none of them a START.

**`I2CMasterOutcomeProofs`**: what the driver tells its caller is true. `CompleteWhenFinished`, `NakIsReported`,
`FifosAreEmptyAtStart`, `NoProgrammingError`, `NoStorm` and `BufferIsReleased` state the properties of `master` of
nearly the same names for every FIFO depth and length, and with other masters on the bus as well.
`PromptSystem` is what they assume: a prompt ISR and caller, no line held low, and a STOP asked for by every transfer; `begin()`
and `end()` may still come at any time. None of it can be dropped: section 6 has the counterexamples (a caller
preempted before `MIER |= TDIE` or before a STOP, a line held low, a write that keeps the bus).
The inductive invariant `OutcomeInv` says where the system can be. At `Rest` nothing is queued; `Started`, a START is in the queue or on the wire,
with what the thread has put behind it so far; `Writing`, the cursor is ahead of the bus by the bytes in the queue and in flight;
`Reading`, the address is over and the bytes have not been asked for; `Winding`, only a STOP is left, after
the last byte or an error. `Truthful` says what `error()` is going to tell of an accepted call, and `Account` where each of its bytes is: on the
bus, in the receive FIFO, in the array or still owed by the slave. `ISRKeeps...` and `...KeepsOutcome` are its lemmas, one for each action in each situation.
`NoStorm` needs more than the situations: for each flag an ISR is called for, the handler of that flag takes it back and no later
handler raises it again (`SignalsTakenBack`).
`FinishedStays` and `ImplementsTransfer` add that nobody else is on the bus: a lost arbitration turns `finished()` false and true
again (`master_arbitration`), which `I2CTransfer` does not allow. `ImplementsTransfer` is the safety half of `KeepsPromise`: initial states map to initial
states, and each step to `Start`, `Move`, `End`, `Refuse`, `Restart` or none; it needs `PatientRestart`, as a `begin()` in the middle of a transfer forgets it.

**`I2CSlaveProofs`**, for a thread that calls only while the bus is idle (`PatientApp`), any ISR, however late: `TypeCorrect` and
`CursorsStayInArrays`. While `initialise()` is half done, cursor and size do not
fit the array; the invariant adds that then no interrupt is pending and no frame is addressed to the slave (`Setting`, `Quiet`), so
that the ISR never meets a buffer in that state. Without `PatientApp` the theorem is false: `slave_buffer` is the counterexample.

**`I2CSlaveByteProofs`**: `BytesAreRight`, `ErrorsAreTrue` and `CallbacksAreMade`, for `PatientApp` and if a bit error's frame still ends with a flag (without `"deaf"`).
The driver works a byte ahead of the master, so the invariant `Underway` gives, for the four cases of STDR and shift register empty or full,
which byte is where and where the cursor is; `FlagsInv` says which flags can be up in which phase, and with it that while the end of the last frame has
not been handled nothing of this one has been moved (`Untouched`). Both theorems leave out a frame that is given up; `GivenUpInv` says when that is: only
once an ISR has been late, and no longer than until the end of that frame has been handled, whose callback cannot be that of the other direction.
`error()` follows from counting: `AskedInv` says that the driver has been asked for the bytes read, the one on the wire and the one in
STDR, and at the end of the frame, if no ISR was late, for one more than the master wanted; that is why `trailing_byte_sent` forgives one.
`ReceivingInv` does the same for bytes received. The callbacks follow from looking ahead: `EndCalls` and `StartCalls` are
those the ISR is going to make from the state as it is, `CallsInv` says that they are the ones due, and
`ISRByteStep` that the ISR makes them. Their address is `AddressKnown`, SASR if AVF is up and else the one read last.

**`I2CRegisterSlaveProofs`**: `TypeCorrect` and `BuffersStayInArrays`, for any frames, the discarded writes of the
finding included. The invariant ties the receive buffer, which can point to three kinds of places (`Waiting`,
`Taking`, `Ignoring`), to `got_reg_num` and the register the master selected. Two assumptions on sizes are stated with the
theorems: fewer than 256 mutable registers (with 256 the size of register 0 is truncated to 0), and an `rx_buffer` of at least two bytes.

In the same module, `ImplementsRegisterFile`, `Spec => KeepsRegisterFile`, under the same assumptions
and for a master that does not write to a read-only register it has selected (for one that does it is false:
`register_slave_discard`). Between two frames the slave's whole state is a function of the selected register
(`Serves`); one lemma per frame shows what it makes of that state, and one lemma per action that this is a step of `RegisterFile`.

**`I2CClientsProofs`**: `ClientTypesCorrect` and `CursorsStayInBuffers`, for arrays of any length, if a slave `write()`s in `loop()` or in its callbacks and not in both
(`OneFiller`; else it is false, section 6). While `write()` is under way callbacks then only leave the cursor or set it to 0 (`FillsInv`), so that the
bytes fit wherever they go. The count of `requestFrom()` comes from the driver and may be that of an earlier call, so the
invariant reaches down to it: once Wire is in use every array that is or is about to be lent to the driver is no longer than Wire's
(`LentByWire`), and the driver's cursor is inside it (`Inv` of `I2CMasterProofs`, whose steps the clients' steps are). That the ISR never
changes the size of the array it has been lent is shown handler by handler (`InterruptKeepsArray`).

**`BusTimingProofs`**: `ProfilesMeetSpecification`, `NeverFasterThanAsked`, `CalculatorAgreesWithTrace` and `WorstCasesAreBounds` state
the four properties of `timing` for messages of every length, every frequency asked for and every whole percentage
of the slowest rise on either line; `TimingAssumption` is all they assume. The properties are about
the set of edges already drawn and are not inductive. The argument has three parts.
*The trace.* `TraceInv` says where edges are: those of a line alternate and are in order; SCL is low for `LowDelay` and high for
`HighDelay`, unless a condition lies in between (`SclSpacing`); each edge of SDA has a place after one edge of SCL, as a bit, a START or a STOP (`Placed`), with what
follows it at its nominal delay; `AtPhase` says how far the message is, so that the next edge comes after all others. One lemma for each action (`StartShape`,
`SetBitShape`, ...) rests on one for each line (`SclStep`, `SdaStep`); the order of the edges needs that no bit is set as late as
SCL's rise (`DelaysInOrder`), which is true of each board (`Boards`: three profiles, seven examples).
*The measurements.* Since `Before` finds the edge of SCL that an edge of SDA is placed after (`BeforeIs`), each interval that
can be measured is one of a dozen expressions in the board (`MeasuresOnlyForms`); the message is gone from the rest.
*The numbers.* The calculator works in thousandths of the trace's unit and truncates to whole nanoseconds at the end, the trace floors each
edge: `ClockAgrees` and `BitsAgree` bound what these can add up to. `StandardMeets`, `FastMeets`, `FastPlusMeets`
compare the forms with the tables for any two rises. The worst cases rest on
`HighTimeBound` and `SetupTimeBound`, which hold for every profile the registers can hold: the ticks `SCL_LATENCY` counts grow with the rise, but SCL
passes 70 % later than the port's trigger (`QuotientsOfRises`), so that an interval on a faster board can be
shorter than the worst case, by less than a tick; a rise that is faster by t gives 51 % of t back, which is more than the floors of a trace take away. `FastestClock` is the same of the period.

**`ReliabilityTesterProofs`**: `CountsAreTheBus`, for any number of tests, faults and Ctrl-C. An error is counted some steps after its fault, so
the invariant says where a fault is owed: in the handler of an exception, and at the check of a verdict that is not OK.
`DamageIsAlwaysCounted` is the other direction, for one test: `DamageInv` follows its spoilt call from the fault to the count, by way of
an exception or of the verdict a bad write has left. `FinalCountsArePrinted`: a completed test is reported in the loop or at
the end, of a run that gets to its end: what a Ctrl-C in `finally` itself skips, the bus's `close()` or the report, is lost, and neither
this theorem nor `RunEnds` promises it.

**Left to TLC**: all liveness, `End` of `I2CTransfer` included (fairness and ENABLED are out of the provers' reach); what the clients tell their callers and when the ISR uses their arrays (`OutcomeIsTrue`, `CountIsTrue`,
`ArrayIsLent`: `read()` keeps the bus after its first transaction, which `OutcomeInv` does not cover).

## 5. What is not modelled, and why

* Bytes (except in `I2CRegisterSlave`), addresses on the wire, pads, clock gates, the register map; debug logging changes nothing.
* The profiles for the old 24 MHz functional clock (behind `#ifdef`) and the PINLOW field.
* `SDA_LATENCY()`, `sda_latency()`, `pre_rise()` of the calculator, which nothing calls; printing and plotting.
* Registration of the slave's callbacks: all three are set. What an ISR finds in a half-assigned
  `std::function` is undefined.
* FEF of the slave "will not happen if clock stretching is enabled" (cpp:669), and does not in the model.
* The order of calls inside `I2CRegisterSlave::listen()`, and updates in the middle of a frame: a frame is one step.
* Wire's slave half is fed by any sequence of its two callbacks, more than `I2CSlave` would make.
* The other Raspberry Pi scripts call smbus2 in a straight line and keep no state.

## 6. Seen with TLC, beyond the findings

With the assumptions of a run relaxed, or read against a document, the models show the following.

*Master*

* *Caller preempted between START and `MIER |= TDIE`* (cpp:262) for longer than the address
  byte: the NACK's abort has already cleared TDIE; the caller sets it again and TDF, which
  nothing will ever serve, interrupts for ever. `NoInterruptStorm` and `NakReported` fail without `PromptCaller`.
* *Caller preempted before a STOP it has decided on* (cpp:472-476, or the STOP behind an empty transfer's address, cpp:256): the bus is released in
  the meantime, the STOP has nothing to stop, and until the peripheral drops it the next `start()` finds the FIFO not empty, which
  "should never happen" (cpp:431). So does one after another master wins the bus between the STOP and `state = idle` (cpp:420). `FifosEmptyAtStart` fails without `PromptCaller`.
* *Line held low*: PLTF cannot be cleared while it lasts, and the ISR is entered again at once. An idle driver with TDF up goes to
  `transferring` and queues bytes without a START (FEF).
* *`address_nak`* (api:24) is reported as `data_nak` for a write: TDF has moved `state` on before the address is answered (cpp:368).
* *A write that keeps the bus* is finished before its last byte is acknowledged (cpp:384); a NACK then makes `finished()` false again.
* *`begin()` or `end()` in mid-transaction* leaves `state` busy: `finished()` is false until a call
  has been refused.
* *`read_async()` of too many bytes* while a transaction runs: its `invalid_request` is set back
  to `ok` by the first-byte branches (cpp:342-345, 366-370).
* *A call made while an automatic STOP is on the wire*, after an error has cleared MEN: its outcome can be the
  one before's (`OutcomeIsTrue` fails with `AvoidsStop = FALSE`).

*Clients*

* *`requestFrom()` of no bytes, or refused*, returns the count of the call before (wire:91).
* *An `I2CDevice` and a Wire that share a master*: that count can be more than Wire's array holds.
* *`available()` then `read()`* with a block received in between: the byte is of another block than the count.
* *A Wire slave that fills its buffer in `loop()`*, "much better" according to `i2c_driver_wire.h:110-112`: `before_transmit()` sets
  `tx_next_byte_to_write` to 0 before it passes the buffer on (wire:113), so that what `write()` has put there is dropped and the master reads dummies.
  A step property of `I2CClients` that forbids `before_transmit` to lower the cursor of a slave with `wire.fills = {"loop"}` fails in a few steps.
* *`write()` in `loop()` and in a callback of the same slave*: the cursor that `write()` has compared is not the one it adds to, which can
  end up past the end (`CursorsInBuffers` fails with `{"loop", "callbacks"}` in `Fillings`).

*Slave*

* *Late ISR*: the request for the byte after the dummy is withdrawn by the master's NACK before
  the ISR sees it, and an underflow goes unreported.
* *Late ISR, two addresses*: AVF is handled before the end of the frame before it (cpp:596-605),
  so a callback is told the address of the next frame.
* *`listen()` in the middle of a frame* leaves `state` transmitting: the next frame's `before_transmit` is skipped (cpp:530).
* *Late ISR after a bit error*: BEF does not interrupt (cpp:558) and its handler comes last in the ISR. An ISR that runs only once the master has sent a
  repeated START and called the slave again ends the old frame, puts byte 0 of the new one in STDR (cpp:633-667) and then sets `state = idle` for the
  bit error in the middle of the new frame (cpp:673-683). The next request is taken for the start of a frame: `before_transmit` is called again and
  byte 0 is sent twice. `CallbacksAreDue` and `RightByte` fail in `slave` without their `app.given_up`.
* *Deaf after a bit error*: BEF does not interrupt (cpp:558). If the peripheral flags no STOP after it (`"deaf"`; the
  manual does not say), the driver stays transmitting into the next frame, whose `before_transmit` is
  skipped; `slave` assumes that the STOP is flagged.
* *256 mutable registers*: `buffer_size` is a `uint8_t`, so that register 0 takes and gives no bytes.

*Timing and tester*

* The 0.603 of the calculator's fall is that from 0.5 Vdd; the documents (and `TEENSY_FALL`) say 0.462, which gives 0.510. The difference is within the 2 ns of `CalculatorAgrees`.
* The calculator's 24 MHz examples have BUSIDLE 110 and 44 where the driver's profiles for that clock have 3 and 1; the label of the plot of the START hold time says tSU;STO.
* The last report is missed when the last test is one that is reported and it raises (the exception in `FinalCountsReported`), and by a
  Ctrl-C in `finally`, which can leave the bus open as well; Ctrl-C in the recovery is swallowed; a reply that is not text counts as an `other_error`.

## 7. Plan

Done: the driver's two halves and their peripherals, the register slave, both blocking clients, the timing
calculator with the profiles and the simulator, the reliability tester; proofs for all of them. Left, in this order:

1. Register slave over `I2CSlave`, byte by byte, with the main loop in between: torn reads and the
   order of calls in `listen()`; the callbacks of Wire's slave half from the same composition.
2. `ArrayIsLent` and `OutcomeIsTrue` for the clients: `OutcomeInv` extended to a write that keeps the bus.
3. The old 24 MHz profiles.
