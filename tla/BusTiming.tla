----------------------------- MODULE BusTiming -----------------------------
(***************************************************************************)
(* A master with one of the driver's profiles (set_clock()) and a slave    *)
(* with the driver's default profile put a message on a bus whose lines    *)
(* rise more or less fast. Each edge starts when the device that makes it  *)
(* has waited for the nominal interval of TeensyConfig; the intervals that *)
(* result between the voltages are measured on the trace the way the       *)
(* design plots do.                                                        *)
(***************************************************************************)
EXTENDS I2CTrace, I2CSpecification, FiniteSets

CONSTANTS
    Frequencies,   \* what begin() is asked for, in hertz
    RiseTimes,     \* rise times of the lines, in percent of the slowest the mode allows
    MaxEdges       \* bound: edges drawn on SCL

ASSUME TimingAssumption ==
    /\ Frequencies \subseteq Nat \ {0} /\ RiseTimes \subseteq 1..100 /\ MaxEdges \in Nat

VARIABLES
    asked,     \* the frequency that was asked for
    config,    \* the master's TeensyConfig
    phase,     \* what the master is doing
    driver     \* the device that sets SDA

Teensy == INSTANCE TeensyConfig

vars == <<asked, config, sda, scl, phase, driver>>

Profile(PRESCALE, CLKHI, CLKLO, DATAVD, SETHOLD, FILTSDA, FILTSCL, BUSIDLE) ==
    [PRESCALE |-> PRESCALE, CLKHI |-> CLKHI, CLKLO |-> CLKLO, DATAVD |-> DATAVD,
     SETHOLD |-> SETHOLD, FILTSDA |-> FILTSDA, FILTSCL |-> FILTSCL, BUSIDLE |-> BUSIDLE]

\* Mutation: CLKHI and CLKLO in the wrong order.
FastMode_swapped == Profile(1, 42, 23, 11, 21, 15, 15, 1)

DefaultStandardModeMasterConfiguration == Profile(3, 34, 37, 7, 44, 15, 15, 9)
DefaultFastModeMasterConfiguration == Profile(1, 23, 42, 11, 21, 15, 15, 1)
DefaultFastModePlusMasterConfiguration == Profile(0, 14, 36, 12, 19, 6, 6, 1)

\* The port's functional clock in MHz, and the time its pins take to fall in ns.
PortClock == 60
FallTime == 8

\* The slowest rise a mode is designed for: 10 % more than the specification's.
Mode(profile, spec, max_rise) == [profile |-> profile, spec |-> spec, max_rise |-> max_rise]

\* Mutation: the nearest mode rather than the fastest one that is not too fast.
set_clock_nearest(frequency_) ==
    CASE frequency_ < 200000 -> Mode(DefaultStandardModeMasterConfiguration, standard_mode_spec, 1100)
      [] frequency_ >= 200000 /\ frequency_ < 1000000 ->
            Mode(DefaultFastModeMasterConfiguration, fast_mode_spec, 330)
      [] frequency_ >= 1000000 -> Mode(DefaultFastModePlusMasterConfiguration, fast_mode_plus_spec, 132)

set_clock(frequency_) ==
    IF frequency_ < 400000 THEN Mode(DefaultStandardModeMasterConfiguration, standard_mode_spec, 1100)
    ELSE IF frequency_ < 1000000 THEN Mode(DefaultFastModeMasterConfiguration, fast_mode_spec, 330)
    ELSE Mode(DefaultFastModePlusMasterConfiguration, fast_mode_plus_spec, 132)

\* The object that stands for a profile on a board; rises: of SCL and of SDA.
Board(p, clock, rises, max_fall, max_rise) ==
    [frequency |-> clock, scl_risetime |-> rises[1], sda_risetime |-> rises[2], fall_time |-> FallTime,
     max_fall |-> max_fall, max_rise |-> max_rise, PRESCALE |-> p.PRESCALE, CLKHI |-> p.CLKHI,
     CLKLO |-> p.CLKLO, DATAVD |-> p.DATAVD, SETHOLD |-> p.SETHOLD, FILTSDA |-> p.FILTSDA,
     FILTSCL |-> p.FILTSCL, BUSIDLE |-> p.BUSIDLE]

Config(mode, scl_risetime, sda_risetime) ==
    Board(mode.profile, PortClock, <<scl_risetime, sda_risetime>>, FallTime, mode.max_rise)

\* The examples of i2c_timing_calculator.py, each on its own board.
master_100k_config == Board(Profile(1, 55, 59, 25, 63, 5, 5, 6), 24, <<32, 1446>>, 300, 1100)
master_400k_config == Board(Profile(0, 26, 28, 12, 25, 2, 2, 110), 24, <<350, 327>>, 300, 330)
master_1M_config == Board(Profile(0, 9, 10, 4, 10, 1, 1, 44), 24, <<300, 320>>, 120, 330)
master_example_400k_config == Board(Profile(0, 53, 62, 15, 29, 1, 1, 0), 48, <<320, 320>>, 300, 330)
master_example_400k_config_2 == Board(Profile(1, 31, 40, 8, 17, 2, 2, 0), 60, <<320, 320>>, 300, 330)
master_example_1M_config == Board(Profile(2, 4, 6, 4, 3, 1, 1, 0), 48, <<320, 320>>, 120, 132)
master_example_1M_config_2 == Board(Profile(1, 11, 15, 1, 7, 2, 2, 0), 60, <<320, 320>>, 120, 132)

Examples ==
    {master_100k_config, master_400k_config, master_1M_config, master_example_400k_config,
     master_example_400k_config_2, master_example_1M_config, master_example_1M_config_2}

DefaultSlaveConfiguration == [config EXCEPT !.DATAVD = 3, !.FILTSDA = 6, !.FILTSCL = 6]

InitDriver ==
    /\ asked \in Frequencies
    /\ \E p \in RiseTimes, q \in RiseTimes :
          LET mode == set_clock(asked)
              rise(percent) == (mode.max_rise * percent) \div 100
          IN config = Config(mode, rise(p), rise(q))

\* An example is not for a frequency: nothing is asked of it.
InitExample == asked = 0 /\ config \in Examples

\* The slave: the driver's default profile, or the config printed for the example.
SlaveConfig == IF asked = 0 THEN config ELSE DefaultSlaveConfiguration

Init ==
    /\ InitDriver \/ InitExample
    /\ Teensy!validate(config)
    /\ scl = I2CLine(config.scl_risetime, config.fall_time)
    /\ sda = I2CLine(config.sda_risetime, config.fall_time)
    /\ phase = "free" /\ driver = "master"

-----------------------------------------------------------------------------
\* Intervals of TeensyConfig in the trace's unit, 1/config.frequency ns.
Drawn(t) == t \div 1000

\* When a device sets its bit after SCL has begun to fall. The slave waits until it sees it.
BitAt(device) ==
    IF device = "master"
    THEN LastEdge(scl).at + Drawn(Teensy!MasterHold(config))
    ELSE get_time_from_edge(scl, Len(scl.edges), TEENSY_FALL, config.frequency)
         + Drawn(Teensy!SlaveHold(SlaveConfig))

\* SDA goes down when START is sent, once the bus has been free long enough.
Start ==
    /\ phase = "free"
    /\ sda' = fall_at(sda, IF sda.edges = <<>> THEN 0
                           ELSE LastEdge(sda).at + Drawn(Teensy!BusFree(config, config.sda_risetime)), "master")
    /\ phase' = "started" /\ driver' = "master"
    /\ UNCHANGED <<asked, config, scl>>

RepeatedStart ==
    /\ phase = "high" /\ driver = "master" /\ IsHigh(sda)
    /\ sda' = fall_at(sda, LastEdge(scl).at + Drawn(Teensy!Setup(config, config.scl_risetime)), "master")
    /\ phase' = "started"
    /\ UNCHANGED <<asked, config, scl, driver>>

Stop ==
    /\ phase = "high" /\ driver = "master" /\ ~IsHigh(sda)
    /\ sda' = rise_at(sda, LastEdge(scl).at + Drawn(Teensy!Setup(config, config.scl_risetime)), "master")
    /\ phase' = "free"
    /\ UNCHANGED <<asked, config, scl, driver>>

ClockFalls ==
    /\ phase \in {"started", "high"} /\ Len(scl.edges) < MaxEdges
    /\ scl' = fall_at(scl, IF phase = "started" THEN LastEdge(sda).at + Drawn(Teensy!StartHold(config))
                           ELSE LastEdge(scl).at + Drawn(Teensy!High(config, config.scl_risetime)), "master")
    /\ phase' = "low"
    /\ UNCHANGED <<asked, config, sda, driver>>

\* SDA falls when the device whose turn it is pulls it down, and rises when the one that
\* held it down lets go.
SetBit(device, bit) ==
    /\ phase = "low"
    /\ sda' = CASE bit /\ ~IsHigh(sda) -> rise_at(sda, BitAt(driver), driver)
                [] ~bit /\ IsHigh(sda) -> fall_at(sda, BitAt(device), device)
                [] bit = IsHigh(sda)   -> sda
    /\ driver' = device
    /\ phase' = "set"
    /\ UNCHANGED <<asked, config, scl>>

ClockRises ==
    /\ phase = "set" /\ Len(scl.edges) < MaxEdges
    /\ scl' = rise_at(scl, LastEdge(scl).at + Drawn(Teensy!Low(config)), "master")
    /\ phase' = "high"
    /\ UNCHANGED <<asked, config, sda, driver>>

Next ==
    \/ Start \/ RepeatedStart \/ Stop
    \/ ClockFalls \/ ClockRises
    \/ \E device \in {"master", "slave"}, bit \in BOOLEAN : SetBit(device, bit)

Spec == Init /\ [][Next]_vars

-----------------------------------------------------------------------------
(* What is measured on the trace.                                          *)

\* The last SCL edge that began before edge j of SDA: 0 if there is none.
Before(j) == Cardinality({i \in Edges(scl) : scl.edges[i].at < sda.edges[j].at})

Conditions == {j \in Edges(sda) : Before(j) \notin Falls(scl)}   \* START and STOP
Bits == Edges(sda) \ Conditions
Starts == Falls(sda) \cap Conditions
Stops == Rises(sda) \cap Conditions
RepeatedStarts == {j \in Starts : Before(j) # 0 /\ j - 1 \notin Stops}

Interval(what, time, calculated) == [what |-> what, time |-> time, calculated |-> calculated]

ClockIntervals ==
    LET f == config.frequency
        wholeHigh == {i \in Rises(scl) : \A j \in Conditions : Before(j) # i}
    IN {Interval("scl_low_time", low_time(i, f), Teensy!clock_low(config)) :
              i \in Falls(scl) \ {Len(scl.edges)}}
       \cup {Interval("scl_high_time", high_time(i, f), Teensy!clock_high(config)) :
              i \in wholeHigh \ {Len(scl.edges)}}

ConditionIntervals ==
    LET f == config.frequency
    IN {Interval("start_setup_time", setup_start_time(Before(j), j, f),
                 Teensy!setup_repeated_start(config)) : j \in RepeatedStarts}
       \cup {Interval("start_hold_time", hold_start_time(j, Before(j) + 1, f), Teensy!start_hold(config)) :
              j \in {k \in Starts : Before(k) < Len(scl.edges)}}
       \cup {Interval("stop_setup_time", setup_stop_time(Before(j), j, f), Teensy!stop_setup(config)) :
              j \in Stops}
       \cup {Interval("bus_free_time", bus_free(j, f), Teensy!bus_free(config)) :
              j \in Stops \ {Len(sda.edges)}}

BitIntervals ==
    LET f == config.frequency
        calculated(op(_, _, _), j) ==
            LET edge == sda.edges[j]
                master == edge.by = "master"
            IN op(IF master THEN config ELSE SlaveConfig, master, edge.direction = FALLING)
    IN {Interval("data_hold_time", data_hold(Before(j), j, f), calculated(Teensy!data_hold, j)) : j \in Bits}
       \cup {Interval("data_valid_time", data_valid(Before(j), j, f), calculated(Teensy!data_valid, j)) :
              j \in Bits}
       \cup {Interval("data_setup_time", setup_data_time(j, Before(j) + 1, f),
                      calculated(Teensy!data_setup, j)) :
              j \in {k \in Bits : Before(k) < Len(scl.edges)}}

Intervals == ClockIntervals \cup ConditionIntervals \cup BitIntervals

\* The periods of the clock, in the trace's unit.
Periods == {frequency(i, config.frequency) : i \in {k \in Falls(scl) : k + 2 <= Len(scl.edges)}}

\* hertz as a period in the trace's unit.
PeriodOf(hertz) == (1000000000 \div hertz) * config.frequency

-----------------------------------------------------------------------------
(* Properties.                                                             *)

\* Whatever the lines' rise times and whatever is sent, each interval two devices that
\* only agree on 30 % and 70 % of Vdd can see is within the limits of the mode: the
\* purpose of the profiles of imx_rt1060_i2c_driver.cpp. In particular no bit changes
\* while SCL is high for somebody, and no condition is missed.
MeetsSpecification ==
    asked # 0 =>
    LET spec == set_clock(asked).spec IN
    /\ \A m \in Intervals : m.time \in spec[m.what].min * config.frequency .. spec[m.what].max * config.frequency
    /\ \A p \in Periods : p >= PeriodOf(spec.frequency.max)
    /\ \A c \in {config, SlaveConfig} :
          /\ Teensy!Nanos(c, spec.spike_width.min) <= Teensy!scl_glitch_filter(c)
          /\ Teensy!Nanos(c, spec.spike_width.min) <= Teensy!sda_glitch_filter(c)

\* set_clock() never gives a faster clock than begin() was asked for, down to 100 kHz.
NotFasterThanAsked == asked >= 100000 => \A p \in Periods : p >= PeriodOf(asked)

\* The calculator's i2c_value is what is measured on the trace, to 2 ns.
CalculatorAgrees ==
    \A m \in Intervals :
       m.time - m.calculated.i2c_value * config.frequency \in -2 * config.frequency .. 2 * config.frequency

\* On a faster board an interval that follows SCL's rise can be less than worst_case, but
\* by less than a tick of the prescaled clock, of which the port counts whole ones until
\* it sees SCL high. The clock is never faster than clock_frequency().worst_case.
WorstCaseBound ==
    config.scl_risetime <= config.max_rise =>
    /\ \A m \in Intervals :
          m.what \in {"scl_high_time", "scl_low_time", "start_setup_time", "stop_setup_time"} =>
             m.time + Drawn(Teensy!scale(config)) > m.calculated.worst_case * config.frequency
    /\ \A p \in Periods : p >= PeriodOf(Teensy!clock_frequency(config).worst_case)

\* i2c_timing_analysis.md:391-393: the worst case of tHIGH is that of the slowest rise.
WorstCaseIsWorst ==
    \A m \in Intervals : m.what = "scl_high_time" => m.time >= m.calculated.worst_case * config.frequency
=============================================================================
