---------------------------- MODULE TeensyConfig ----------------------------
(***************************************************************************)
(* teensy_config.py: what the registers of an LPI2C port make of the       *)
(* intervals on the bus. A config c is the object, with its attributes.    *)
(* Times are exact: 1 ns is 1000 * c.frequency (MHz) of them, so that the  *)
(* period of the clock is 10^6 and a rise time t is t * thousandths *      *)
(* c.frequency of the way to a voltage. Python computes with floats and    *)
(* rounds towards zero only in Parameter.                                  *)
(***************************************************************************)
EXTENDS Integers, Sequences

\* Thousandths of the 30% - 70% time an edge takes to get to a voltage.
time_to_rise_to_0_3_vdd == 421
time_to_rise_to_0_7_vdd == 1421
time_to_rise_to_teensy_trigger_voltage == 911
time_to_fall_to_0_7_vdd == time_to_rise_to_0_3_vdd
time_to_fall_to_0_3_vdd == time_to_rise_to_0_7_vdd
time_to_fall_from_trigger_to_0_3_vdd == 603

period == 1000000
\* PRESCALE is a power of two, in a field of three bits.
Divider == <<1, 2, 4, 8, 16, 32, 64, 128>>
scale(c) == period * Divider[c.PRESCALE + 1]
Nanos(c, ns) == ns * 1000 * c.frequency
Part(c, time, thousandths) == time * thousandths * c.frequency

\* int() of a number of nanoseconds.
Truncated(c, t) == LET d == 1000 * c.frequency IN IF t >= 0 THEN t \div d ELSE -((-t) \div d)

Parameter(c, i2c, nominal, worst_case) ==
    [i2c_value |-> Truncated(c, i2c), nominal |-> Truncated(c, nominal),
     worst_case |-> Truncated(c, worst_case)]

\* A filter may not be longer than its field of the register.
validate(c) == c.FILTSCL \in 0..15 /\ c.FILTSDA \in 0..15

\* The ticks of the prescaled clock the port takes to see SCL rise.
SCL_LATENCY(c, rise) ==
    ((2 + c.FILTSCL) * period + Part(c, rise, time_to_rise_to_teensy_trigger_voltage)) \div scale(c)

\* The nominal intervals: from the start of one edge to the start of the next.
StartHold(c) == scale(c) * (c.SETHOLD + 1)
Setup(c, rise) == scale(c) * (c.SETHOLD + 1 + SCL_LATENCY(c, rise))
High(c, rise) == scale(c) * (c.CLKHI + 1 + SCL_LATENCY(c, rise))
Low(c) == scale(c) * (c.CLKLO + 1)
MasterHold(c) == scale(c) * (c.DATAVD + 1)
SlaveHold(c) == period * (c.FILTSCL + c.DATAVD + 3)

\* A rise of SDA of more than 1 us is added to the time the bus is left free.
BusFree(c, rise) ==
    Nanos(c, 1000) +
    IF rise > 1000
    THEN scale(c) * (c.CLKLO + 2) + Part(c, rise - 1000, time_to_rise_to_0_7_vdd)
    ELSE scale(c) * (c.CLKLO + 1 + (IF c.BUSIDLE > 1 THEN c.BUSIDLE + 1 ELSE 2))

\* What is left of a nominal interval that begins once SCL or SDA has risen and ends as
\* the other line, or the same, begins to fall.
RiseToFall(c, nominal, rise) ==
    nominal - Part(c, rise, time_to_rise_to_0_7_vdd) + Part(c, c.fall_time, time_to_fall_to_0_7_vdd)

start_hold(c) ==
    LET i2c == StartHold(c) - Part(c, c.fall_time, time_to_rise_to_0_7_vdd)
                            + Part(c, c.fall_time, time_to_rise_to_0_3_vdd)
    IN Parameter(c, i2c, StartHold(c), i2c)

setup_repeated_start(c) ==
    Parameter(c, RiseToFall(c, Setup(c, c.scl_risetime), c.scl_risetime), Setup(c, c.scl_risetime),
              RiseToFall(c, Setup(c, c.max_rise), c.max_rise))

stop_setup(c) ==
    LET seen(rise) == Setup(c, rise) - Part(c, rise, time_to_rise_to_0_7_vdd) IN
    Parameter(c, seen(c.scl_risetime) + Part(c, c.sda_risetime, time_to_rise_to_0_3_vdd),
              Setup(c, c.scl_risetime), seen(c.max_rise))

\* Mutation: the slowest rise makes the port wait longer, and is not subtracted.
clock_high_kept_rise(c) ==
    Parameter(c, RiseToFall(c, High(c, c.scl_risetime), c.scl_risetime), High(c, c.scl_risetime),
              RiseToFall(c, High(c, c.max_rise), c.scl_risetime))

clock_high(c) ==
    Parameter(c, RiseToFall(c, High(c, c.scl_risetime), c.scl_risetime), High(c, c.scl_risetime),
              RiseToFall(c, High(c, c.max_rise), c.max_rise))

\* Mutation: LOW lasts until SCL gets to 70 %.
clock_low_to_0_7(c) ==
    LET worst_case == Low(c) - Part(c, c.fall_time, time_to_fall_to_0_3_vdd) IN
    Parameter(c, worst_case + Part(c, c.scl_risetime, time_to_rise_to_0_7_vdd), Low(c), worst_case)

clock_low(c) ==
    LET worst_case == Low(c) - Part(c, c.fall_time, time_to_fall_to_0_3_vdd) IN
    Parameter(c, worst_case + Part(c, c.scl_risetime, time_to_rise_to_0_3_vdd), Low(c), worst_case)

\* In hertz. Nothing slows the clock when the line takes no time to rise.
clock_frequency(c) ==
    LET hertz(rise) == (period * c.frequency) \div ((Low(c) + High(c, rise)) \div period)
    IN [i2c_value |-> hertz(c.scl_risetime), nominal |-> hertz(c.scl_risetime), worst_case |-> hertz(0)]

bus_free(c) ==
    Parameter(c, RiseToFall(c, BusFree(c, c.sda_risetime), c.sda_risetime), BusFree(c, c.sda_risetime),
              RiseToFall(c, BusFree(c, c.max_rise), c.max_rise))

data_hold(c, master, falling) ==
    LET \* to where the new bit begins to be seen
        begin(rise) == IF falling THEN Part(c, c.fall_time, time_to_fall_to_0_7_vdd)
                                  ELSE Part(c, rise, time_to_rise_to_0_3_vdd)
        fromMaster == MasterHold(c) - Part(c, c.fall_time, time_to_fall_to_0_3_vdd)
        fromSlave(fall) == SlaveHold(c) - Part(c, fall, time_to_fall_from_trigger_to_0_3_vdd)
    IN IF master
       THEN Parameter(c, fromMaster + begin(c.sda_risetime), MasterHold(c), fromMaster + begin(c.max_rise))
       ELSE Parameter(c, fromSlave(c.fall_time) + begin(c.sda_risetime), SlaveHold(c), fromSlave(c.max_fall))

\* The parameters below are made of whole nanoseconds.
data_valid(c, master, falling) ==
    LET hold == data_hold(c, master, falling)
        edge == IF falling THEN c.fall_time ELSE c.sda_risetime
    IN [hold EXCEPT !.i2c_value = @ + edge, !.worst_case = @ + edge]

data_setup(c, master, falling) ==
    LET low == clock_low(c)
        dv == data_valid(c, master, falling)
        i2c == low.i2c_value - dv.i2c_value
        nominal == low.nominal - dv.nominal
        int(ns, time, thousandths) == Truncated(c, Nanos(c, ns) - Part(c, time, thousandths))
    IN [i2c_value |-> i2c, nominal |-> nominal,
        worst_case |-> CASE ~falling -> int(i2c, c.max_rise - c.sda_risetime, time_to_rise_to_0_7_vdd)
                         [] falling /\ master -> i2c
                         [] falling /\ ~master -> int(nominal, c.max_fall, time_to_fall_to_0_3_vdd)]

\* In the exact unit, not rounded.
sda_glitch_filter(c) == c.FILTSDA * period
scl_glitch_filter(c) == c.FILTSCL * period
=============================================================================
