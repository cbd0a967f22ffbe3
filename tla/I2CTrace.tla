------------------------------ MODULE I2CTrace ------------------------------
(***************************************************************************)
(* tools/scope_simulator: the waveform of SDA and SCL. An I2CLine is the   *)
(* list of the edges drawn on it, with the time each of its edges takes    *)
(* from 30% to 70% of Vdd; a measurement is the time between the instants  *)
(* at which two edges pass a voltage. Voltages are in thousandths of Vdd,  *)
(* times in units of 1/clock ns. The logarithms are tabulated at the       *)
(* voltages the tools use.                                                 *)
(***************************************************************************)
EXTENDS Integers, Sequences

VARIABLES sda, scl

RISING == "rising"
FALLING == "falling"

HIGH == 1000
V_IH == 700
V_IL == 300
TEENSY_FALL == 462      \* where a Teensy sees a falling edge, with hysteresis

I2CLine(rise_time, fall_time) == [rise_time |-> rise_time, fall_time |-> fall_time, edges |-> <<>>]

\* An edge is what it does, when it starts, and which device makes it.
Edge(direction, at, by) == [direction |-> direction, at |-> at, by |-> by]
fall_at(line, at, by) == [line EXCEPT !.edges = Append(@, Edge(FALLING, at, by))]
rise_at(line, at, by) == [line EXCEPT !.edges = Append(@, Edge(RISING, at, by))]

Edges(line) == 1..Len(line.edges)
Falls(line) == {i \in Edges(line) : line.edges[i].direction = FALLING}
Rises(line) == {i \in Edges(line) : line.edges[i].direction = RISING}
LastEdge(line) == line.edges[Len(line.edges)]

\* A line nothing has been drawn on is pulled up.
IsHigh(line) == line.edges = <<>> \/ LastEdge(line).direction = RISING

\* -ln(ratio) / (ln 0.7 - ln 0.3) in thousandths: how long an RC circuit takes to get to
\* the ratio of the voltage it started from, in thousandths of the 30% - 70% time.
TauRatio == [ratio \in {700, 462, 300} |->
                CASE ratio = 700 -> 421 [] ratio = 462 -> 911 [] ratio = 300 -> 1421]

get_time_from_edge(line, index, v, clock) ==
    LET edge == line.edges[index]
        rising == edge.direction = RISING
        time == IF rising THEN line.rise_time ELSE line.fall_time
        ratio == IF rising THEN HIGH - v ELSE v
    IN edge.at + (time * clock * TauRatio[ratio]) \div 1000

\* measure_between_edges(): from edge i of a line at voltage v to edge j of another at w.
measure_between_edges(left, i, v, right, j, w, clock) ==
    get_time_from_edge(right, j, w, clock) - get_time_from_edge(left, i, v, clock)

-----------------------------------------------------------------------------
(* The design plots: what each draws between its edges as "I2C Spec".      *)

low_time(i, clock) == measure_between_edges(scl, i, V_IL, scl, i + 1, V_IL, clock)
high_time(i, clock) == measure_between_edges(scl, i, V_IH, scl, i + 1, V_IH, clock)
frequency(i, clock) == measure_between_edges(scl, i, V_IL, scl, i + 2, V_IL, clock)
bus_free(j, clock) == measure_between_edges(sda, j, V_IH, sda, j + 1, V_IH, clock)

setup_start_time(i, j, clock) == measure_between_edges(scl, i, V_IH, sda, j, V_IH, clock)
setup_stop_time(i, j, clock) == measure_between_edges(scl, i, V_IH, sda, j, V_IL, clock)
hold_start_time(j, i, clock) == measure_between_edges(sda, j, V_IL, scl, i, V_IH, clock)

\* A bit that has begun to change, and one that has finished changing.
Begun(j) == IF sda.edges[j].direction = RISING THEN V_IL ELSE V_IH
Settled(j) == IF sda.edges[j].direction = RISING THEN V_IH ELSE V_IL

data_hold(i, j, clock) == measure_between_edges(scl, i, V_IL, sda, j, Begun(j), clock)
data_valid(i, j, clock) == measure_between_edges(scl, i, V_IL, sda, j, Settled(j), clock)
setup_data_time(j, i, clock) == measure_between_edges(sda, j, Settled(j), scl, i, V_IL, clock)
=============================================================================
