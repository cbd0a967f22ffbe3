-------------------------- MODULE BusTimingProofs --------------------------
(***************************************************************************)
(* What the timing model promises for messages of every length, at every   *)
(* frequency and on boards of every rise time. The inductive invariant     *)
(* (TraceInv) says where the edges of a trace are; from it follows that    *)
(* every interval the design plots measure is one of a dozen expressions   *)
(* in the board (MeasuresForms). The rest is arithmetic about those, over  *)
(* the boards the driver's profiles and the calculator's examples make.    *)
(***************************************************************************)
EXTENDS BusTiming, FiniteSetTheorems, TLAPS

\* Who sets SDA, and an edge of a line.
Devices == {"master", "slave"}
EdgeType == [direction : {RISING, FALLING}, at : Nat, by : Devices]

\* A line falls at its odd edges. When the edges begin.
Odd(n) == n % 2 = 1
SclAt(i) == scl.edges[i].at
SdaAt(j) == sda.edges[j].at

\* What a line adds to an edge of t ns, at a voltage it gets to in so many thousandths.
LineTime(t, thousandths) == (t * config.frequency * thousandths) \div 1000

\* The nominal intervals of the master's config, and the delay of a device's bit.
LowDelay == Drawn(Teensy!Low(config))
HighDelay == Drawn(Teensy!High(config, config.scl_risetime))
SetupDelay == Drawn(Teensy!Setup(config, config.scl_risetime))
StartDelay == Drawn(Teensy!StartHold(config))
FreeDelay == Drawn(Teensy!BusFree(config, config.sda_risetime))
BitDelay(device) ==
    IF device = "master" THEN Drawn(Teensy!MasterHold(config))
    ELSE LineTime(config.fall_time, 911) + Drawn(Teensy!SlaveHold(SlaveConfig))

\* Time passes between two edges, and a bit is set before SCL rises.
DelaysInOrder ==
    /\ LowDelay \in Nat \ {0} /\ HighDelay \in Nat \ {0} /\ SetupDelay \in Nat \ {0}
    /\ StartDelay \in Nat \ {0} /\ FreeDelay \in Nat \ {0}
    /\ LineTime(config.fall_time, 911) \in Nat /\ Drawn(Teensy!SlaveHold(SlaveConfig)) \in Nat
    /\ \A device \in Devices : BitDelay(device) \in 1..LowDelay - 1

-----------------------------------------------------------------------------
(* The shape of a trace.                                                   *)

\* The lines take the board's times, and their edges are edges.
LinesOK ==
    /\ scl = [rise_time |-> config.scl_risetime, fall_time |-> config.fall_time, edges |-> scl.edges]
    /\ sda = [rise_time |-> config.sda_risetime, fall_time |-> config.fall_time, edges |-> sda.edges]
    /\ scl.edges \in Seq(EdgeType) /\ sda.edges \in Seq(EdgeType)
    /\ phase \in {"free", "started", "low", "set", "high"} /\ driver \in Devices

\* Both lines begin high and fall and rise in turn.
Alternate ==
    /\ \A i \in Edges(scl) : scl.edges[i].direction = IF Odd(i) THEN FALLING ELSE RISING
    /\ \A j \in Edges(sda) : sda.edges[j].direction = IF Odd(j) THEN FALLING ELSE RISING

\* No two edges of a line begin at once.
InOrder ==
    /\ \A i, k \in Edges(scl) : i < k => SclAt(i) < SclAt(k)
    /\ \A j, k \in Edges(sda) : j < k => SdaAt(j) < SdaAt(k)

\* SCL is low for LowDelay, and high for HighDelay unless there is a condition.
SclSpacing ==
    \A i \in Edges(scl) : i < Len(scl.edges) =>
       IF Odd(i) THEN SclAt(i + 1) = SclAt(i) + LowDelay
       ELSE \/ SclAt(i + 1) = SclAt(i) + HighDelay
            \/ /\ \/ SclAt(i + 1) = SclAt(i) + SetupDelay + StartDelay
                  \/ SclAt(i + 1) = SclAt(i) + SetupDelay + FreeDelay + StartDelay
               /\ \E j \in Edges(sda) : SclAt(i) < SdaAt(j) /\ SdaAt(j) < SclAt(i + 1)

\* Edge j of SDA comes after edge k of SCL and before the next.
Between(j, k) ==
    /\ k > 0 => SclAt(k) < SdaAt(j)
    /\ k < Len(scl.edges) => SdaAt(j) < SclAt(k + 1)

\* What an edge of SDA is while SCL is low, or high.
IsBit(j, k) == SdaAt(j) = SclAt(k) + BitDelay(sda.edges[j].by)

IsStart(j, k) ==
    /\ k < Len(scl.edges) => SclAt(k + 1) = SdaAt(j) + StartDelay
    /\ \/ k = 0
       \/ SdaAt(j) = SclAt(k) + SetupDelay
       \/ j > 1 /\ SclAt(k) < SdaAt(j - 1)

\* The last edge of SDA is a STOP only while the bus is free.
IsStop(j, k) ==
    /\ k > 0 /\ SdaAt(j) = SclAt(k) + SetupDelay
    /\ j < Len(sda.edges) => SdaAt(j + 1) = SdaAt(j) + FreeDelay
    /\ j = Len(sda.edges) => k = Len(scl.edges)

\* Edge j of SDA comes after edge k of SCL, as what it is.
Placed(j, k) ==
    /\ Between(j, k)
    /\ Odd(k) => IsBit(j, k)
    /\ ~Odd(k) /\ Odd(j) => IsStart(j, k)
    /\ ~Odd(k) /\ ~Odd(j) => IsStop(j, k)

\* Every edge of SDA is somewhere.
SdaPlaced == \A j \in Edges(sda) : \E k \in 0..Len(scl.edges) : Placed(j, k)

\* All but the last edges of SDA come before t.
SdaBefore(last, t) == \A j \in 1..Len(sda.edges) - last : SdaAt(j) < t

\* How far the message is.
AtPhase ==
    LET m == Len(scl.edges)
        n == Len(sda.edges)
    IN /\ phase = "free" =>
             /\ ~Odd(m) /\ ~Odd(n) /\ (m = 0 => n = 0)
             /\ m > 0 => n > 0 /\ SdaAt(n) = SclAt(m) + SetupDelay /\ SdaBefore(1, SclAt(m))
       /\ phase = "started" =>
             /\ ~Odd(m) /\ Odd(n) /\ (m = 0 => n = 1)
             /\ m > 0 => \/ SdaAt(n) = SclAt(m) + SetupDelay /\ SdaBefore(1, SclAt(m))
                         \/ SdaAt(n) = SclAt(m) + SetupDelay + FreeDelay /\ SdaBefore(2, SclAt(m))
       /\ phase = "low" => Odd(m) /\ SdaBefore(0, SclAt(m))
       /\ phase = "set" => Odd(m) /\ SdaBefore(0, SclAt(m) + LowDelay)
       /\ phase = "high" => ~Odd(m) /\ m > 0 /\ SdaBefore(0, SclAt(m))

\* The inductive invariant of a trace.
TraceInv ==
    DelaysInOrder /\ LinesOK /\ Alternate /\ InOrder /\ SclSpacing /\ SdaPlaced /\ AtPhase

-----------------------------------------------------------------------------
(* The worst cases of teensy_config.py, for every profile and every board: *)
(* the ticks SCL_LATENCY counts grow with the rise time, but in whole      *)
(* ticks, and SCL passes 70 % later than the port's trigger.               *)

\* The attributes the intervals after a rise of SCL depend on.
IsConfig(c) ==
    /\ c.frequency \in Nat \ {0} /\ c.PRESCALE \in 0..7 /\ c.FILTSCL \in Nat
    /\ c.CLKHI \in Nat /\ c.CLKLO \in Nat /\ c.SETHOLD \in Nat
    /\ c.fall_time \in Nat /\ c.max_rise \in Nat

\* A number is its quotient times the divisor, and less than a divisor more.
LEMMA Quotient ==
    ASSUME NEW n \in Nat, NEW d \in Nat \ {0}
    PROVE  /\ n \div d \in Nat
           /\ d * (n \div d) <= n
           /\ n < d * (n \div d) + d
<1>1. n = d * (n \div d) + (n % d) /\ n % d \in 0..(d - 1)
  BY SMT
<1>2. n \div d \in Nat
  OBVIOUS
<1>3. d * (n \div d) \in Nat
  BY <1>2, SMT
<1>. QED BY <1>1, <1>2, <1>3, SMT

\* The prescaled period is a positive number.
LEMMA ScalePositive == ASSUME NEW c, IsConfig(c) PROVE Teensy!scale(c) \in Nat \ {0}
<1>. DEFINE p == c.PRESCALE
<1>1. p \in 0..7 BY DEF IsConfig
<1>2. Teensy!Divider[p + 1] \in Nat \ {0} BY <1>1 DEF Teensy!Divider
<1>. QED BY <1>2 DEF Teensy!scale, Teensy!period

\* The quotients of two rises differ by as many ticks as the rises, or one more or less;
\* 70 % comes 510 thousandths of the rise after the trigger.
LEMMA QuotientsOfRises ==
    ASSUME NEW a \in Nat, NEW d \in Nat \ {0}, NEW f \in Nat, NEW r \in Nat, NEW m \in Nat, r <= m
    PROVE  d * ((a + r * 911 * f) \div d) - r * 1421 * f + d
              > d * ((a + m * 911 * f) \div d) - m * 1421 * f + 510 * ((m - r) * f)
<1>. DEFINE x == a + r * 911 * f
            y == a + m * 911 * f
<1>1. x \in Nat /\ y \in Nat
  BY SMT
<1>2. x < d * (x \div d) + d /\ x \div d \in Nat
  BY <1>1, Quotient
<1>3. d * (y \div d) <= y /\ y \div d \in Nat
  BY <1>1, Quotient
<1>4. (m - r) * f \in Nat
  BY SMT
<1>5. m * f = r * f + (m - r) * f
  BY SMT
<1>. DEFINE rf == r * f
            mf == m * f
            p == d * (x \div d)
            q == d * (y \div d)
            g == (m - r) * f
<1>6. rf \in Nat /\ g \in Nat /\ mf = rf + g
  BY <1>4, <1>5, SMT
<1>7. p \in Nat /\ q \in Nat
  BY <1>2, <1>3, SMT
<1>8. x = a + 911 * rf /\ y = a + 911 * mf /\ r * 1421 * f = 1421 * rf /\ m * 1421 * f = 1421 * mf
  BY SMT
<1>9. x < p + d /\ q <= y
  BY <1>2, <1>3
<1>. HIDE DEF rf, mf, p, q, x, y, g
<1>10. p - 1421 * rf + d > q - 1421 * mf + 510 * g
  BY <1>1, <1>6, <1>7, <1>8, <1>9, SMT
<1>. QED BY <1>10, <1>8 DEF p, q, x, y, g

\* An interval of k ticks after SCL is seen high, from 70 % of its rise.
AfterRise(c, k, rise) == Teensy!RiseToFall(c, Teensy!scale(c) * (k + 1 + Teensy!SCL_LATENCY(c, rise)), rise)

\* What TeensyConfig calculates for an interval after a rise of SCL, for a faster rise.
LEMMA AfterRiseBound ==
    ASSUME NEW c, IsConfig(c), NEW k \in Nat, NEW rise \in Nat, rise <= c.max_rise
    PROVE  AfterRise(c, k, rise) + Teensy!scale(c)
              > AfterRise(c, k, c.max_rise) + 510 * ((c.max_rise - rise) * c.frequency)
<1>. DEFINE a == (2 + c.FILTSCL) * Teensy!period
            d == Teensy!scale(c)
            f == c.frequency
            m == c.max_rise
            x == (a + rise * 911 * f) \div d
            y == (a + m * 911 * f) \div d
            e == Teensy!Part(c, c.fall_time, Teensy!time_to_fall_to_0_7_vdd)
<1>1. a \in Nat /\ d \in Nat \ {0} /\ f \in Nat /\ m \in Nat /\ rise <= m
  BY ScalePositive DEF IsConfig, Teensy!period
<1>2. e \in Int
  BY DEF Teensy!Part, Teensy!time_to_fall_to_0_7_vdd, Teensy!time_to_rise_to_0_3_vdd, IsConfig
<1>3. Teensy!SCL_LATENCY(c, rise) = x /\ Teensy!SCL_LATENCY(c, m) = y
  BY DEF Teensy!SCL_LATENCY, Teensy!Part, Teensy!time_to_rise_to_teensy_trigger_voltage
<1>4. /\ AfterRise(c, k, rise) = d * (k + 1 + x) - rise * 1421 * f + e
      /\ AfterRise(c, k, m) = d * (k + 1 + y) - m * 1421 * f + e
  BY <1>3 DEF AfterRise, Teensy!RiseToFall, Teensy!Part, Teensy!time_to_rise_to_0_7_vdd
<1>. HIDE DEF a, d, f, m, e
<1>5. x \in Nat /\ y \in Nat
  <2>. DEFINE n == a + rise * 911 * f
              o == a + m * 911 * f
  <2>1. n \in Nat /\ o \in Nat
    BY <1>1, SMT
  <2>. HIDE DEF n, o
  <2>2. n \div d \in Nat /\ o \div d \in Nat
    BY <2>1, <1>1, Quotient
  <2>. QED BY <2>2 DEF n, o
<1>6. d * x - rise * 1421 * f + d > d * y - m * 1421 * f + 510 * ((m - rise) * f)
  BY <1>1, QuotientsOfRises
<1>. HIDE DEF x, y
<1>. DEFINE b == d * (k + 1)
            dx == d * x
            dy == d * y
            u == rise * 1421 * f
            v == m * 1421 * f
            g == (m - rise) * f
<1>7. b \in Int /\ dx \in Int /\ dy \in Int /\ u \in Int /\ v \in Int /\ g \in Int
  BY <1>1, <1>5, SMT
<1>8. d * (k + 1 + x) = b + dx /\ d * (k + 1 + y) = b + dy
  BY <1>1, <1>5, SMT
<1>9. AfterRise(c, k, rise) = d * (k + 1 + x) - u + e /\ AfterRise(c, k, m) = d * (k + 1 + y) - v + e
  BY <1>4
<1>10. dx - u + d > dy - v + 510 * g
  BY <1>6
<1>. HIDE DEF b, dx, dy, u, v, g
<1>11. AfterRise(c, k, rise) + d > AfterRise(c, k, m) + 510 * g
  BY <1>1, <1>2, <1>7, <1>8, <1>9, <1>10, SMT
<1>. QED BY <1>11 DEF d, f, m, g

\* clock_high(): tHIGH on any board the mode is designed for, against its worst case.
THEOREM HighTimeBound ==
    ASSUME NEW c, IsConfig(c), NEW rise \in Nat, rise <= c.max_rise
    PROVE  Teensy!RiseToFall(c, Teensy!High(c, rise), rise) + Teensy!scale(c)
              > Teensy!RiseToFall(c, Teensy!High(c, c.max_rise), c.max_rise)
                  + 510 * ((c.max_rise - rise) * c.frequency)
<1>1. c.CLKHI \in Nat
  BY DEF IsConfig
<1>. QED BY <1>1, AfterRiseBound DEF AfterRise, Teensy!High

\* setup_repeated_start(): the same of tSU;STA; and of tSU;STO, whose worst case leaves
\* the rise of SDA out (it can only lengthen the interval).
THEOREM SetupTimeBound ==
    ASSUME NEW c, IsConfig(c), NEW rise \in Nat, rise <= c.max_rise
    PROVE  Teensy!RiseToFall(c, Teensy!Setup(c, rise), rise) + Teensy!scale(c)
              > Teensy!RiseToFall(c, Teensy!Setup(c, c.max_rise), c.max_rise)
                  + 510 * ((c.max_rise - rise) * c.frequency)
<1>1. c.SETHOLD \in Nat
  BY DEF IsConfig
<1>. QED BY <1>1, AfterRiseBound DEF AfterRise, Teensy!Setup

\* clock_frequency(): no board has a faster clock than one whose lines rise in no time.
THEOREM FastestClock ==
    ASSUME NEW c, IsConfig(c), NEW rise \in Nat
    PROVE  Teensy!Low(c) + Teensy!High(c, 0) <= Teensy!Low(c) + Teensy!High(c, rise)
<1>. DEFINE a == (2 + c.FILTSCL) * Teensy!period
            d == Teensy!scale(c)
            r == rise * 911 * c.frequency
            x == a \div d
            y == (a + r) \div d
<1>1. a \in Nat /\ d \in Nat \ {0} /\ r \in Nat /\ a + r \in Nat /\ c.CLKHI \in Nat /\ c.CLKLO \in Nat
  BY ScalePositive, SMT DEF IsConfig, Teensy!period
<1>2. /\ x \in Nat /\ d * x <= a
      /\ y \in Nat /\ a + r < d * y + d
  BY <1>1, Quotient, SMTT(30)
<1>3. x <= y
  <2>1. CASE x > y
    <3>1. x >= y + 1 /\ x - (y + 1) \in Nat
      BY <1>2, <2>1, SMT
    <3>2. d * x = d * (y + 1) + d * (x - (y + 1)) /\ d * (x - (y + 1)) >= 0
      BY <3>1, <1>1, <1>2, SMT
    <3>3. d * (y + 1) = d * y + d /\ d * y \in Nat /\ d * x \in Nat
      BY <1>1, <1>2, SMT
    <3>. HIDE DEF a, d, r, x, y
    <3>. QED BY <1>1, <1>2, <3>2, <3>3, SMT
  <2>. HIDE DEF x, y
  <2>. QED BY <2>1, <1>2, SMT
<1>4. Teensy!SCL_LATENCY(c, 0) = x /\ Teensy!SCL_LATENCY(c, rise) = y
  <2>1. 0 * 911 * c.frequency = 0 /\ a + 0 = a
    BY <1>1 DEF IsConfig
  <2>. QED BY <2>1 DEF Teensy!SCL_LATENCY, Teensy!Part, Teensy!time_to_rise_to_teensy_trigger_voltage
<1>. DEFINE s == c.CLKHI + 1
<1>5. d * (s + x) <= d * (s + y) /\ d * (s + x) \in Nat /\ d * (s + y) \in Nat
  <2>1. y - x \in Nat /\ s \in Nat
    BY <1>1, <1>2, <1>3, SMT
  <2>. HIDE DEF d, s, x, y
  <2>2. d * (s + y) = d * (s + x) + d * (y - x) /\ d * (y - x) \in Nat /\ d * (s + x) \in Nat
    BY <1>1, <1>2, <2>1, SMT
  <2>. QED BY <2>2, SMT
<1>6. Teensy!High(c, 0) = d * (s + x) /\ Teensy!High(c, rise) = d * (s + y)
  BY <1>4 DEF Teensy!High
<1>7. Teensy!Low(c) \in Nat
  BY <1>1, SMT DEF Teensy!Low
<1>. HIDE DEF d, s, x, y
<1>. QED BY <1>5, <1>6, <1>7, SMT
-----------------------------------------------------------------------------
(* Drawing an edge.                                                        *)

\* Odd and even numbers alternate.
LEMMA Parity ==
    ASSUME NEW n \in Nat PROVE Odd(n + 1) <=> ~Odd(n)
BY DEF Odd

\* A line's edges with one more.
LEMMA AppendEdge ==
    ASSUME NEW s \in Seq(EdgeType), NEW e \in EdgeType
    PROVE  /\ Append(s, e) \in Seq(EdgeType)
           /\ Len(s) \in Nat /\ Len(Append(s, e)) = Len(s) + 1
           /\ \A i \in 1..Len(s) : Append(s, e)[i] = s[i]
           /\ Append(s, e)[Len(s) + 1] = e
OBVIOUS

\* The edges of typed lines have times, directions and devices.
LEMMA EdgesTyped ==
    ASSUME LinesOK
    PROVE  /\ Len(scl.edges) \in Nat /\ Len(sda.edges) \in Nat
           /\ \A i \in Edges(scl) : scl.edges[i] \in EdgeType /\ SclAt(i) \in Nat
           /\ \A j \in Edges(sda) :
                 sda.edges[j] \in EdgeType /\ SdaAt(j) \in Nat /\ sda.edges[j].by \in Devices
<1>1. \A e \in EdgeType : e.at \in Nat /\ e.by \in Devices
  BY DEF EdgeType
<1>2. /\ Len(scl.edges) \in Nat /\ \A i \in Edges(scl) : scl.edges[i] \in EdgeType
      /\ Len(sda.edges) \in Nat /\ \A j \in Edges(sda) : sda.edges[j] \in EdgeType
  BY DEF LinesOK, Edges
<1>. QED BY <1>1, <1>2 DEF SclAt, SdaAt

\* A line is high after an even number of edges.
LEMMA HighWhenEven ==
    ASSUME LinesOK, Alternate
    PROVE  /\ IsHigh(sda) <=> ~Odd(Len(sda.edges))
           /\ IsHigh(scl) <=> ~Odd(Len(scl.edges))
<1>1. RISING # FALLING
  BY DEF RISING, FALLING
<1>2. ASSUME NEW line, line.edges \in Seq(EdgeType),
             \A i \in Edges(line) : line.edges[i].direction = IF Odd(i) THEN FALLING ELSE RISING
      PROVE  IsHigh(line) <=> ~Odd(Len(line.edges))
  <2>1. CASE line.edges = <<>>
    BY <2>1 DEF IsHigh, Odd
  <2>2. CASE line.edges # <<>>
    <3>1. Len(line.edges) \in Edges(line)
      BY <1>2, <2>2 DEF Edges
    <3>. QED BY <1>1, <1>2, <2>2, <3>1 DEF IsHigh, LastEdge
  <2>. QED BY <2>1, <2>2
<1>. QED BY <1>2 DEF LinesOK, Alternate

\* The config is not changed, nor anything that depends on it alone.
SameConfig == UNCHANGED <<asked, config>>

\* A step changes no delay.
LEMMA DelaysStay ==
    ASSUME SameConfig
    PROVE  /\ LowDelay' = LowDelay /\ HighDelay' = HighDelay /\ SetupDelay' = SetupDelay
           /\ StartDelay' = StartDelay /\ FreeDelay' = FreeDelay
           /\ \A device \in Devices : BitDelay(device)' = BitDelay(device)
           /\ DelaysInOrder <=> DelaysInOrder'
<1>1. config' = config /\ asked' = asked /\ SlaveConfig' = SlaveConfig
  BY DEF SameConfig, SlaveConfig, DefaultSlaveConfiguration
<1>2. /\ LowDelay' = LowDelay /\ HighDelay' = HighDelay /\ SetupDelay' = SetupDelay
      /\ StartDelay' = StartDelay /\ FreeDelay' = FreeDelay
  BY <1>1 DEF LowDelay, HighDelay, SetupDelay, StartDelay, FreeDelay
<1>3. \A device \in Devices : BitDelay(device)' = BitDelay(device)
  BY <1>1 DEF BitDelay, LineTime
<1>. QED BY <1>1, <1>2, <1>3 DEF DelaysInOrder, LineTime

\* SCL makes an edge at t.
SclEdge(t) ==
    /\ SameConfig /\ sda' = sda /\ t \in Nat
    /\ \/ ~Odd(Len(scl.edges)) /\ scl' = fall_at(scl, t, "master")
       \/ Odd(Len(scl.edges)) /\ scl' = rise_at(scl, t, "master")

\* SDA makes an edge at t.
SdaEdge(t, by) ==
    /\ SameConfig /\ scl' = scl /\ t \in Nat /\ by \in Devices
    /\ \/ ~Odd(Len(sda.edges)) /\ sda' = fall_at(sda, t, by)
       \/ Odd(Len(sda.edges)) /\ sda' = rise_at(sda, t, by)

\* What phase and driver may be.
StateOK == phase \in {"free", "started", "low", "set", "high"} /\ driver \in Devices

\* SCL with one more edge.
LEMMA DrawScl ==
    ASSUME LinesOK, Alternate, NEW t, SclEdge(t), StateOK',
           NEW CONSTANT m, NEW CONSTANT n, m = Len(scl.edges), n = Len(sda.edges)
    PROVE  /\ LinesOK' /\ Alternate'
           /\ m \in Nat /\ Len(scl.edges)' = m + 1 /\ n \in Nat /\ Len(sda.edges)' = n
           /\ \A i \in 1..m : SclAt(i)' = SclAt(i)
           /\ SclAt(m + 1)' = t
           /\ \A j : SdaAt(j)' = SdaAt(j) /\ sda.edges[j]' = sda.edges[j]
<1>. DEFINE direction == IF Odd(m) THEN RISING ELSE FALLING
            e == Edge(direction, t, "master")
<1>1. /\ m \in Nat /\ n \in Nat /\ t \in Nat /\ scl.edges \in Seq(EdgeType)
      /\ e \in EdgeType /\ e.at = t /\ e.direction = direction
  BY EdgesTyped DEF SclEdge, Edge, EdgeType, Devices, LinesOK
<1>2. scl' = [rise_time |-> config.scl_risetime, fall_time |-> config.fall_time, edges |-> Append(scl.edges, e)]
  BY DEF SclEdge, fall_at, rise_at, LinesOK
<1>3. scl'.edges = Append(scl.edges, e) /\ sda' = sda /\ config' = config
  BY <1>2 DEF SclEdge, SameConfig
<1>. HIDE DEF e
<1>4. /\ scl'.edges \in Seq(EdgeType) /\ Len(scl'.edges) = m + 1
      /\ \A i \in 1..m : scl'.edges[i] = scl.edges[i]
      /\ scl'.edges[m + 1] = e
  BY <1>1, <1>3, AppendEdge
<1>5. LinesOK'
  BY <1>2, <1>3, <1>4 DEF LinesOK, StateOK
<1>6. Alternate'
  <2>1. \A i \in 1..m + 1 : scl'.edges[i].direction = IF Odd(i) THEN FALLING ELSE RISING
    <3>. TAKE i \in 1..m + 1
    <3>1. CASE i \in 1..m
      BY <1>4, <3>1 DEF Alternate, Edges
    <3>2. CASE i = m + 1
      BY <1>1, <1>4, <3>2, Parity
    <3>. QED BY <1>1, <3>1, <3>2
  <2>. QED BY <2>1, <1>3, <1>4 DEF Alternate, Edges
<1>7. \A i \in 1..m : SclAt(i)' = SclAt(i)
  BY <1>4 DEF SclAt
<1>8. SclAt(m + 1)' = t
  BY <1>1, <1>4 DEF SclAt
<1>9. sda.edges' = sda.edges /\ \A j : SdaAt(j)' = SdaAt(j) /\ sda.edges[j]' = sda.edges[j]
  BY <1>3 DEF SdaAt
<1>. QED BY <1>1, <1>4, <1>5, <1>6, <1>7, <1>8, <1>9

\* SDA with one more edge.
LEMMA DrawSda ==
    ASSUME LinesOK, Alternate, NEW t, NEW by, SdaEdge(t, by), StateOK',
           NEW CONSTANT m, NEW CONSTANT n, m = Len(scl.edges), n = Len(sda.edges)
    PROVE  /\ LinesOK' /\ Alternate'
           /\ n \in Nat /\ Len(sda.edges)' = n + 1 /\ m \in Nat /\ Len(scl.edges)' = m
           /\ \A j \in 1..n : SdaAt(j)' = SdaAt(j) /\ sda.edges[j]' = sda.edges[j]
           /\ SdaAt(n + 1)' = t /\ sda.edges[n + 1]'.by = by
           /\ \A i : SclAt(i)' = SclAt(i)
<1>. DEFINE direction == IF Odd(n) THEN RISING ELSE FALLING
            e == Edge(direction, t, by)
<1>1. /\ m \in Nat /\ n \in Nat /\ t \in Nat /\ sda.edges \in Seq(EdgeType)
      /\ e \in EdgeType /\ e.at = t /\ e.by = by /\ e.direction = direction
  BY EdgesTyped DEF SdaEdge, Edge, EdgeType, LinesOK
<1>2. sda' = [rise_time |-> config.sda_risetime, fall_time |-> config.fall_time, edges |-> Append(sda.edges, e)]
  BY DEF SdaEdge, fall_at, rise_at, LinesOK
<1>3. sda'.edges = Append(sda.edges, e) /\ scl' = scl /\ config' = config
  BY <1>2 DEF SdaEdge, SameConfig
<1>. HIDE DEF e
<1>4. /\ sda'.edges \in Seq(EdgeType) /\ Len(sda'.edges) = n + 1
      /\ \A j \in 1..n : sda'.edges[j] = sda.edges[j]
      /\ sda'.edges[n + 1] = e
  BY <1>1, <1>3, AppendEdge
<1>5. LinesOK'
  BY <1>2, <1>3, <1>4 DEF LinesOK, StateOK
<1>6. Alternate'
  <2>1. \A j \in 1..n + 1 : sda'.edges[j].direction = IF Odd(j) THEN FALLING ELSE RISING
    <3>. TAKE j \in 1..n + 1
    <3>1. CASE j \in 1..n
      BY <1>4, <3>1 DEF Alternate, Edges
    <3>2. CASE j = n + 1
      BY <1>1, <1>4, <3>2, Parity
    <3>. QED BY <1>1, <3>1, <3>2
  <2>. QED BY <2>1, <1>3, <1>4 DEF Alternate, Edges
<1>7. \A j \in 1..n : SdaAt(j)' = SdaAt(j) /\ sda.edges[j]' = sda.edges[j]
  BY <1>4 DEF SdaAt
<1>8. SdaAt(n + 1)' = t /\ sda.edges[n + 1]'.by = by
  BY <1>1, <1>4 DEF SdaAt
<1>9. scl.edges' = scl.edges /\ \A i : SclAt(i)' = SclAt(i)
  BY <1>3 DEF SclAt
<1>. QED BY <1>1, <1>4, <1>5, <1>6, <1>7, <1>8, <1>9

\* When the next edge of SCL may be drawn: after all there is, and at a known distance
\* from the edge before it and from a START.
NextScl(m, n, t) ==
    /\ m > 0 => SclAt(m) < t
    /\ m > 0 /\ Odd(m) => t = SclAt(m) + LowDelay
    /\ m > 0 /\ ~Odd(m) =>
         \/ t = SclAt(m) + HighDelay
         \/ /\ \/ t = SclAt(m) + SetupDelay + StartDelay
               \/ t = SclAt(m) + SetupDelay + FreeDelay + StartDelay
            /\ \E j \in 1..n : SclAt(m) < SdaAt(j) /\ SdaAt(j) < t
    /\ \A j \in 1..n : (m > 0 => SclAt(m) < SdaAt(j)) =>
         /\ SdaAt(j) < t
         /\ ~Odd(m) /\ Odd(j) => t = SdaAt(j) + StartDelay
         /\ ~Odd(m) /\ ~Odd(j) => j # n

\* An edge of SCL drawn after all others keeps the shape of the trace, if it is spaced as
\* SclSpacing says.
LEMMA SclStep ==
    ASSUME TraceInv, NEW CONSTANT m, NEW CONSTANT n, m = Len(scl.edges), n = Len(sda.edges),
           NEW t, SclEdge(t), StateOK', NextScl(m, n, t)
    PROVE  /\ DelaysInOrder' /\ LinesOK' /\ Alternate' /\ InOrder' /\ SclSpacing' /\ SdaPlaced'
           /\ m \in Nat /\ n \in Nat /\ Len(scl.edges)' = m + 1 /\ Len(sda.edges)' = n
           /\ SclAt(m + 1)' = t /\ \A j : SdaAt(j)' = SdaAt(j)
<1>. USE DEF TraceInv
<1>1. /\ LinesOK' /\ Alternate'
      /\ m \in Nat /\ n \in Nat /\ Len(scl.edges)' = m + 1 /\ Len(sda.edges)' = n
      /\ \A i \in 1..m : SclAt(i)' = SclAt(i)
      /\ SclAt(m + 1)' = t
      /\ \A j : SdaAt(j)' = SdaAt(j) /\ sda.edges[j]' = sda.edges[j]
  BY DrawScl
<1>2. /\ LowDelay' = LowDelay /\ HighDelay' = HighDelay /\ SetupDelay' = SetupDelay
      /\ StartDelay' = StartDelay /\ FreeDelay' = FreeDelay
      /\ \A device \in Devices : BitDelay(device)' = BitDelay(device)
      /\ DelaysInOrder'
  BY DelaysStay DEF SclEdge
<1>3. /\ Edges(scl) = 1..m /\ Edges(scl)' = 1..m + 1 /\ Edges(sda) = 1..n /\ Edges(sda)' = 1..n
  BY <1>1 DEF Edges
<1>4. /\ \A i \in 1..m : SclAt(i) \in Nat
      /\ \A j \in 1..n : SdaAt(j) \in Nat /\ sda.edges[j].by \in Devices
      /\ t \in Nat
  BY <1>3, EdgesTyped DEF SclEdge
<1>5. InOrder'
  <2>1. \A i \in 1..m : SclAt(i) < t
    <3>. SUFFICES ASSUME NEW i \in 1..m PROVE SclAt(i) < t
      OBVIOUS
    <3>1. m \in 1..m /\ SclAt(m) < t
      BY <1>1 DEF NextScl
    <3>2. i < m => SclAt(i) < SclAt(m)
      BY <1>3, <3>1 DEF InOrder
    <3>. QED BY <1>1, <1>4, <3>1, <3>2
  <2>2. \A i, k \in 1..m + 1 : i < k => SclAt(i)' < SclAt(k)'
    <3>. SUFFICES ASSUME NEW i \in 1..m + 1, NEW k \in 1..m + 1, i < k
                  PROVE  SclAt(i)' < SclAt(k)'
      OBVIOUS
    <3>1. CASE k \in 1..m
      BY <1>1, <1>3, <3>1 DEF InOrder
    <3>2. CASE k = m + 1
      BY <1>1, <2>1, <3>2
    <3>. QED BY <1>1, <3>1, <3>2
  <2>. QED BY <2>2, <1>1, <1>3 DEF InOrder
<1>6. SclSpacing'
  <2>. SUFFICES ASSUME NEW CONSTANT i \in 1..m
                PROVE  IF Odd(i) THEN SclAt(i + 1)' = SclAt(i)' + LowDelay'
                       ELSE \/ SclAt(i + 1)' = SclAt(i)' + HighDelay'
                            \/ /\ \/ SclAt(i + 1)' = SclAt(i)' + SetupDelay' + StartDelay'
                                  \/ SclAt(i + 1)' = SclAt(i)' + SetupDelay' + FreeDelay' + StartDelay'
                               /\ \E j \in 1..n : SclAt(i)' < SdaAt(j)' /\ SdaAt(j)' < SclAt(i + 1)'
    <3>1. \A i \in 1..m + 1 : i < m + 1 => i \in 1..m
      BY <1>1
    <3>. QED BY <1>1, <1>3, <3>1 DEF SclSpacing
  <2>1. CASE i < m
    <3>1. i \in 1..m /\ i + 1 \in 1..m
      BY <1>1, <2>1
    <3>2. SclAt(i)' = SclAt(i) /\ SclAt(i + 1)' = SclAt(i + 1)
      BY <1>1, <3>1
    <3>. QED BY <1>1, <1>2, <1>3, <2>1, <3>2 DEF SclSpacing
  <2>2. CASE i = m
    <3>1. m > 0 /\ SclAt(m)' = SclAt(m)
      BY <1>1, <2>2
    <3>. QED BY <1>1, <1>2, <2>2, <3>1 DEF NextScl
  <2>. QED BY <1>1, <2>1, <2>2
<1>7. SdaPlaced'
  <2>. SUFFICES ASSUME NEW CONSTANT j \in 1..n
                PROVE  \E k \in 0..m + 1 : Placed(j, k)'
    BY <1>1, <1>3 DEF SdaPlaced
  <2>1. PICK k \in 0..m : Placed(j, k)
    BY <1>3 DEF SdaPlaced
  <2>2. /\ k > 0 => SclAt(k)' = SclAt(k)
        /\ k < m => SclAt(k + 1)' = SclAt(k + 1)
        /\ SdaAt(j)' = SdaAt(j) /\ SdaAt(j - 1)' = SdaAt(j - 1) /\ SdaAt(j + 1)' = SdaAt(j + 1)
        /\ sda.edges[j].by' = sda.edges[j].by
        /\ BitDelay(sda.edges[j].by)' = BitDelay(sda.edges[j].by)
    <3>1. k > 0 => k \in 1..m
      BY <1>1
    <3>2. k < m => k + 1 \in 1..m
      BY <1>1
    <3>3. sda.edges[j].by' = sda.edges[j].by
      BY <1>1
    <3>. QED BY <1>1, <1>2, <1>4, <3>1, <3>2, <3>3
  <2>3. Between(j, k)'
    BY <1>1, <1>4, <2>1, <2>2, SMTT(30) DEF Placed, Between, NextScl
  <2>4. Odd(k) => IsBit(j, k)'
    <3>1. Odd(k) => k > 0
      BY DEF Odd
    <3>. QED BY <2>1, <2>2, <3>1 DEF Placed, IsBit
  <2>5. ~Odd(k) /\ Odd(j) => IsStart(j, k)'
    <3>. SUFFICES ASSUME ~Odd(k), Odd(j) PROVE IsStart(j, k)'
      OBVIOUS
    <3>1. IsStart(j, k) /\ Between(j, k)
      BY <2>1 DEF Placed
    <3>2. k = 0 \/ SdaAt(j)' = SclAt(k)' + SetupDelay' \/ (j > 1 /\ SclAt(k)' < SdaAt(j - 1)')
      BY <1>2, <2>2, <3>1 DEF IsStart
    <3>3. SclAt(k + 1)' = SdaAt(j)' + StartDelay'
      <4>1. CASE k < m
        BY <1>2, <2>2, <3>1, <4>1 DEF IsStart
      <4>2. CASE k = m
        BY <1>1, <1>2, <2>2, <3>1, <4>2 DEF NextScl, Between
      <4>. QED BY <1>1, <4>1, <4>2
    <3>. QED BY <3>2, <3>3 DEF IsStart
  <2>6. ~Odd(k) /\ ~Odd(j) => IsStop(j, k)'
    BY <1>1, <1>2, <1>4, <2>1, <2>2 DEF Placed, IsStop, NextScl, Between
  <2>7. Placed(j, k)'
    BY <2>3, <2>4, <2>5, <2>6 DEF Placed
  <2>. QED BY <1>1, <2>7
<1>. QED BY <1>1, <1>2, <1>5, <1>6, <1>7

\* When the next edge of SDA may be drawn: after all there is, as a bit while SCL is low
\* and as a condition while it is high.
NextSda(m, n, t, by) ==
    /\ m > 0 => SclAt(m) < t
    /\ n > 0 => SdaAt(n) < t
    /\ Odd(m) => t = SclAt(m) + BitDelay(by)
    /\ ~Odd(m) /\ ~Odd(n) => \/ m = 0
                             \/ t = SclAt(m) + SetupDelay
                             \/ n > 0 /\ SclAt(m) < SdaAt(n)
    /\ ~Odd(m) /\ Odd(n) => m > 0 /\ t = SclAt(m) + SetupDelay
    /\ n > 0 /\ ~Odd(m) /\ ~Odd(n) /\ SclAt(m) < SdaAt(n) => t = SdaAt(n) + FreeDelay

\* An edge of SDA drawn after all others keeps the shape of the trace, if it has its place.
LEMMA SdaStep ==
    ASSUME TraceInv, NEW CONSTANT m, NEW CONSTANT n, m = Len(scl.edges), n = Len(sda.edges),
           NEW t, NEW by, SdaEdge(t, by), StateOK', NextSda(m, n, t, by)
    PROVE  /\ DelaysInOrder' /\ LinesOK' /\ Alternate' /\ InOrder' /\ SclSpacing' /\ SdaPlaced'
           /\ m \in Nat /\ n \in Nat /\ Len(scl.edges)' = m /\ Len(sda.edges)' = n + 1
           /\ \A j \in 1..n : SdaAt(j)' = SdaAt(j)
           /\ SdaAt(n + 1)' = t /\ \A i : SclAt(i)' = SclAt(i)
<1>. USE DEF TraceInv
<1>1. /\ LinesOK' /\ Alternate'
      /\ n \in Nat /\ Len(sda.edges)' = n + 1 /\ m \in Nat /\ Len(scl.edges)' = m
      /\ \A j \in 1..n : SdaAt(j)' = SdaAt(j) /\ sda.edges[j]' = sda.edges[j]
      /\ SdaAt(n + 1)' = t /\ sda.edges[n + 1]'.by = by
      /\ \A i : SclAt(i)' = SclAt(i)
  BY DrawSda
<1>2. /\ LowDelay' = LowDelay /\ HighDelay' = HighDelay /\ SetupDelay' = SetupDelay
      /\ StartDelay' = StartDelay /\ FreeDelay' = FreeDelay
      /\ \A device \in Devices : BitDelay(device)' = BitDelay(device)
      /\ DelaysInOrder'
  BY DelaysStay DEF SdaEdge
<1>3. /\ Edges(scl) = 1..m /\ Edges(scl)' = 1..m /\ Edges(sda) = 1..n /\ Edges(sda)' = 1..n + 1
  BY <1>1 DEF Edges
<1>4. /\ \A i \in 1..m : SclAt(i) \in Nat
      /\ \A j \in 1..n : SdaAt(j) \in Nat /\ sda.edges[j].by \in Devices
      /\ t \in Nat /\ by \in Devices
  BY <1>3, EdgesTyped DEF SdaEdge
<1>5. InOrder'
  <2>1. \A j \in 1..n : SdaAt(j) < t
    <3>. SUFFICES ASSUME NEW j \in 1..n PROVE SdaAt(j) < t
      OBVIOUS
    <3>1. n \in 1..n /\ SdaAt(n) < t
      BY <1>1 DEF NextSda
    <3>2. j < n => SdaAt(j) < SdaAt(n)
      BY <1>3, <3>1 DEF InOrder
    <3>. QED BY <1>1, <1>4, <3>1, <3>2
  <2>2. \A j, k \in 1..n + 1 : j < k => SdaAt(j)' < SdaAt(k)'
    <3>. SUFFICES ASSUME NEW j \in 1..n + 1, NEW k \in 1..n + 1, j < k
                  PROVE  SdaAt(j)' < SdaAt(k)'
      OBVIOUS
    <3>1. CASE k \in 1..n
      BY <1>1, <1>3, <3>1, SMTT(30) DEF InOrder
    <3>2. CASE k = n + 1
      BY <1>1, <2>1, <3>2
    <3>. QED BY <1>1, <3>1, <3>2
  <2>. QED BY <2>2, <1>1, <1>3 DEF InOrder
<1>6. SclSpacing'
  <2>1. \A j \in 1..n : j \in 1..n + 1
    BY <1>1
  <2>. QED BY <1>1, <1>2, <1>3, <2>1 DEF SclSpacing
<1>7. SdaPlaced'
  <2>. SUFFICES ASSUME NEW CONSTANT j \in 1..n + 1
                PROVE  \E k \in 0..m : Placed(j, k)'
    BY <1>1, <1>3 DEF SdaPlaced
  <2>1. CASE j = n + 1
    <3>1. SdaAt(j)' = t /\ (sda.edges[j].by)' = by /\ BitDelay(by)' = BitDelay(by)
      BY <1>1, <1>2, <1>4, <2>1
    <3>2. Between(j, m)'
      BY <1>1, <3>1 DEF Between, NextSda
    <3>3. Odd(m) => IsBit(j, m)'
      BY <1>1, <3>1 DEF IsBit, NextSda
    <3>4. Odd(j) <=> ~Odd(n)
      BY <1>1, <2>1, Parity
    <3>5. ~Odd(m) /\ Odd(j) => IsStart(j, m)'
      <4>1. n > 0 => SdaAt(j - 1)' = SdaAt(n)
        BY <1>1, <2>1
      <4>. QED BY <1>1, <1>2, <2>1, <3>1, <3>4, <4>1 DEF IsStart, NextSda
    <3>6. ~Odd(m) /\ ~Odd(j) => IsStop(j, m)'
      BY <1>1, <1>2, <2>1, <3>1, <3>4 DEF IsStop, NextSda
    <3>7. Placed(j, m)'
      BY <3>2, <3>3, <3>5, <3>6 DEF Placed
    <3>. QED BY <1>1, <3>7
  <2>2. CASE j \in 1..n
    <3>1. PICK k \in 0..m : Placed(j, k)
      BY <1>3, <2>2 DEF SdaPlaced
    <3>2. /\ SdaAt(j)' = SdaAt(j) /\ (sda.edges[j].by)' = sda.edges[j].by
          /\ BitDelay(sda.edges[j].by)' = BitDelay(sda.edges[j].by)
          /\ j > 1 => SdaAt(j - 1)' = SdaAt(j - 1)
          /\ j < n => SdaAt(j + 1)' = SdaAt(j + 1)
      <4>1. j > 1 => j - 1 \in 1..n
        BY <1>1, <2>2
      <4>2. j < n => j + 1 \in 1..n
        BY <1>1, <2>2
      <4>3. (sda.edges[j].by)' = sda.edges[j].by
        BY <1>1, <2>2
      <4>. QED BY <1>1, <1>2, <1>4, <2>2, <4>1, <4>2, <4>3
    <3>3. Between(j, k)'
      BY <1>1, <3>1, <3>2 DEF Placed, Between
    <3>4. Odd(k) => IsBit(j, k)'
      BY <1>1, <3>1, <3>2 DEF Placed, IsBit
    <3>5. ~Odd(k) /\ Odd(j) => IsStart(j, k)'
      BY <1>1, <1>2, <3>1, <3>2 DEF Placed, IsStart
    <3>6. ~Odd(k) /\ ~Odd(j) => IsStop(j, k)'
      <4>. SUFFICES ASSUME ~Odd(k), ~Odd(j) PROVE IsStop(j, k)'
        OBVIOUS
      <4>1. IsStop(j, k) /\ Between(j, k)
        BY <3>1 DEF Placed
      <4>2. SdaAt(j + 1)' = SdaAt(j)' + FreeDelay'
        <5>1. CASE j < n
          BY <1>2, <3>2, <4>1, <5>1 DEF IsStop
        <5>2. CASE j = n
          <6>1. n > 0 /\ k = m /\ ~Odd(m) /\ ~Odd(n) /\ SclAt(m) < SdaAt(n)
            BY <1>1, <2>2, <4>1, <5>2 DEF IsStop, Between
          <6>. QED BY <1>1, <1>2, <3>2, <5>2, <6>1 DEF NextSda
        <5>. QED BY <1>1, <2>2, <5>1, <5>2
      <4>3. k > 0 /\ SdaAt(j)' = SclAt(k)' + SetupDelay'
        BY <1>1, <1>2, <3>2, <4>1 DEF IsStop
      <4>. QED BY <1>1, <2>2, <4>2, <4>3 DEF IsStop
    <3>7. Placed(j, k)'
      BY <3>3, <3>4, <3>5, <3>6 DEF Placed
    <3>. QED BY <1>1, <3>7
  <2>. QED BY <1>1, <2>1, <2>2
<1>. QED BY <1>1, <1>2, <1>5, <1>6, <1>7

-----------------------------------------------------------------------------
(* Each action keeps the shape of the trace.                               *)

\* The lengths, and what they say of the last edges.
LEMMA Lengths ==
    ASSUME LinesOK, Alternate,
           NEW CONSTANT m, NEW CONSTANT n, m = Len(scl.edges), n = Len(sda.edges)
    PROVE  /\ m \in Nat /\ n \in Nat
           /\ Edges(scl) = 1..m /\ Edges(sda) = 1..n
           /\ \A i \in 1..m : SclAt(i) \in Nat
           /\ \A j \in 1..n : SdaAt(j) \in Nat /\ sda.edges[j].by \in Devices
           /\ sda.edges = <<>> <=> n = 0
           /\ LastEdge(scl).at = SclAt(m) /\ LastEdge(sda).at = SdaAt(n)
           /\ IsHigh(sda) <=> ~Odd(n)
<1>1. sda.edges = <<>> <=> n = 0
  BY DEF LinesOK
<1>. QED BY <1>1, EdgesTyped, HighWhenEven DEF Edges, LastEdge, SclAt, SdaAt

\* Start keeps the shape of the trace: SDA falls once the bus has been free.
LEMMA StartShape ==
    ASSUME TraceInv, StateOK', Start PROVE TraceInv'
<1>1. PICK m, n : m = Len(scl.edges) /\ n = Len(sda.edges)
  OBVIOUS
<1>2. /\ m \in Nat /\ n \in Nat /\ \A j \in 1..n : SdaAt(j) \in Nat
      /\ \A i \in 1..m : SclAt(i) \in Nat
      /\ sda.edges = <<>> <=> n = 0
      /\ LastEdge(sda).at = SdaAt(n)
  BY <1>1, Lengths DEF TraceInv
<1>3. /\ ~Odd(m) /\ ~Odd(n) /\ (m = 0 => n = 0)
      /\ m > 0 => n > 0 /\ SdaAt(n) = SclAt(m) + SetupDelay /\ SdaBefore(1, SclAt(m))
  BY <1>1 DEF Start, TraceInv, AtPhase
<1>4. SetupDelay \in Nat \ {0} /\ FreeDelay \in Nat \ {0}
  BY DEF TraceInv, DelaysInOrder
<1>. DEFINE t == IF n = 0 THEN 0 ELSE SdaAt(n) + FreeDelay
<1>5. SdaEdge(t, "master")
  <2>1. t \in Nat
    BY <1>2, <1>4
  <2>. QED BY <1>1, <1>2, <1>3, <2>1 DEF Start, SdaEdge, SameConfig, FreeDelay, Devices
<1>6. n > 0 => m > 0
  BY <1>2, <1>3
<1>7. NextSda(m, n, t, "master")
  BY <1>2, <1>3, <1>4, <1>6 DEF NextSda
<1>. HIDE DEF t
<1>8. /\ DelaysInOrder' /\ LinesOK' /\ Alternate' /\ InOrder' /\ SclSpacing' /\ SdaPlaced'
      /\ Len(scl.edges)' = m /\ Len(sda.edges)' = n + 1
      /\ \A j \in 1..n : SdaAt(j)' = SdaAt(j)
      /\ SdaAt(n + 1)' = t /\ \A i : SclAt(i)' = SclAt(i)
  BY <1>1, <1>5, <1>7, SdaStep
<1>9. AtPhase'
  <2>1. SetupDelay' = SetupDelay /\ FreeDelay' = FreeDelay
    BY <1>5, DelaysStay DEF SdaEdge
  <2>2. phase' = "started" /\ Odd(n + 1)
    BY <1>2, <1>3, Parity DEF Start
  <2>3. m > 0 => SdaAt(n + 1)' = SclAt(m)' + SetupDelay' + FreeDelay'
    BY <1>3, <1>8, <2>1 DEF t
  <2>4. m > 0 => SdaBefore(2, SclAt(m))'
    <3>1. m > 0 => \A j \in 1..n - 1 : SdaAt(j) < SclAt(m)
      BY <1>1, <1>3 DEF SdaBefore
    <3>2. (n + 1) - 2 = n - 1 /\ \A j \in 1..n - 1 : j \in 1..n
      BY <1>2
    <3>. QED BY <1>8, <3>1, <3>2 DEF SdaBefore
  <2>. QED BY <1>2, <1>3, <1>6, <1>8, <2>2, <2>3, <2>4 DEF AtPhase
<1>. QED BY <1>8, <1>9 DEF TraceInv

\* RepeatedStart keeps it: SDA falls after SCL has been high for the setup time.
LEMMA RepeatedStartShape ==
    ASSUME TraceInv, StateOK', RepeatedStart PROVE TraceInv'
<1>1. PICK m, n : m = Len(scl.edges) /\ n = Len(sda.edges)
  OBVIOUS
<1>2. /\ m \in Nat /\ n \in Nat /\ \A j \in 1..n : SdaAt(j) \in Nat
      /\ \A i \in 1..m : SclAt(i) \in Nat
      /\ LastEdge(scl).at = SclAt(m) /\ ~Odd(n)
  BY <1>1, Lengths DEF TraceInv, RepeatedStart
<1>3. ~Odd(m) /\ m > 0 /\ \A j \in 1..n : SdaAt(j) < SclAt(m)
  BY <1>1, <1>2 DEF RepeatedStart, TraceInv, AtPhase, SdaBefore
<1>4. SetupDelay \in Nat \ {0}
  BY DEF TraceInv, DelaysInOrder
<1>. DEFINE t == SclAt(m) + SetupDelay
<1>5. SdaEdge(t, "master")
  BY <1>1, <1>2, <1>3, <1>4 DEF RepeatedStart, SdaEdge, SameConfig, SetupDelay, Devices
<1>6. NextSda(m, n, t, "master")
  <2>1. n > 0 => SdaAt(n) < SclAt(m)
    BY <1>2, <1>3
  <2>2. SclAt(m) \in Nat /\ (n > 0 => SdaAt(n) \in Nat)
    BY <1>2, <1>3
  <2>. QED BY <1>2, <1>3, <1>4, <2>1, <2>2 DEF NextSda
<1>. HIDE DEF t
<1>7. /\ DelaysInOrder' /\ LinesOK' /\ Alternate' /\ InOrder' /\ SclSpacing' /\ SdaPlaced'
      /\ Len(scl.edges)' = m /\ Len(sda.edges)' = n + 1
      /\ \A j \in 1..n : SdaAt(j)' = SdaAt(j)
      /\ SdaAt(n + 1)' = t /\ \A i : SclAt(i)' = SclAt(i)
  BY <1>1, <1>5, <1>6, SdaStep
<1>8. AtPhase'
  <2>1. phase' = "started" /\ Odd(n + 1)
    BY <1>2, Parity DEF RepeatedStart
  <2>2. SdaAt(n + 1)' = SclAt(m)' + SetupDelay'
    BY <1>5, <1>7, DelaysStay DEF SdaEdge, t
  <2>3. SdaBefore(1, SclAt(m))'
    BY <1>2, <1>3, <1>7 DEF SdaBefore
  <2>. QED BY <1>2, <1>3, <1>7, <2>1, <2>2, <2>3 DEF AtPhase
<1>. QED BY <1>7, <1>8 DEF TraceInv

\* Stop keeps it: SDA rises after SCL has been high for the setup time.
LEMMA StopShape ==
    ASSUME TraceInv, StateOK', Stop PROVE TraceInv'
<1>1. PICK m, n : m = Len(scl.edges) /\ n = Len(sda.edges)
  OBVIOUS
<1>2. /\ m \in Nat /\ n \in Nat /\ \A j \in 1..n : SdaAt(j) \in Nat
      /\ \A i \in 1..m : SclAt(i) \in Nat
      /\ LastEdge(scl).at = SclAt(m) /\ Odd(n)
  BY <1>1, Lengths DEF TraceInv, Stop
<1>3. ~Odd(m) /\ m > 0 /\ \A j \in 1..n : SdaAt(j) < SclAt(m)
  BY <1>1, <1>2 DEF Stop, TraceInv, AtPhase, SdaBefore
<1>4. SetupDelay \in Nat \ {0}
  BY DEF TraceInv, DelaysInOrder
<1>. DEFINE t == SclAt(m) + SetupDelay
<1>5. SdaEdge(t, "master")
  BY <1>1, <1>2, <1>3, <1>4 DEF Stop, SdaEdge, SameConfig, SetupDelay, Devices
<1>6. NextSda(m, n, t, "master")
  <2>1. n > 0 => SdaAt(n) < SclAt(m)
    BY <1>2, <1>3
  <2>2. SclAt(m) \in Nat /\ (n > 0 => SdaAt(n) \in Nat)
    BY <1>2, <1>3
  <2>. QED BY <1>2, <1>3, <1>4, <2>1, <2>2 DEF NextSda
<1>. HIDE DEF t
<1>7. /\ DelaysInOrder' /\ LinesOK' /\ Alternate' /\ InOrder' /\ SclSpacing' /\ SdaPlaced'
      /\ Len(scl.edges)' = m /\ Len(sda.edges)' = n + 1
      /\ \A j \in 1..n : SdaAt(j)' = SdaAt(j)
      /\ SdaAt(n + 1)' = t /\ \A i : SclAt(i)' = SclAt(i)
  BY <1>1, <1>5, <1>6, SdaStep
<1>8. AtPhase'
  <2>1. phase' = "free" /\ ~Odd(n + 1)
    BY <1>2, Parity DEF Stop
  <2>2. SdaAt(n + 1)' = SclAt(m)' + SetupDelay'
    BY <1>5, <1>7, DelaysStay DEF SdaEdge, t
  <2>3. SdaBefore(1, SclAt(m))'
    BY <1>2, <1>3, <1>7 DEF SdaBefore
  <2>. QED BY <1>2, <1>3, <1>7, <2>1, <2>2, <2>3 DEF AtPhase
<1>. QED BY <1>7, <1>8 DEF TraceInv

\* A step that draws nothing keeps it, if the phase is right.
LEMMA SameTrace ==
    ASSUME TraceInv, SameConfig, sda' = sda, scl' = scl, StateOK'
    PROVE  /\ DelaysInOrder' /\ LinesOK' /\ Alternate' /\ InOrder' /\ SclSpacing' /\ SdaPlaced'
           /\ \A i : SclAt(i)' = SclAt(i) /\ SdaAt(i)' = SdaAt(i)
           /\ LowDelay' = LowDelay /\ SetupDelay' = SetupDelay /\ FreeDelay' = FreeDelay
<1>1. config' = config /\ asked' = asked
  BY DEF SameConfig
<1>2. \A i : SclAt(i)' = SclAt(i) /\ SdaAt(i)' = SdaAt(i)
  BY DEF SclAt, SdaAt
<1>3. /\ LowDelay' = LowDelay /\ HighDelay' = HighDelay /\ SetupDelay' = SetupDelay
      /\ StartDelay' = StartDelay /\ FreeDelay' = FreeDelay /\ DelaysInOrder'
  BY DelaysStay DEF TraceInv
<1>4. \A j, k : Placed(j, k)' <=> Placed(j, k)
  <2>1. \A d : BitDelay(d)' = BitDelay(d)
    BY <1>1 DEF BitDelay, LineTime, SlaveConfig, DefaultSlaveConfiguration
  <2>. QED BY <1>2, <1>3, <2>1 DEF Placed, Between, IsBit, IsStart, IsStop
<1>5. SclSpacing' /\ SdaPlaced'
  BY <1>2, <1>3, <1>4 DEF TraceInv, SclSpacing, SdaPlaced
<1>6. LinesOK' /\ Alternate' /\ InOrder'
  BY <1>1, <1>2 DEF TraceInv, LinesOK, Alternate, InOrder, StateOK
<1>. QED BY <1>2, <1>3, <1>5, <1>6

\* SetBit keeps it: a bit is set before the low time is over.
LEMMA SetBitShape ==
    ASSUME TraceInv, StateOK', NEW device \in Devices, NEW bit \in BOOLEAN, SetBit(device, bit)
    PROVE  TraceInv'
<1>1. PICK m, n : m = Len(scl.edges) /\ n = Len(sda.edges)
  OBVIOUS
<1>2. /\ m \in Nat /\ n \in Nat /\ \A j \in 1..n : SdaAt(j) \in Nat
      /\ \A i \in 1..m : SclAt(i) \in Nat
      /\ LastEdge(scl).at = SclAt(m) /\ (IsHigh(sda) <=> ~Odd(n))
  BY <1>1, Lengths DEF TraceInv
<1>3. Odd(m) /\ m > 0 /\ \A j \in 1..n : SdaAt(j) < SclAt(m)
  <2>1. Odd(m) /\ \A j \in 1..n : SdaAt(j) < SclAt(m)
    BY <1>1, <1>2 DEF SetBit, TraceInv, AtPhase, SdaBefore
  <2>. QED BY <1>2, <2>1 DEF Odd
<1>4. phase' = "set" /\ scl' = scl /\ SameConfig
  BY DEF SetBit, SameConfig
<1>5. LowDelay \in Nat /\ \A d \in Devices : BitDelay(d) \in 1..LowDelay - 1
  BY DEF TraceInv, DelaysInOrder
<1>6. driver \in Devices
  BY DEF TraceInv, LinesOK
<1>7. CASE bit = IsHigh(sda)
  <2>1. sda' = sda
    BY <1>7, Zenon DEF SetBit
  <2>2. /\ DelaysInOrder' /\ LinesOK' /\ Alternate' /\ InOrder' /\ SclSpacing' /\ SdaPlaced'
        /\ SclAt(m)' = SclAt(m) /\ \A j : SdaAt(j)' = SdaAt(j)
        /\ LowDelay' = LowDelay
    BY <1>4, <2>1, SameTrace
  <2>3. AtPhase'
    <3>1. Len(scl.edges)' = m /\ Len(sda.edges)' = n
      BY <1>1, <1>4, <2>1
    <3>2. SclAt(m) \in Nat
      BY <1>2, <1>3
    <3>3. SdaBefore(0, SclAt(m) + LowDelay)'
      BY <1>2, <1>3, <1>5, <2>2, <3>1, <3>2 DEF SdaBefore
    <3>. QED BY <1>3, <1>4, <3>1, <3>3 DEF AtPhase
  <2>. QED BY <2>2, <2>3 DEF TraceInv
<1>8. CASE bit # IsHigh(sda)
  <2>. DEFINE by == IF bit THEN driver ELSE device
              t == SclAt(m) + BitDelay(by)
  <2>1. by \in Devices /\ BitDelay(by) \in 1..LowDelay - 1
    BY <1>5, <1>6
  <2>2. t \in Nat /\ SclAt(m) < t /\ t < SclAt(m) + LowDelay /\ SclAt(m) \in Nat
    <3>1. SclAt(m) \in Nat
      BY <1>2, <1>3
    <3>. QED BY <1>5, <2>1, <3>1
  <2>3. BitAt(by) = t
    <3>1. by = "master" \/ by = "slave"
      BY <2>1 DEF Devices
    <3>2. CASE by = "master"
      BY <1>2, <3>2 DEF BitAt, BitDelay
    <3>3. CASE by = "slave"
      <4>1. scl.edges[m].direction = FALLING /\ scl.fall_time = config.fall_time
        BY <1>1, <1>2, <1>3 DEF TraceInv, Alternate, LinesOK, Edges
      <4>2. TauRatio[TEENSY_FALL] = 911
        BY DEF TauRatio, TEENSY_FALL
      <4>3. get_time_from_edge(scl, m, TEENSY_FALL, config.frequency)
              = SclAt(m) + LineTime(config.fall_time, 911)
        BY <4>1, <4>2 DEF get_time_from_edge, LineTime, SclAt, RISING, FALLING
      <4>4. BitDelay("slave") = LineTime(config.fall_time, 911) + Drawn(Teensy!SlaveHold(SlaveConfig))
        BY DEF BitDelay
      <4>5. BitAt("slave") = get_time_from_edge(scl, m, TEENSY_FALL, config.frequency)
                             + Drawn(Teensy!SlaveHold(SlaveConfig))
        BY <1>1 DEF BitAt
      <4>6. SclAt(m) \in Nat
        BY <1>2, <1>3
      <4>7. BitAt("slave") = SclAt(m) + BitDelay("slave")
        <5>. DEFINE l == LineTime(config.fall_time, 911)
                    s == Drawn(Teensy!SlaveHold(SlaveConfig))
        <5>1. l \in Nat /\ s \in Nat
          BY DEF TraceInv, DelaysInOrder
        <5>. HIDE DEF l, s
        <5>. QED BY <4>3, <4>4, <4>5, <4>6, <5>1 DEF l, s
      <4>. QED BY <3>3, <4>7
    <3>. QED BY <3>1, <3>2, <3>3
  <2>4. SdaEdge(t, by)
    <3>1. \/ bit /\ ~IsHigh(sda) /\ sda' = rise_at(sda, BitAt(driver), driver)
          \/ ~bit /\ IsHigh(sda) /\ sda' = fall_at(sda, BitAt(device), device)
      <4>1. IsHigh(sda) \in BOOLEAN
        BY DEF IsHigh
      <4>2. CASE bit = TRUE /\ IsHigh(sda) = FALSE
        BY <4>2, Zenon DEF SetBit
      <4>3. CASE bit = FALSE /\ IsHigh(sda) = TRUE
        BY <4>3, Zenon DEF SetBit
      <4>. QED BY <1>8, <4>1, <4>2, <4>3
    <3>. HIDE DEF t
    <3>2. \/ Odd(n) /\ sda' = rise_at(sda, t, by)
          \/ ~Odd(n) /\ sda' = fall_at(sda, t, by)
      BY <1>2, <2>3, <3>1
    <3>. QED BY <1>1, <1>4, <2>1, <2>2, <3>2 DEF SdaEdge
  <2>. HIDE DEF by
  <2>5. NextSda(m, n, t, by)
    <3>1. n > 0 => SdaAt(n) < SclAt(m) /\ SdaAt(n) \in Nat
      BY <1>2, <1>3
    <3>. QED BY <1>2, <1>3, <2>2, <3>1 DEF NextSda
  <2>. HIDE DEF t
  <2>6. /\ DelaysInOrder' /\ LinesOK' /\ Alternate' /\ InOrder' /\ SclSpacing' /\ SdaPlaced'
        /\ Len(scl.edges)' = m /\ Len(sda.edges)' = n + 1
        /\ \A j \in 1..n : SdaAt(j)' = SdaAt(j)
        /\ SdaAt(n + 1)' = t /\ \A i : SclAt(i)' = SclAt(i)
    BY <1>1, <2>4, <2>5, SdaStep
  <2>7. AtPhase'
    <3>1. LowDelay' = LowDelay
      BY <1>4, DelaysStay
    <3>2. \A j \in 1..n + 1 : SdaAt(j)' < SclAt(m) + LowDelay
      <4>1. \A j \in 1..n : SdaAt(j)' < SclAt(m) + LowDelay
        BY <1>2, <1>3, <1>5, <2>2, <2>6
      <4>2. SdaAt(n + 1)' < SclAt(m) + LowDelay
        BY <2>2, <2>6
      <4>3. \A j \in 1..n + 1 : j \in 1..n \/ j = n + 1
        BY <1>2
      <4>. QED BY <4>1, <4>2, <4>3
    <3>3. SdaBefore(0, SclAt(m) + LowDelay)'
      BY <1>2, <2>6, <3>1, <3>2 DEF SdaBefore
    <3>. QED BY <1>3, <1>4, <2>6, <3>3 DEF AtPhase
  <2>. QED BY <2>6, <2>7 DEF TraceInv
<1>. QED BY <1>7, <1>8

\* ClockFalls keeps it: the high time, or the condition, is over.
LEMMA ClockFallsShape ==
    ASSUME TraceInv, StateOK', ClockFalls PROVE TraceInv'
<1>1. PICK m, n : m = Len(scl.edges) /\ n = Len(sda.edges)
  OBVIOUS
<1>2. /\ m \in Nat /\ n \in Nat /\ \A j \in 1..n : SdaAt(j) \in Nat
      /\ \A i \in 1..m : SclAt(i) \in Nat
      /\ LastEdge(scl).at = SclAt(m) /\ LastEdge(sda).at = SdaAt(n)
  BY <1>1, Lengths DEF TraceInv
<1>3. /\ HighDelay \in Nat \ {0} /\ StartDelay \in Nat \ {0}
      /\ SetupDelay \in Nat \ {0} /\ FreeDelay \in Nat \ {0}
  BY DEF TraceInv, DelaysInOrder
<1>4. ~Odd(m)
  BY <1>1 DEF ClockFalls, TraceInv, AtPhase
<1>5. phase' = "low" /\ SameConfig /\ sda' = sda
  BY DEF ClockFalls, SameConfig
<1>6. CASE phase = "started"
  <2>. DEFINE t == SdaAt(n) + StartDelay
  <2>1. n > 0 /\ Odd(n) /\ SdaAt(n) \in Nat
    <3>1. Odd(n)
      BY <1>1, <1>6 DEF TraceInv, AtPhase
    <3>2. n > 0
      BY <1>2, <3>1 DEF Odd
    <3>. QED BY <1>2, <3>1, <3>2
  <2>2. scl' = fall_at(scl, t, "master") /\ t \in Nat
    BY <1>2, <1>3, <1>6, <2>1 DEF ClockFalls, StartDelay
  <2>3. SclEdge(t)
    BY <1>1, <1>4, <1>5, <2>2 DEF SclEdge
  <2>4. /\ m = 0 => n = 1
        /\ m > 0 => \/ SdaAt(n) = SclAt(m) + SetupDelay /\ \A j \in 1..n - 1 : SdaAt(j) < SclAt(m)
                    \/ SdaAt(n) = SclAt(m) + SetupDelay + FreeDelay
                         /\ \A j \in 1..n - 2 : SdaAt(j) < SclAt(m)
    BY <1>1, <1>6 DEF TraceInv, AtPhase, SdaBefore
  <2>5. m > 0 => SclAt(m) \in Nat /\ SclAt(m) < SdaAt(n)
    BY <1>2, <1>3, <2>4
  <2>6. \A j \in 1..n : (m > 0 => SclAt(m) < SdaAt(j)) => j = n \/ j = n - 1
    <3>. SUFFICES ASSUME NEW j \in 1..n, m > 0 => SclAt(m) < SdaAt(j), j # n, j # n - 1
                  PROVE  FALSE
      OBVIOUS
    <3>1. j \in 1..n - 2 /\ j \in 1..n - 1 /\ m > 0
      BY <1>2, <2>4
    <3>. QED BY <1>2, <2>4, <2>5, <3>1
  <2>7. ~Odd(n - 1) /\ \A j \in 1..n : SdaAt(j) <= SdaAt(n)
    <3>1. ~Odd(n - 1)
      BY <1>2, <2>1 DEF Odd
    <3>2. \A j \in 1..n : j < n => SdaAt(j) < SdaAt(n)
      BY <1>1, <1>2, <2>1 DEF TraceInv, InOrder, Edges
    <3>. QED BY <1>2, <2>1, <3>1, <3>2
  <2>8. NextScl(m, n, t)
    <3>1. m > 0 => SclAt(m) < t
      BY <1>2, <1>3, <2>1, <2>5
    <3>2. m > 0 /\ ~Odd(m) =>
             /\ \/ t = SclAt(m) + SetupDelay + StartDelay
                \/ t = SclAt(m) + SetupDelay + FreeDelay + StartDelay
             /\ \E j \in 1..n : SclAt(m) < SdaAt(j) /\ SdaAt(j) < t
      <4>1. n \in 1..n /\ SdaAt(n) < t
        BY <1>2, <1>3, <2>1
      <4>. QED BY <1>3, <2>4, <2>5, <4>1
    <3>3. ASSUME NEW j \in 1..n, m > 0 => SclAt(m) < SdaAt(j)
          PROVE  /\ SdaAt(j) < t
                 /\ ~Odd(m) /\ Odd(j) => t = SdaAt(j) + StartDelay
                 /\ ~Odd(m) /\ ~Odd(j) => j # n
      BY <1>2, <1>3, <2>1, <2>6, <2>7, <3>3
    <3>. HIDE DEF t
    <3>. QED BY <1>4, <3>1, <3>2, <3>3 DEF NextScl
  <2>. HIDE DEF t
  <2>9. /\ DelaysInOrder' /\ LinesOK' /\ Alternate' /\ InOrder' /\ SclSpacing' /\ SdaPlaced'
        /\ Len(scl.edges)' = m + 1 /\ Len(sda.edges)' = n
        /\ SclAt(m + 1)' = t /\ \A j : SdaAt(j)' = SdaAt(j)
    BY <1>1, <2>3, <2>8, SclStep
  <2>10. AtPhase'
    <3>1. \A j \in 1..n : SdaAt(j) < t
      BY <1>2, <1>3, <2>1, <2>7 DEF t
    <3>2. SdaBefore(0, SclAt(m + 1))'
      BY <1>2, <2>9, <3>1 DEF SdaBefore
    <3>. QED BY <1>2, <1>4, <1>5, <2>9, <3>2, Parity DEF AtPhase
  <2>. QED BY <2>9, <2>10 DEF TraceInv
<1>7. CASE phase = "high"
  <2>. DEFINE t == SclAt(m) + HighDelay
  <2>1. m > 0 /\ \A j \in 1..n : SdaAt(j) < SclAt(m)
    BY <1>1, <1>2, <1>7 DEF TraceInv, AtPhase, SdaBefore
  <2>2. SclAt(m) \in Nat
    BY <1>2, <2>1
  <2>3. scl' = fall_at(scl, t, "master") /\ t \in Nat
    BY <1>2, <1>3, <1>7, <2>2 DEF ClockFalls, HighDelay
  <2>4. SclEdge(t)
    BY <1>1, <1>4, <1>5, <2>3 DEF SclEdge
  <2>5. NextScl(m, n, t)
    BY <1>2, <1>3, <1>4, <2>1, <2>2 DEF NextScl
  <2>6. \A j \in 1..n : SdaAt(j) < t
    BY <1>2, <1>3, <2>1, <2>2
  <2>. HIDE DEF t
  <2>7. /\ DelaysInOrder' /\ LinesOK' /\ Alternate' /\ InOrder' /\ SclSpacing' /\ SdaPlaced'
        /\ Len(scl.edges)' = m + 1 /\ Len(sda.edges)' = n
        /\ SclAt(m + 1)' = t /\ \A j : SdaAt(j)' = SdaAt(j)
    BY <1>1, <2>4, <2>5, SclStep
  <2>8. AtPhase'
    <3>1. SdaBefore(0, SclAt(m + 1))'
      BY <1>2, <2>6, <2>7 DEF SdaBefore
    <3>. QED BY <1>2, <1>4, <1>5, <2>7, <3>1, Parity DEF AtPhase
  <2>. QED BY <2>7, <2>8 DEF TraceInv
<1>. QED BY <1>6, <1>7 DEF ClockFalls

\* ClockRises keeps it: the low time is over.
LEMMA ClockRisesShape ==
    ASSUME TraceInv, StateOK', ClockRises PROVE TraceInv'
<1>1. PICK m, n : m = Len(scl.edges) /\ n = Len(sda.edges)
  OBVIOUS
<1>2. /\ m \in Nat /\ n \in Nat /\ \A j \in 1..n : SdaAt(j) \in Nat
      /\ \A i \in 1..m : SclAt(i) \in Nat
      /\ LastEdge(scl).at = SclAt(m)
  BY <1>1, Lengths DEF TraceInv
<1>3. LowDelay \in Nat \ {0}
  BY DEF TraceInv, DelaysInOrder
<1>4. phase' = "high" /\ SameConfig /\ sda' = sda
  BY DEF ClockRises, SameConfig
<1>. DEFINE t == SclAt(m) + LowDelay
<1>5. Odd(m) /\ \A j \in 1..n : SdaAt(j) < t
  BY <1>1, <1>2 DEF ClockRises, TraceInv, AtPhase, SdaBefore
<1>6. m > 0 /\ SclAt(m) \in Nat
  <2>1. m > 0
    BY <1>2, <1>5 DEF Odd
  <2>. QED BY <1>2, <2>1
<1>7. SclEdge(t)
  BY <1>1, <1>2, <1>3, <1>4, <1>5, <1>6 DEF ClockRises, SclEdge, LowDelay
<1>8. NextScl(m, n, t)
  BY <1>2, <1>3, <1>5, <1>6 DEF NextScl
<1>. HIDE DEF t
<1>9. /\ DelaysInOrder' /\ LinesOK' /\ Alternate' /\ InOrder' /\ SclSpacing' /\ SdaPlaced'
      /\ Len(scl.edges)' = m + 1 /\ Len(sda.edges)' = n
      /\ SclAt(m + 1)' = t /\ \A j : SdaAt(j)' = SdaAt(j)
  BY <1>1, <1>7, <1>8, SclStep
<1>10. AtPhase'
  <2>1. SdaBefore(0, SclAt(m + 1))'
    BY <1>2, <1>5, <1>9 DEF SdaBefore
  <2>. QED BY <1>2, <1>4, <1>5, <1>9, <2>1, Parity DEF AtPhase
<1>. QED BY <1>9, <1>10 DEF TraceInv

\* So does every step.
LEMMA NextShape == ASSUME TraceInv, [Next]_vars PROVE TraceInv'
<1>1. CASE Start
  BY <1>1, StartShape DEF Start, StateOK, Devices
<1>2. CASE RepeatedStart
  BY <1>2, RepeatedStartShape DEF RepeatedStart, StateOK, TraceInv, LinesOK
<1>3. CASE Stop
  BY <1>3, StopShape DEF Stop, StateOK, TraceInv, LinesOK
<1>4. CASE ClockFalls
  BY <1>4, ClockFallsShape DEF ClockFalls, StateOK, TraceInv, LinesOK
<1>5. CASE ClockRises
  BY <1>5, ClockRisesShape DEF ClockRises, StateOK, TraceInv, LinesOK
<1>6. ASSUME NEW device \in Devices, NEW bit \in BOOLEAN, SetBit(device, bit) PROVE TraceInv'
  <2>1. StateOK'
    BY <1>6 DEF SetBit, StateOK
  <2>. QED BY <1>6, <2>1, SetBitShape
<1>7. CASE UNCHANGED vars
  <2>1. /\ scl' = scl /\ sda' = sda /\ config' = config /\ asked' = asked /\ phase' = phase /\ driver' = driver
    BY <1>7 DEF vars
  <2>2. /\ DelaysInOrder' /\ LinesOK' /\ Alternate' /\ InOrder' /\ SclSpacing' /\ SdaPlaced'
        /\ \A i : SclAt(i)' = SclAt(i) /\ SdaAt(i)' = SdaAt(i)
        /\ LowDelay' = LowDelay /\ SetupDelay' = SetupDelay /\ FreeDelay' = FreeDelay
    BY <2>1, SameTrace DEF SameConfig, StateOK, TraceInv, LinesOK
  <2>3. AtPhase'
    BY <2>1, <2>2 DEF TraceInv, AtPhase, SdaBefore
  <2>. QED BY <2>2, <2>3 DEF TraceInv
<1>. QED BY <1>1, <1>2, <1>3, <1>4, <1>5, <1>6, <1>7 DEF Next, Devices

-----------------------------------------------------------------------------
(* What the design plots measure on a trace of that shape.                 *)

\* The times of the board that the lines' edges depend on.
LinesTyped ==
    /\ config.frequency \in Nat /\ config.fall_time \in Nat
    /\ config.scl_risetime \in Nat /\ config.sda_risetime \in Nat

\* The intervals of the clock that can be measured.
ClockForms ==
    {Interval("scl_low_time", LowDelay + LineTime(config.scl_risetime, 421)
                              - LineTime(config.fall_time, 1421), Teensy!clock_low(config)),
     Interval("scl_high_time", HighDelay + LineTime(config.fall_time, 421)
                               - LineTime(config.scl_risetime, 1421), Teensy!clock_high(config))}

\* Those of START and STOP.
ConditionForms ==
    {Interval("start_setup_time", SetupDelay + LineTime(config.fall_time, 421)
                                  - LineTime(config.scl_risetime, 1421), Teensy!setup_repeated_start(config)),
     Interval("start_hold_time", StartDelay + LineTime(config.fall_time, 421)
                                 - LineTime(config.fall_time, 1421), Teensy!start_hold(config)),
     Interval("stop_setup_time", SetupDelay + LineTime(config.sda_risetime, 421)
                                 - LineTime(config.scl_risetime, 1421), Teensy!stop_setup(config)),
     Interval("bus_free_time", FreeDelay + LineTime(config.fall_time, 421)
                               - LineTime(config.sda_risetime, 1421), Teensy!bus_free(config))}

\* The config of the device that sets a bit, and how long its edge takes.
ConfigOf(device) == IF device = "master" THEN config ELSE SlaveConfig
BitTime(falling) == IF falling THEN config.fall_time ELSE config.sda_risetime

\* Those of a bit.
BitForms(device, falling) ==
    {Interval("data_hold_time",
              BitDelay(device) + LineTime(BitTime(falling), 421) - LineTime(config.fall_time, 1421),
              Teensy!data_hold(ConfigOf(device), device = "master", falling)),
     Interval("data_valid_time",
              BitDelay(device) + LineTime(BitTime(falling), 1421) - LineTime(config.fall_time, 1421),
              Teensy!data_valid(ConfigOf(device), device = "master", falling)),
     Interval("data_setup_time",
              LowDelay + LineTime(config.scl_risetime, 421) - BitDelay(device)
                - LineTime(BitTime(falling), 1421),
              Teensy!data_setup(ConfigOf(device), device = "master", falling))}

\* The periods of the clock, with or without a condition in between.
PeriodForms ==
    {LowDelay + HighDelay, LowDelay + SetupDelay + StartDelay,
     LowDelay + SetupDelay + FreeDelay + StartDelay}

\* Before() finds the edge of SCL that an edge of SDA follows.
LEMMA BeforeIs ==
    ASSUME TraceInv, NEW j \in Edges(sda), NEW k \in 0..Len(scl.edges), Between(j, k)
    PROVE  Before(j) = k
<1>. DEFINE m == Len(scl.edges)
<1>1. /\ m \in Nat /\ k \in Nat /\ SdaAt(j) \in Nat /\ \A i \in 1..m : SclAt(i) \in Nat
      /\ Edges(scl) = 1..m
  BY EdgesTyped DEF TraceInv, Edges
<1>2. \A i, l \in 1..m : i < l => SclAt(i) < SclAt(l)
  BY <1>1 DEF TraceInv, InOrder
<1>3. \A i \in 1..m : SclAt(i) < SdaAt(j) <=> i <= k
  <2>. SUFFICES ASSUME NEW i \in 1..m PROVE SclAt(i) < SdaAt(j) <=> i <= k
    OBVIOUS
  <2>1. CASE i <= k
    <3>1. k \in 1..m /\ SclAt(k) < SdaAt(j)
      BY <1>1, <2>1 DEF Between
    <3>2. i < k => SclAt(i) < SclAt(k)
      BY <1>2, <3>1
    <3>. QED BY <1>1, <2>1, <3>1, <3>2
  <2>2. CASE i > k
    <3>1. k + 1 \in 1..m /\ SdaAt(j) < SclAt(k + 1)
      BY <1>1, <2>2 DEF Between
    <3>2. i > k + 1 => SclAt(k + 1) < SclAt(i)
      BY <1>2, <3>1
    <3>. QED BY <1>1, <2>2, <3>1, <3>2
  <2>. QED BY <1>1, <2>1, <2>2
<1>4. {i \in Edges(scl) : scl.edges[i].at < sda.edges[j].at} = 1..k
  BY <1>1, <1>3 DEF SclAt, SdaAt
<1>5. Cardinality(1..k) = k
  BY <1>1, FS_Interval
<1>. QED BY <1>4, <1>5 DEF Before

\* Before() puts each edge of SDA where the trace invariant has it.
LEMMA PlacedBefore ==
    ASSUME TraceInv, NEW j \in Edges(sda)
    PROVE  /\ Before(j) \in 0..Len(scl.edges) /\ Placed(j, Before(j))
           /\ Before(j) \in Falls(scl) <=> Odd(Before(j))
<1>1. PICK k \in 0..Len(scl.edges) : Placed(j, k)
  BY DEF TraceInv, SdaPlaced
<1>2. Before(j) = k
  BY <1>1, BeforeIs DEF Placed
<1>3. k \in Falls(scl) <=> Odd(k)
  <2>1. Len(scl.edges) \in Nat /\ RISING # FALLING
    BY EdgesTyped DEF TraceInv, RISING, FALLING
  <2>2. Odd(k) => k \in Edges(scl)
    BY <2>1 DEF Odd, Edges
  <2>. QED BY <2>1, <2>2 DEF TraceInv, Alternate, Falls
<1>. QED BY <1>1, <1>2, <1>3

\* The falling edges of a line are its odd ones.
LEMMA Directions ==
    ASSUME TraceInv
    PROVE  /\ \A i \in Edges(scl) : /\ i \in Falls(scl) <=> Odd(i)
                                    /\ i \in Rises(scl) <=> ~Odd(i)
           /\ \A j \in Edges(sda) : /\ j \in Falls(sda) <=> Odd(j)
                                    /\ j \in Rises(sda) <=> ~Odd(j)
<1>1. RISING # FALLING
  BY DEF RISING, FALLING
<1>. QED BY <1>1 DEF TraceInv, Alternate, Falls, Rises

\* When an edge passes 30 % and 70 %.
LEMMA EdgeTimes ==
    ASSUME TraceInv, LinesTyped
    PROVE  LET passes(line, i, v) == get_time_from_edge(line, i, v, config.frequency)
           IN /\ \A i \in Edges(scl) :
                   /\ Odd(i) => /\ passes(scl, i, V_IL) = SclAt(i) + LineTime(config.fall_time, 1421)
                                /\ passes(scl, i, V_IH) = SclAt(i) + LineTime(config.fall_time, 421)
                   /\ ~Odd(i) => /\ passes(scl, i, V_IL) = SclAt(i) + LineTime(config.scl_risetime, 421)
                                 /\ passes(scl, i, V_IH) = SclAt(i) + LineTime(config.scl_risetime, 1421)
              /\ \A j \in Edges(sda) :
                   /\ Odd(j) => /\ passes(sda, j, V_IL) = SdaAt(j) + LineTime(config.fall_time, 1421)
                                /\ passes(sda, j, V_IH) = SdaAt(j) + LineTime(config.fall_time, 421)
                   /\ ~Odd(j) => /\ passes(sda, j, V_IL) = SdaAt(j) + LineTime(config.sda_risetime, 421)
                                 /\ passes(sda, j, V_IH) = SdaAt(j) + LineTime(config.sda_risetime, 1421)
<1>1. /\ TauRatio[V_IL] = 1421 /\ TauRatio[HIGH - V_IL] = 421
      /\ TauRatio[V_IH] = 421 /\ TauRatio[HIGH - V_IH] = 1421
  <2>1. /\ V_IL = 300 /\ HIGH - V_IL = 700 /\ V_IH = 700 /\ HIGH - V_IH = 300
    BY DEF V_IL, V_IH, HIGH
  <2>2. TauRatio[300] = 1421 /\ TauRatio[700] = 421
    BY DEF TauRatio
  <2>. QED BY <2>1, <2>2
<1>2. /\ scl.rise_time = config.scl_risetime /\ scl.fall_time = config.fall_time
      /\ sda.rise_time = config.sda_risetime /\ sda.fall_time = config.fall_time
  BY DEF TraceInv, LinesOK
<1>3. RISING # FALLING
  BY DEF RISING, FALLING
<1>4. ASSUME NEW line, NEW i, NEW v \in {V_IL, V_IH}
      PROVE  get_time_from_edge(line, i, v, config.frequency) =
               IF line.edges[i].direction = RISING
               THEN line.edges[i].at + LineTime(line.rise_time, TauRatio[HIGH - v])
               ELSE line.edges[i].at + LineTime(line.fall_time, TauRatio[v])
  BY DEF get_time_from_edge, LineTime
<1>5. \A i \in Edges(scl) : scl.edges[i].direction = IF Odd(i) THEN FALLING ELSE RISING
  BY DEF TraceInv, Alternate
<1>6. \A j \in Edges(sda) : sda.edges[j].direction = IF Odd(j) THEN FALLING ELSE RISING
  BY DEF TraceInv, Alternate
<1>. QED BY <1>1, <1>2, <1>3, <1>4, <1>5, <1>6 DEF SclAt, SdaAt

\* The numbers in the forms are integers.
LEMMA Integral ==
    ASSUME TraceInv, LinesTyped
    PROVE  /\ LowDelay \in Int /\ HighDelay \in Int /\ SetupDelay \in Int /\ StartDelay \in Int
           /\ FreeDelay \in Int /\ \A device \in Devices : BitDelay(device) \in Int
           /\ \A i \in Edges(scl) : SclAt(i) \in Int
           /\ \A j \in Edges(sda) : SdaAt(j) \in Int /\ sda.edges[j].by \in Devices
           /\ \A thousandths \in {421, 1421} :
                 /\ LineTime(config.fall_time, thousandths) \in Int
                 /\ LineTime(config.scl_risetime, thousandths) \in Int
                 /\ LineTime(config.sda_risetime, thousandths) \in Int
           /\ Len(scl.edges) \in Nat /\ Len(sda.edges) \in Nat
<1>1. ASSUME NEW t \in Nat, NEW k \in Nat PROVE LineTime(t, k) \in Int
  <2>1. t * config.frequency * k \in Int
    BY DEF LinesTyped
  <2>. QED BY <2>1 DEF LineTime
<1>2. \A i \in Edges(scl) : SclAt(i) \in Int
  BY EdgesTyped DEF TraceInv
<1>3. \A j \in Edges(sda) : SdaAt(j) \in Int /\ sda.edges[j].by \in Devices
  <2>1. LinesOK
    BY DEF TraceInv
  <2>2. \A j \in Edges(sda) : SdaAt(j) \in Nat /\ sda.edges[j].by \in Devices
    BY <2>1, EdgesTyped, Zenon
  <2>3. \A n \in Nat : n \in Int
    OBVIOUS
  <2>. QED BY <2>2, <2>3, Zenon
<1>4. /\ LowDelay \in Int /\ HighDelay \in Int /\ SetupDelay \in Int /\ StartDelay \in Int
      /\ FreeDelay \in Int /\ \A device \in Devices : BitDelay(device) \in Int
  BY DEF TraceInv, DelaysInOrder
<1>5. Len(scl.edges) \in Nat /\ Len(sda.edges) \in Nat
  BY EdgesTyped DEF TraceInv
<1>6. \A thousandths \in {421, 1421} :
         /\ LineTime(config.fall_time, thousandths) \in Int
         /\ LineTime(config.scl_risetime, thousandths) \in Int
         /\ LineTime(config.sda_risetime, thousandths) \in Int
  BY <1>1 DEF LinesTyped
<1>. QED BY <1>2, <1>3, <1>4, <1>5, <1>6

\* The edge after an edge, and the one before.
LEMMA Neighbours ==
    ASSUME TraceInv
    PROVE  /\ \A i \in Edges(scl) :
                /\ i \in Nat /\ i > 0 /\ i <= Len(scl.edges) /\ (Odd(i + 1) <=> ~Odd(i))
                /\ i # Len(scl.edges) => i + 1 \in Edges(scl) /\ i < Len(scl.edges)
           /\ \A j \in Edges(sda) :
                /\ j \in Nat /\ j > 0 /\ (Odd(j + 1) <=> ~Odd(j))
                /\ j # Len(sda.edges) => j + 1 \in Edges(sda) /\ j < Len(sda.edges)
                /\ j > 1 => j - 1 \in Edges(sda) /\ (Odd(j - 1) <=> ~Odd(j)) /\ j - 1 < j
           /\ \A k \in 0..Len(scl.edges) :
                /\ k \in Nat /\ (Odd(k + 1) <=> ~Odd(k))
                /\ k # 0 => k \in Edges(scl)
                /\ k # Len(scl.edges) => k + 1 \in Edges(scl) /\ k < Len(scl.edges)
<1>1. Len(scl.edges) \in Nat /\ Len(sda.edges) \in Nat
  BY EdgesTyped DEF TraceInv
<1>. QED BY <1>1 DEF Edges, Odd

\* A measurement: two edges d apart, that pass their voltages x and y later.
LEMMA Apart ==
    ASSUME NEW a \in Int, NEW b \in Int, NEW d \in Int, NEW x \in Int, NEW y \in Int, b = a + d
    PROVE  (b + x) - (a + y) = d + x - y
OBVIOUS

\* The intervals of the clock are among the forms: no other edge of SCL is in between.
LEMMA ClockIntervalsAre ==
    ASSUME TraceInv, LinesTyped PROVE ClockIntervals \subseteq ClockForms
<1>. DEFINE m == Len(scl.edges)
            passes(i, v) == get_time_from_edge(scl, i, v, config.frequency)
<1>1. ASSUME NEW i \in Falls(scl), i # m
      PROVE  low_time(i, config.frequency)
               = LowDelay + LineTime(config.scl_risetime, 421) - LineTime(config.fall_time, 1421)
  <2>1. i \in Edges(scl) /\ Odd(i) /\ i + 1 \in Edges(scl) /\ ~Odd(i + 1) /\ i < m
    BY <1>1, Neighbours, Directions DEF Falls
  <2>2. SclAt(i + 1) = SclAt(i) + LowDelay
    BY <2>1 DEF TraceInv, SclSpacing
  <2>3. /\ passes(i, V_IL) = SclAt(i) + LineTime(config.fall_time, 1421)
        /\ passes(i + 1, V_IL) = SclAt(i + 1) + LineTime(config.scl_risetime, 421)
    BY <2>1, EdgeTimes
  <2>4. low_time(i, config.frequency) = passes(i + 1, V_IL) - passes(i, V_IL)
    BY DEF low_time, measure_between_edges
  <2>. HIDE DEF passes
  <2>5. SclAt(i) \in Int /\ SclAt(i + 1) \in Int
    BY <2>1, Integral
  <2>. QED BY <2>2, <2>3, <2>4, <2>5, Integral, Apart, SMTT(30)
<1>2. ASSUME NEW i \in Rises(scl), i # m, \A j \in Conditions : Before(j) # i
      PROVE  high_time(i, config.frequency)
               = HighDelay + LineTime(config.fall_time, 421) - LineTime(config.scl_risetime, 1421)
  <2>1. i \in Edges(scl) /\ ~Odd(i) /\ i + 1 \in Edges(scl) /\ Odd(i + 1) /\ i < m
    BY <1>2, Neighbours, Directions DEF Rises
  <2>2. ASSUME NEW j \in Edges(sda), SclAt(i) < SdaAt(j), SdaAt(j) < SclAt(i + 1)
        PROVE  FALSE
    <3>1. Before(j) = i
      <4>1. i \in 0..m /\ Between(j, i)
        BY <2>1, <2>2, Neighbours, Integral DEF Between
      <4>. QED BY <2>2, <4>1, BeforeIs
    <3>2. j \in Conditions
      BY <2>1, <3>1, Directions DEF Conditions
    <3>. QED BY <1>2, <3>1, <3>2
  <2>3. SclAt(i + 1) = SclAt(i) + HighDelay
    BY <2>1, <2>2 DEF TraceInv, SclSpacing
  <2>4. /\ passes(i, V_IH) = SclAt(i) + LineTime(config.scl_risetime, 1421)
        /\ passes(i + 1, V_IH) = SclAt(i + 1) + LineTime(config.fall_time, 421)
    BY <2>1, EdgeTimes
  <2>5. high_time(i, config.frequency) = passes(i + 1, V_IH) - passes(i, V_IH)
    BY DEF high_time, measure_between_edges
  <2>. HIDE DEF passes
  <2>6. SclAt(i) \in Int /\ SclAt(i + 1) \in Int
    BY <2>1, Integral
  <2>. QED BY <2>3, <2>4, <2>5, <2>6, Integral, Apart, SMTT(30)
<1>. QED BY <1>1, <1>2 DEF ClockIntervals, ClockForms

\* So are those of START and STOP.
LEMMA ConditionIntervalsAre ==
    ASSUME TraceInv, LinesTyped PROVE ConditionIntervals \subseteq ConditionForms
<1>. DEFINE m == Len(scl.edges)
            n == Len(sda.edges)
            passes(line, i, v) == get_time_from_edge(line, i, v, config.frequency)
<1>1. ASSUME NEW j \in Conditions
      PROVE  /\ j \in Edges(sda) /\ Before(j) \in 0..m /\ Between(j, Before(j)) /\ ~Odd(Before(j))
             /\ Odd(j) => IsStart(j, Before(j))
             /\ ~Odd(j) => IsStop(j, Before(j))
  BY PlacedBefore DEF Conditions, Placed
<1>2. ASSUME NEW j \in RepeatedStarts
      PROVE  setup_start_time(Before(j), j, config.frequency)
               = SetupDelay + LineTime(config.fall_time, 421) - LineTime(config.scl_risetime, 1421)
  <2>. DEFINE k == Before(j)
  <2>1. j \in Conditions /\ j \in Edges(sda) /\ Odd(j) /\ k # 0 /\ j - 1 \notin Stops
    BY Directions DEF RepeatedStarts, Starts, Falls
  <2>2. k \in Edges(scl) /\ ~Odd(k)
    BY <1>1, <2>1, Neighbours
  <2>3. ~(j > 1 /\ SclAt(k) < SdaAt(j - 1))
    <3>. SUFFICES ASSUME j > 1, SclAt(k) < SdaAt(j - 1) PROVE FALSE
      OBVIOUS
    <3>1. j - 1 \in Edges(sda) /\ ~Odd(j - 1)
      BY <2>1, Neighbours
    <3>2. SdaAt(j - 1) < SdaAt(j)
      BY <2>1, <3>1, Neighbours DEF TraceInv, InOrder
    <3>3. k < m => SdaAt(j) < SclAt(k + 1) /\ SclAt(k + 1) \in Int
      <4>1. k < m => k + 1 \in Edges(scl)
        BY <2>2, Neighbours
      <4>. QED BY <1>1, <2>1, <4>1, Integral, SMTT(30) DEF Between
    <3>4. SdaAt(j - 1) \in Int /\ SdaAt(j) \in Int
      BY <2>1, <3>1, Integral
    <3>7. Between(j - 1, k)
      BY <3>2, <3>3, <3>4 DEF Between
    <3>5. Before(j - 1) = k
      BY <1>1, <2>1, <3>1, <3>7, BeforeIs
    <3>6. j - 1 \in Stops
      BY <2>2, <3>1, <3>5, Directions DEF Stops, Conditions
    <3>. QED BY <2>1, <3>6
  <2>4. SdaAt(j) = SclAt(k) + SetupDelay
    BY <1>1, <2>1, <2>3 DEF IsStart
  <2>5. /\ passes(scl, k, V_IH) = SclAt(k) + LineTime(config.scl_risetime, 1421)
        /\ passes(sda, j, V_IH) = SdaAt(j) + LineTime(config.fall_time, 421)
    BY <2>1, <2>2, EdgeTimes
  <2>6. setup_start_time(k, j, config.frequency) = passes(sda, j, V_IH) - passes(scl, k, V_IH)
    BY DEF setup_start_time, measure_between_edges
  <2>7. SclAt(k) \in Int /\ SdaAt(j) \in Int
    BY <2>1, <2>2, Integral
  <2>. HIDE DEF passes, k
  <2>8. setup_start_time(k, j, config.frequency)
          = SetupDelay + LineTime(config.fall_time, 421) - LineTime(config.scl_risetime, 1421)
    BY <2>4, <2>5, <2>6, <2>7, Integral, Apart, SMTT(30)
  <2>. QED BY <2>8 DEF k
<1>3. ASSUME NEW j \in Starts, Before(j) < m
      PROVE  hold_start_time(j, Before(j) + 1, config.frequency)
               = StartDelay + LineTime(config.fall_time, 421) - LineTime(config.fall_time, 1421)
  <2>. DEFINE k == Before(j) + 1
  <2>1. j \in Conditions /\ j \in Edges(sda) /\ Odd(j)
    BY Directions DEF Starts, Falls
  <2>2. k \in Edges(scl) /\ Odd(k)
    BY <1>1, <1>3, <2>1, Neighbours
  <2>3. SclAt(k) = SdaAt(j) + StartDelay
    BY <1>1, <1>3, <2>1 DEF IsStart
  <2>4. /\ passes(sda, j, V_IL) = SdaAt(j) + LineTime(config.fall_time, 1421)
        /\ passes(scl, k, V_IH) = SclAt(k) + LineTime(config.fall_time, 421)
    BY <2>1, <2>2, EdgeTimes
  <2>5. hold_start_time(j, k, config.frequency) = passes(scl, k, V_IH) - passes(sda, j, V_IL)
    BY DEF hold_start_time, measure_between_edges
  <2>6. SclAt(k) \in Int /\ SdaAt(j) \in Int
    BY <2>1, <2>2, Integral
  <2>. HIDE DEF passes, k
  <2>7. hold_start_time(j, k, config.frequency)
          = StartDelay + LineTime(config.fall_time, 421) - LineTime(config.fall_time, 1421)
    BY <2>3, <2>4, <2>5, <2>6, Integral, Apart, SMTT(30)
  <2>. QED BY <2>7 DEF k
<1>4. ASSUME NEW j \in Stops
      PROVE  setup_stop_time(Before(j), j, config.frequency)
               = SetupDelay + LineTime(config.sda_risetime, 421) - LineTime(config.scl_risetime, 1421)
  <2>. DEFINE k == Before(j)
  <2>1. j \in Conditions /\ j \in Edges(sda) /\ ~Odd(j)
    BY Directions DEF Stops, Rises
  <2>2. k > 0 /\ SdaAt(j) = SclAt(k) + SetupDelay
    BY <1>1, <2>1 DEF IsStop
  <2>3. k \in Edges(scl) /\ ~Odd(k)
    BY <1>1, <2>1, <2>2, Neighbours
  <2>4. /\ passes(scl, k, V_IH) = SclAt(k) + LineTime(config.scl_risetime, 1421)
        /\ passes(sda, j, V_IL) = SdaAt(j) + LineTime(config.sda_risetime, 421)
    BY <2>1, <2>3, EdgeTimes
  <2>5. setup_stop_time(k, j, config.frequency) = passes(sda, j, V_IL) - passes(scl, k, V_IH)
    BY DEF setup_stop_time, measure_between_edges
  <2>6. SclAt(k) \in Int /\ SdaAt(j) \in Int
    BY <2>1, <2>3, Integral
  <2>. HIDE DEF passes, k
  <2>7. setup_stop_time(k, j, config.frequency)
          = SetupDelay + LineTime(config.sda_risetime, 421) - LineTime(config.scl_risetime, 1421)
    BY <2>2, <2>4, <2>5, <2>6, Integral, Apart, SMTT(30)
  <2>. QED BY <2>7 DEF k
<1>5. ASSUME NEW j \in Stops, j # n
      PROVE  bus_free(j, config.frequency)
               = FreeDelay + LineTime(config.fall_time, 421) - LineTime(config.sda_risetime, 1421)
  <2>1. j \in Conditions /\ j \in Edges(sda) /\ ~Odd(j) /\ j + 1 \in Edges(sda) /\ Odd(j + 1) /\ j < n
    BY <1>5, Neighbours, Directions DEF Stops, Rises
  <2>2. SdaAt(j + 1) = SdaAt(j) + FreeDelay
    BY <1>1, <2>1 DEF IsStop
  <2>3. /\ passes(sda, j, V_IH) = SdaAt(j) + LineTime(config.sda_risetime, 1421)
        /\ passes(sda, j + 1, V_IH) = SdaAt(j + 1) + LineTime(config.fall_time, 421)
    BY <2>1, EdgeTimes
  <2>4. bus_free(j, config.frequency) = passes(sda, j + 1, V_IH) - passes(sda, j, V_IH)
    BY DEF bus_free, measure_between_edges
  <2>5. SdaAt(j) \in Int /\ SdaAt(j + 1) \in Int
    BY <2>1, Integral
  <2>. HIDE DEF passes
  <2>. QED BY <2>2, <2>3, <2>4, <2>5, Integral, Apart, SMTT(30)
<1>. QED BY <1>2, <1>3, <1>4, <1>5 DEF ConditionIntervals, ConditionForms

\* So are those of the bits.
LEMMA BitIntervalsAre ==
    ASSUME TraceInv, LinesTyped, NEW x \in BitIntervals
    PROVE  \E device \in Devices, falling \in BOOLEAN : x \in BitForms(device, falling)
<1>. DEFINE m == Len(scl.edges)
            passes(line, i, v) == get_time_from_edge(line, i, v, config.frequency)
            device(j) == sda.edges[j].by
            falling(j) == sda.edges[j].direction = FALLING
            hold(j) == BitDelay(device(j)) + LineTime(BitTime(falling(j)), 421) - LineTime(config.fall_time, 1421)
            valid(j) == BitDelay(device(j)) + LineTime(BitTime(falling(j)), 1421) - LineTime(config.fall_time, 1421)
            setup(j) == LowDelay + LineTime(config.scl_risetime, 421) - BitDelay(device(j))
                          - LineTime(BitTime(falling(j)), 1421)
<1>1. ASSUME NEW j \in Bits
      PROVE  /\ j \in Edges(sda) /\ device(j) \in Devices
             /\ Before(j) \in Edges(scl) /\ Odd(Before(j))
             /\ SdaAt(j) = SclAt(Before(j)) + BitDelay(device(j))
             /\ falling(j) <=> Odd(j)
  <2>1. j \in Edges(sda) /\ Before(j) \in Falls(scl)
    BY DEF Bits, Conditions
  <2>2. Odd(Before(j)) /\ Placed(j, Before(j)) /\ Before(j) \in Edges(scl)
    BY <2>1, PlacedBefore DEF Falls
  <2>3. falling(j) <=> Odd(j)
    BY <2>1, Directions DEF Falls
  <2>. QED BY <2>1, <2>2, <2>3, Integral, SMTT(30) DEF Placed, IsBit
<1>2. ASSUME NEW j \in Bits
      PROVE  /\ passes(scl, Before(j), V_IL) = SclAt(Before(j)) + LineTime(config.fall_time, 1421)
             /\ passes(sda, j, Begun(j)) = SdaAt(j) + LineTime(BitTime(falling(j)), 421)
             /\ passes(sda, j, Settled(j)) = SdaAt(j) + LineTime(BitTime(falling(j)), 1421)
  <2>1. RISING # FALLING
    BY DEF RISING, FALLING
  <2>2. sda.edges[j].direction = IF Odd(j) THEN FALLING ELSE RISING
    BY <1>1 DEF TraceInv, Alternate
  <2>3. Begun(j) = (IF Odd(j) THEN V_IH ELSE V_IL) /\ Settled(j) = (IF Odd(j) THEN V_IL ELSE V_IH)
    BY <2>1, <2>2 DEF Begun, Settled
  <2>4. BitTime(falling(j)) = IF Odd(j) THEN config.fall_time ELSE config.sda_risetime
    BY <1>1 DEF BitTime
  <2>. QED BY <1>1, <2>3, <2>4, EdgeTimes
<1>3. ASSUME NEW j \in Bits
      PROVE  /\ LineTime(BitTime(falling(j)), 421) \in Int /\ LineTime(BitTime(falling(j)), 1421) \in Int
             /\ BitDelay(device(j)) \in Int /\ SclAt(Before(j)) \in Int
             /\ LineTime(config.fall_time, 1421) \in Int
  BY <1>1, Integral, SMTT(30) DEF BitTime
<1>4. ASSUME NEW j \in Bits
      PROVE  /\ data_hold(Before(j), j, config.frequency) = hold(j)
             /\ data_valid(Before(j), j, config.frequency) = valid(j)
  <2>1. /\ data_hold(Before(j), j, config.frequency)
             = passes(sda, j, Begun(j)) - passes(scl, Before(j), V_IL)
        /\ data_valid(Before(j), j, config.frequency)
             = passes(sda, j, Settled(j)) - passes(scl, Before(j), V_IL)
    BY DEF data_hold, data_valid, measure_between_edges
  <2>. HIDE DEF passes, device, falling
  <2>. QED BY <1>1, <1>2, <1>3, <2>1
<1>5. ASSUME NEW j \in Bits, Before(j) < m
      PROVE  setup_data_time(j, Before(j) + 1, config.frequency) = setup(j)
  <2>1. Before(j) + 1 \in Edges(scl) /\ ~Odd(Before(j) + 1)
    BY <1>1, <1>5, Neighbours
  <2>2. SclAt(Before(j) + 1) = SclAt(Before(j)) + LowDelay
    BY <1>1, <1>5 DEF TraceInv, SclSpacing
  <2>3. passes(scl, Before(j) + 1, V_IL) = SclAt(Before(j) + 1) + LineTime(config.scl_risetime, 421)
    BY <2>1, EdgeTimes
  <2>4. setup_data_time(j, Before(j) + 1, config.frequency)
          = passes(scl, Before(j) + 1, V_IL) - passes(sda, j, Settled(j))
    BY DEF setup_data_time, measure_between_edges
  <2>. DEFINE a == SclAt(Before(j))
              b == BitDelay(device(j))
              r == LineTime(config.scl_risetime, 421)
              e == LineTime(BitTime(falling(j)), 1421)
  <2>5. a \in Int /\ b \in Int /\ r \in Int /\ e \in Int /\ LowDelay \in Int
    BY <1>3, Integral
  <2>6. passes(scl, Before(j) + 1, V_IL) = (a + LowDelay) + r /\ passes(sda, j, Settled(j)) = (a + b) + e
    BY <1>1, <1>2, <2>2, <2>3
  <2>. HIDE DEF passes, a, b, r, e
  <2>7. setup_data_time(j, Before(j) + 1, config.frequency) = LowDelay + r - b - e
    BY <2>4, <2>5, <2>6
  <2>. QED BY <2>7 DEF b, r, e
<1>. HIDE DEF passes, hold, valid, setup
<1>6. PICK j \in Bits :
        \/ x = Interval("data_hold_time", hold(j),
                        Teensy!data_hold(ConfigOf(device(j)), device(j) = "master", falling(j)))
        \/ x = Interval("data_valid_time", valid(j),
                        Teensy!data_valid(ConfigOf(device(j)), device(j) = "master", falling(j)))
        \/ x = Interval("data_setup_time", setup(j),
                        Teensy!data_setup(ConfigOf(device(j)), device(j) = "master", falling(j)))
  BY <1>4, <1>5 DEF BitIntervals, ConfigOf
<1>7. falling(j) \in BOOLEAN /\ device(j) \in Devices
  BY <1>1
<1>8. x \in BitForms(device(j), falling(j))
  BY <1>6 DEF BitForms, hold, valid, setup
<1>. QED BY <1>7, <1>8

\* So are the periods.
LEMMA PeriodsAre ==
    ASSUME TraceInv, LinesTyped PROVE Periods \subseteq PeriodForms
<1>. DEFINE m == Len(scl.edges)
            passes(i) == get_time_from_edge(scl, i, V_IL, config.frequency)
<1>1. ASSUME NEW i \in Falls(scl), i + 2 <= m
      PROVE  frequency(i, config.frequency) \in PeriodForms
  <2>1. /\ i \in Edges(scl) /\ i + 1 \in Edges(scl) /\ i + 2 \in Edges(scl) /\ i + 1 < m /\ i < m
        /\ Odd(i) /\ ~Odd(i + 1) /\ Odd(i + 2)
    <3>1. i \in Nat /\ Odd(i) /\ i \in Edges(scl) /\ m \in Nat
      BY Directions, Integral DEF Falls, Edges
    <3>. QED BY <1>1, <3>1 DEF Edges, Odd
  <2>2. SclAt(i + 1) = SclAt(i) + LowDelay
    BY <2>1 DEF TraceInv, SclSpacing
  <2>3. \/ SclAt(i + 2) = SclAt(i + 1) + HighDelay
        \/ SclAt(i + 2) = SclAt(i + 1) + SetupDelay + StartDelay
        \/ SclAt(i + 2) = SclAt(i + 1) + SetupDelay + FreeDelay + StartDelay
    <3>1. (i + 1) + 1 = i + 2
      BY <2>1 DEF Edges
    <3>. QED BY <2>1, <3>1 DEF TraceInv, SclSpacing
  <2>4. /\ passes(i) = SclAt(i) + LineTime(config.fall_time, 1421)
        /\ passes(i + 2) = SclAt(i + 2) + LineTime(config.fall_time, 1421)
    BY <2>1, EdgeTimes
  <2>5. frequency(i, config.frequency) = passes(i + 2) - passes(i)
    BY DEF frequency, measure_between_edges
  <2>6. /\ SclAt(i) \in Int /\ SclAt(i + 2) \in Int /\ LineTime(config.fall_time, 1421) \in Int
        /\ LowDelay \in Int /\ HighDelay \in Int /\ SetupDelay \in Int /\ StartDelay \in Int
        /\ FreeDelay \in Int
    BY <2>1, Integral
  <2>. HIDE DEF passes
  <2>7. frequency(i, config.frequency) = SclAt(i + 2) - SclAt(i)
    BY <2>4, <2>5, <2>6
  <2>. QED BY <2>2, <2>3, <2>6, <2>7 DEF PeriodForms
<1>. QED BY <1>1 DEF Periods

-----------------------------------------------------------------------------
(* The boards a trace is drawn for.                                        *)

\* A profile of the driver on a board whose lines rise so fast, or one of the examples.
DriverBoard(p, q) ==
    LET mode == set_clock(asked)
        rise(percent) == (mode.max_rise * percent) \div 100
    IN config = Config(mode, rise(p), rise(q))

\* The board never changes: it is the driver's for what was asked, or an example.
BoardInv ==
    \/ asked \in Frequencies /\ \E p, q \in RiseTimes : DriverBoard(p, q)
    \/ asked = 0 /\ config \in Examples

\* The same with the numbers in place, for a mode of the driver and its slowest rise.
ModeBoard(mode) ==
    \E r, s \in 0..mode.max_rise : config = Config(mode, r, s)

\* The driver's modes.
StandardMode == Mode(DefaultStandardModeMasterConfiguration, standard_mode_spec, 1100)
FastMode == Mode(DefaultFastModeMasterConfiguration, fast_mode_spec, 330)
FastModePlus == Mode(DefaultFastModePlusMasterConfiguration, fast_mode_plus_spec, 132)

\* set_clock() has three modes, for three ranges of frequencies.
LEMMA SetClock ==
    ASSUME NEW hertz \in Nat
    PROVE  /\ hertz < 400000 => set_clock(hertz) = StandardMode
           /\ hertz >= 400000 /\ hertz < 1000000 => set_clock(hertz) = FastMode
           /\ hertz >= 1000000 => set_clock(hertz) = FastModePlus
BY DEF set_clock, StandardMode, FastMode, FastModePlus

\* What was asked for decides the mode.
LEMMA ModeOf ==
    ASSUME BoardInv, asked # 0
    PROVE  /\ asked \in Nat \ {0}
           /\ \/ asked < 400000 /\ set_clock(asked) = StandardMode /\ ModeBoard(StandardMode)
              \/ /\ asked >= 400000 /\ asked < 1000000
                 /\ set_clock(asked) = FastMode /\ ModeBoard(FastMode)
              \/ asked >= 1000000 /\ set_clock(asked) = FastModePlus /\ ModeBoard(FastModePlus)
<1>1. asked \in Frequencies /\ asked \in Nat \ {0}
  BY TimingAssumption DEF BoardInv
<1>2. PICK p \in RiseTimes, q \in RiseTimes : DriverBoard(p, q)
  BY DEF BoardInv
<1>3. p \in 1..100 /\ q \in 1..100
  BY <1>2, TimingAssumption
<1>. DEFINE mode == set_clock(asked)
<1>4. ASSUME mode.max_rise \in {1100, 330, 132} PROVE ModeBoard(mode)
  <2>. DEFINE rise(percent) == (mode.max_rise * percent) \div 100
  <2>1. \A percent \in 1..100 : rise(percent) \in 0..mode.max_rise
    <3>1. \A m \in {1100, 330, 132}, percent \in 1..100 : (m * percent) \div 100 \in 0..m
      OBVIOUS
    <3>. QED BY <1>4, <3>1
  <2>2. config = Config(mode, rise(p), rise(q))
    BY <1>2 DEF DriverBoard
  <2>. QED BY <1>3, <2>1, <2>2 DEF ModeBoard
<1>5. StandardMode.max_rise = 1100 /\ FastMode.max_rise = 330 /\ FastModePlus.max_rise = 132
  BY DEF StandardMode, FastMode, FastModePlus, Mode
<1>6. \/ asked < 400000 /\ mode = StandardMode
      \/ asked >= 400000 /\ asked < 1000000 /\ mode = FastMode
      \/ asked >= 1000000 /\ mode = FastModePlus
  BY <1>1, SetClock
<1>7. ModeBoard(mode)
  BY <1>4, <1>5, <1>6
<1>. QED BY <1>1, <1>6, <1>7

\* clock_frequency().worst_case is the rate of a clock whose SCL rises in no time.
RateBound(c) ==
    /\ Teensy!clock_frequency(c).worst_case \in Nat \ {0}
    /\ (1000000000 \div Teensy!clock_frequency(c).worst_case) * c.frequency
          <= (Teensy!Low(c) + Teensy!High(c, 0)) \div 1000

\* What the bounds below ask of a board: a fall takes less than a tick, bits are set while
\* SCL is low, a condition takes longer than a pulse, and neither a pulse nor a condition
\* is lost in the slowest rise.
IsBoard(c) ==
    /\ IsConfig(c) /\ c.frequency \in {24, 48, 60} /\ c.fall_time = 8
    /\ c.scl_risetime \in Nat /\ c.sda_risetime \in Nat /\ c.BUSIDLE \in Nat
    /\ c.DATAVD \in Nat /\ c.DATAVD < c.CLKLO /\ c.CLKHI <= 2 * c.SETHOLD + 1
    /\ Teensy!Part(c, c.max_rise, 1421) <= Teensy!High(c, c.max_rise)
    /\ Teensy!Part(c, c.max_rise, 1421) <= Teensy!Setup(c, c.max_rise)
    /\ RateBound(c)

\* The slave sees SCL fall, and sets its bit before SCL rises.
IsSlaveOf(c, slave) ==
    /\ slave.frequency = c.frequency /\ slave.fall_time = c.fall_time
    /\ slave.sda_risetime = c.sda_risetime /\ slave.scl_risetime = c.scl_risetime
    /\ slave.PRESCALE = c.PRESCALE /\ slave.CLKLO = c.CLKLO
    /\ slave.DATAVD \in Nat /\ slave.FILTSCL \in Nat
    /\ 1000 * (slave.FILTSCL + slave.DATAVD + 4) < Teensy!Low(c) \div 1000

\* The attributes of the driver's boards.
StandardBoard(r, s) ==
    [frequency |-> 60, scl_risetime |-> r, sda_risetime |-> s, fall_time |-> 8, max_fall |-> 8,
     max_rise |-> 1100, PRESCALE |-> 3, CLKHI |-> 34, CLKLO |-> 37, DATAVD |-> 7,
     SETHOLD |-> 44, FILTSDA |-> 15, FILTSCL |-> 15, BUSIDLE |-> 9]

FastBoard(r, s) ==
    [frequency |-> 60, scl_risetime |-> r, sda_risetime |-> s, fall_time |-> 8, max_fall |-> 8,
     max_rise |-> 330, PRESCALE |-> 1, CLKHI |-> 23, CLKLO |-> 42, DATAVD |-> 11,
     SETHOLD |-> 21, FILTSDA |-> 15, FILTSCL |-> 15, BUSIDLE |-> 1]

FastPlusBoard(r, s) ==
    [frequency |-> 60, scl_risetime |-> r, sda_risetime |-> s, fall_time |-> 8, max_fall |-> 8,
     max_rise |-> 132, PRESCALE |-> 0, CLKHI |-> 14, CLKLO |-> 36, DATAVD |-> 12,
     SETHOLD |-> 19, FILTSDA |-> 6, FILTSCL |-> 6, BUSIDLE |-> 1]

\* What Config() makes of the profiles.
LEMMA DriverBoards ==
    ASSUME NEW r, NEW s
    PROVE  /\ Config(StandardMode, r, s) = StandardBoard(r, s)
           /\ Config(FastMode, r, s) = FastBoard(r, s)
           /\ Config(FastModePlus, r, s) = FastPlusBoard(r, s)
<1>1. Config(StandardMode, r, s) = StandardBoard(r, s)
  BY SMT DEF StandardMode, Mode, Config, Board, PortClock, FallTime, Profile, DefaultStandardModeMasterConfiguration, StandardBoard
<1>2. Config(FastMode, r, s) = FastBoard(r, s)
  BY SMT DEF FastMode, Mode, Config, Board, PortClock, FallTime, Profile, DefaultFastModeMasterConfiguration, FastBoard
<1>3. Config(FastModePlus, r, s) = FastPlusBoard(r, s)
  BY SMT DEF FastModePlus, Mode, Config, Board, PortClock, FallTime, Profile, DefaultFastModePlusMasterConfiguration, FastPlusBoard
<1>. QED BY <1>1, <1>2, <1>3

\* The Standard profile's board is one the bounds hold for.
LEMMA StandardBoards ==
    ASSUME ModeBoard(StandardMode), asked # 0
    PROVE  IsBoard(config) /\ IsSlaveOf(config, SlaveConfig)
<1>1. StandardMode.max_rise = 1100
  BY DEF StandardMode, Mode
<1>2. PICK r \in 0..StandardMode.max_rise, s \in 0..StandardMode.max_rise : config = Config(StandardMode, r, s)
  BY DEF ModeBoard
<1>3. /\ config = StandardBoard(r, s) /\ r \in 0..1100 /\ s \in 0..1100
  BY <1>1, <1>2, DriverBoards
<1>4. Teensy!scale(config) = 8000000
  BY <1>3, SMT DEF StandardBoard, Teensy!scale, Teensy!period, Teensy!Divider
<1>5. Teensy!SCL_LATENCY(config, 0) = 2 /\ Teensy!SCL_LATENCY(config, 1100) = 9
  BY <1>3, <1>4, SMT DEF StandardBoard, Teensy!SCL_LATENCY, Teensy!period, Teensy!Part,
                         Teensy!time_to_rise_to_teensy_trigger_voltage
<1>6. /\ Teensy!Low(config) = 304000000 /\ Teensy!High(config, 0) = 296000000
      /\ Teensy!High(config, 1100) = 352000000 /\ Teensy!Setup(config, 1100) = 432000000
  BY <1>3, <1>4, <1>5, SMT DEF StandardBoard, Teensy!Low, Teensy!High, Teensy!Setup
<1>7. Teensy!clock_frequency(config).worst_case = 100000
  BY <1>3, <1>6, SMT DEF StandardBoard, Teensy!clock_frequency, Teensy!period
<1>8. Teensy!Part(config, 1100, 1421) = 93786000
  BY <1>3, SMT DEF StandardBoard, Teensy!Part
<1>9. IsBoard(config)
  BY <1>3, <1>6, <1>7, <1>8, SMT DEF StandardBoard, IsBoard, IsConfig, RateBound
<1>10. IsSlaveOf(config, SlaveConfig)
  BY <1>3, <1>6, SMT DEF StandardBoard, IsSlaveOf, SlaveConfig, DefaultSlaveConfiguration
<1>. QED BY <1>9, <1>10

\* So is the Fast profile's.
LEMMA FastBoards ==
    ASSUME ModeBoard(FastMode), asked # 0
    PROVE  IsBoard(config) /\ IsSlaveOf(config, SlaveConfig)
<1>1. FastMode.max_rise = 330
  BY DEF FastMode, Mode
<1>2. PICK r \in 0..FastMode.max_rise, s \in 0..FastMode.max_rise : config = Config(FastMode, r, s)
  BY DEF ModeBoard
<1>3. /\ config = FastBoard(r, s) /\ r \in 0..330 /\ s \in 0..330
  BY <1>1, <1>2, DriverBoards
<1>4. Teensy!scale(config) = 2000000
  BY <1>3, SMT DEF FastBoard, Teensy!scale, Teensy!period, Teensy!Divider
<1>5. Teensy!SCL_LATENCY(config, 0) = 8 /\ Teensy!SCL_LATENCY(config, 330) = 17
  BY <1>3, <1>4, SMT DEF FastBoard, Teensy!SCL_LATENCY, Teensy!period, Teensy!Part,
                         Teensy!time_to_rise_to_teensy_trigger_voltage
<1>6. /\ Teensy!Low(config) = 86000000 /\ Teensy!High(config, 0) = 64000000
      /\ Teensy!High(config, 330) = 82000000 /\ Teensy!Setup(config, 330) = 78000000
  BY <1>3, <1>4, <1>5, SMT DEF FastBoard, Teensy!Low, Teensy!High, Teensy!Setup
<1>7. Teensy!clock_frequency(config).worst_case = 400000
  BY <1>3, <1>6, SMT DEF FastBoard, Teensy!clock_frequency, Teensy!period
<1>8. Teensy!Part(config, 330, 1421) = 28135800
  BY <1>3, SMT DEF FastBoard, Teensy!Part
<1>9. IsBoard(config)
  BY <1>3, <1>6, <1>7, <1>8, SMT DEF FastBoard, IsBoard, IsConfig, RateBound
<1>10. IsSlaveOf(config, SlaveConfig)
  BY <1>3, <1>6, SMT DEF FastBoard, IsSlaveOf, SlaveConfig, DefaultSlaveConfiguration
<1>. QED BY <1>9, <1>10

\* So is the Fast Plus profile's.
LEMMA FastPlusBoards ==
    ASSUME ModeBoard(FastModePlus), asked # 0
    PROVE  IsBoard(config) /\ IsSlaveOf(config, SlaveConfig)
<1>1. FastModePlus.max_rise = 132
  BY DEF FastModePlus, Mode
<1>2. PICK r \in 0..FastModePlus.max_rise, s \in 0..FastModePlus.max_rise : config = Config(FastModePlus, r, s)
  BY DEF ModeBoard
<1>3. /\ config = FastPlusBoard(r, s) /\ r \in 0..132 /\ s \in 0..132
  BY <1>1, <1>2, DriverBoards
<1>4. Teensy!scale(config) = 1000000
  BY <1>3, SMT DEF FastPlusBoard, Teensy!scale, Teensy!period, Teensy!Divider
<1>5. Teensy!SCL_LATENCY(config, 0) = 8 /\ Teensy!SCL_LATENCY(config, 132) = 15
  BY <1>3, <1>4, SMT DEF FastPlusBoard, Teensy!SCL_LATENCY, Teensy!period, Teensy!Part,
                         Teensy!time_to_rise_to_teensy_trigger_voltage
<1>6. /\ Teensy!Low(config) = 37000000 /\ Teensy!High(config, 0) = 23000000
      /\ Teensy!High(config, 132) = 30000000 /\ Teensy!Setup(config, 132) = 35000000
  BY <1>3, <1>4, <1>5, SMT DEF FastPlusBoard, Teensy!Low, Teensy!High, Teensy!Setup
<1>7. Teensy!clock_frequency(config).worst_case = 1000000
  BY <1>3, <1>6, SMT DEF FastPlusBoard, Teensy!clock_frequency, Teensy!period
<1>8. Teensy!Part(config, 132, 1421) = 11254320
  BY <1>3, SMT DEF FastPlusBoard, Teensy!Part
<1>9. IsBoard(config)
  BY <1>3, <1>6, <1>7, <1>8, SMT DEF FastPlusBoard, IsBoard, IsConfig, RateBound
<1>10. IsSlaveOf(config, SlaveConfig)
  BY <1>3, <1>6, SMT DEF FastPlusBoard, IsSlaveOf, SlaveConfig, DefaultSlaveConfiguration
<1>. QED BY <1>9, <1>10

\* The calculator's master_100k_config is such a board.
LEMMA Board_master_100k_config ==
    ASSUME asked = 0, config = master_100k_config
    PROVE  IsBoard(config) /\ IsSlaveOf(config, SlaveConfig)
<1>1. config =
        [frequency |-> 24, scl_risetime |-> 32, sda_risetime |-> 1446, fall_time |-> 8, max_fall |-> 300,
         max_rise |-> 1100, PRESCALE |-> 1, CLKHI |-> 55, CLKLO |-> 59, DATAVD |-> 25,
         SETHOLD |-> 63, FILTSDA |-> 5, FILTSCL |-> 5, BUSIDLE |-> 6]
  BY SMT DEF master_100k_config, Board, Profile, FallTime
<1>2. Teensy!scale(config) = 2000000
  BY <1>1, SMT DEF Teensy!scale, Teensy!period, Teensy!Divider
<1>3. Teensy!SCL_LATENCY(config, 0) = 3 /\ Teensy!SCL_LATENCY(config, 1100) = 15
  BY <1>1, <1>2, SMT DEF Teensy!SCL_LATENCY, Teensy!period, Teensy!Part,
                         Teensy!time_to_rise_to_teensy_trigger_voltage
<1>4. /\ Teensy!Low(config) = 120000000 /\ Teensy!High(config, 0) = 118000000
      /\ Teensy!High(config, 1100) = 142000000 /\ Teensy!Setup(config, 1100) = 158000000
  BY <1>1, <1>2, <1>3, SMT DEF Teensy!Low, Teensy!High, Teensy!Setup
<1>5. Teensy!clock_frequency(config).worst_case = 100840
  BY <1>1, <1>4, SMT DEF Teensy!clock_frequency, Teensy!period
<1>6. Teensy!Part(config, 1100, 1421) = 37514400
  BY <1>1, SMT DEF Teensy!Part
<1>7. IsBoard(config)
  BY <1>1, <1>4, <1>5, <1>6, SMT DEF IsBoard, IsConfig, RateBound
<1>8. IsSlaveOf(config, SlaveConfig)
  BY <1>1, <1>4, SMT DEF IsSlaveOf, SlaveConfig
<1>. QED BY <1>7, <1>8

\* The calculator's master_400k_config is such a board.
LEMMA Board_master_400k_config ==
    ASSUME asked = 0, config = master_400k_config
    PROVE  IsBoard(config) /\ IsSlaveOf(config, SlaveConfig)
<1>1. config =
        [frequency |-> 24, scl_risetime |-> 350, sda_risetime |-> 327, fall_time |-> 8, max_fall |-> 300,
         max_rise |-> 330, PRESCALE |-> 0, CLKHI |-> 26, CLKLO |-> 28, DATAVD |-> 12,
         SETHOLD |-> 25, FILTSDA |-> 2, FILTSCL |-> 2, BUSIDLE |-> 110]
  BY SMT DEF master_400k_config, Board, Profile, FallTime
<1>2. Teensy!scale(config) = 1000000
  BY <1>1, SMT DEF Teensy!scale, Teensy!period, Teensy!Divider
<1>3. Teensy!SCL_LATENCY(config, 0) = 4 /\ Teensy!SCL_LATENCY(config, 330) = 11
  BY <1>1, <1>2, SMT DEF Teensy!SCL_LATENCY, Teensy!period, Teensy!Part,
                         Teensy!time_to_rise_to_teensy_trigger_voltage
<1>4. /\ Teensy!Low(config) = 29000000 /\ Teensy!High(config, 0) = 31000000
      /\ Teensy!High(config, 330) = 38000000 /\ Teensy!Setup(config, 330) = 37000000
  BY <1>1, <1>2, <1>3, SMT DEF Teensy!Low, Teensy!High, Teensy!Setup
<1>5. Teensy!clock_frequency(config).worst_case = 400000
  BY <1>1, <1>4, SMT DEF Teensy!clock_frequency, Teensy!period
<1>6. Teensy!Part(config, 330, 1421) = 11254320
  BY <1>1, SMT DEF Teensy!Part
<1>7. IsBoard(config)
  BY <1>1, <1>4, <1>5, <1>6, SMT DEF IsBoard, IsConfig, RateBound
<1>8. IsSlaveOf(config, SlaveConfig)
  BY <1>1, <1>4, SMT DEF IsSlaveOf, SlaveConfig
<1>. QED BY <1>7, <1>8

\* The calculator's master_1M_config is such a board.
LEMMA Board_master_1M_config ==
    ASSUME asked = 0, config = master_1M_config
    PROVE  IsBoard(config) /\ IsSlaveOf(config, SlaveConfig)
<1>1. config =
        [frequency |-> 24, scl_risetime |-> 300, sda_risetime |-> 320, fall_time |-> 8, max_fall |-> 120,
         max_rise |-> 330, PRESCALE |-> 0, CLKHI |-> 9, CLKLO |-> 10, DATAVD |-> 4,
         SETHOLD |-> 10, FILTSDA |-> 1, FILTSCL |-> 1, BUSIDLE |-> 44]
  BY SMT DEF master_1M_config, Board, Profile, FallTime
<1>2. Teensy!scale(config) = 1000000
  BY <1>1, SMT DEF Teensy!scale, Teensy!period, Teensy!Divider
<1>3. Teensy!SCL_LATENCY(config, 0) = 3 /\ Teensy!SCL_LATENCY(config, 330) = 10
  BY <1>1, <1>2, SMT DEF Teensy!SCL_LATENCY, Teensy!period, Teensy!Part,
                         Teensy!time_to_rise_to_teensy_trigger_voltage
<1>4. /\ Teensy!Low(config) = 11000000 /\ Teensy!High(config, 0) = 13000000
      /\ Teensy!High(config, 330) = 20000000 /\ Teensy!Setup(config, 330) = 21000000
  BY <1>1, <1>2, <1>3, SMT DEF Teensy!Low, Teensy!High, Teensy!Setup
<1>5. Teensy!clock_frequency(config).worst_case = 1000000
  BY <1>1, <1>4, SMT DEF Teensy!clock_frequency, Teensy!period
<1>6. Teensy!Part(config, 330, 1421) = 11254320
  BY <1>1, SMT DEF Teensy!Part
<1>7. IsBoard(config)
  BY <1>1, <1>4, <1>5, <1>6, SMT DEF IsBoard, IsConfig, RateBound
<1>8. IsSlaveOf(config, SlaveConfig)
  BY <1>1, <1>4, SMT DEF IsSlaveOf, SlaveConfig
<1>. QED BY <1>7, <1>8

\* The calculator's master_example_400k_config is such a board.
LEMMA Board_master_example_400k_config ==
    ASSUME asked = 0, config = master_example_400k_config
    PROVE  IsBoard(config) /\ IsSlaveOf(config, SlaveConfig)
<1>1. config =
        [frequency |-> 48, scl_risetime |-> 320, sda_risetime |-> 320, fall_time |-> 8, max_fall |-> 300,
         max_rise |-> 330, PRESCALE |-> 0, CLKHI |-> 53, CLKLO |-> 62, DATAVD |-> 15,
         SETHOLD |-> 29, FILTSDA |-> 1, FILTSCL |-> 1, BUSIDLE |-> 0]
  BY SMT DEF master_example_400k_config, Board, Profile, FallTime
<1>2. Teensy!scale(config) = 1000000
  BY <1>1, SMT DEF Teensy!scale, Teensy!period, Teensy!Divider
<1>3. Teensy!SCL_LATENCY(config, 0) = 3 /\ Teensy!SCL_LATENCY(config, 330) = 17
  BY <1>1, <1>2, SMT DEF Teensy!SCL_LATENCY, Teensy!period, Teensy!Part,
                         Teensy!time_to_rise_to_teensy_trigger_voltage
<1>4. /\ Teensy!Low(config) = 63000000 /\ Teensy!High(config, 0) = 57000000
      /\ Teensy!High(config, 330) = 71000000 /\ Teensy!Setup(config, 330) = 47000000
  BY <1>1, <1>2, <1>3, SMT DEF Teensy!Low, Teensy!High, Teensy!Setup
<1>5. Teensy!clock_frequency(config).worst_case = 400000
  BY <1>1, <1>4, SMT DEF Teensy!clock_frequency, Teensy!period
<1>6. Teensy!Part(config, 330, 1421) = 22508640
  BY <1>1, SMT DEF Teensy!Part
<1>7. IsBoard(config)
  BY <1>1, <1>4, <1>5, <1>6, SMT DEF IsBoard, IsConfig, RateBound
<1>8. IsSlaveOf(config, SlaveConfig)
  BY <1>1, <1>4, SMT DEF IsSlaveOf, SlaveConfig
<1>. QED BY <1>7, <1>8

\* The calculator's master_example_400k_config_2 is such a board.
LEMMA Board_master_example_400k_config_2 ==
    ASSUME asked = 0, config = master_example_400k_config_2
    PROVE  IsBoard(config) /\ IsSlaveOf(config, SlaveConfig)
<1>1. config =
        [frequency |-> 60, scl_risetime |-> 320, sda_risetime |-> 320, fall_time |-> 8, max_fall |-> 300,
         max_rise |-> 330, PRESCALE |-> 1, CLKHI |-> 31, CLKLO |-> 40, DATAVD |-> 8,
         SETHOLD |-> 17, FILTSDA |-> 2, FILTSCL |-> 2, BUSIDLE |-> 0]
  BY SMT DEF master_example_400k_config_2, Board, Profile, FallTime
<1>2. Teensy!scale(config) = 2000000
  BY <1>1, SMT DEF Teensy!scale, Teensy!period, Teensy!Divider
<1>3. Teensy!SCL_LATENCY(config, 0) = 2 /\ Teensy!SCL_LATENCY(config, 330) = 11
  BY <1>1, <1>2, SMT DEF Teensy!SCL_LATENCY, Teensy!period, Teensy!Part,
                         Teensy!time_to_rise_to_teensy_trigger_voltage
<1>4. /\ Teensy!Low(config) = 82000000 /\ Teensy!High(config, 0) = 68000000
      /\ Teensy!High(config, 330) = 86000000 /\ Teensy!Setup(config, 330) = 58000000
  BY <1>1, <1>2, <1>3, SMT DEF Teensy!Low, Teensy!High, Teensy!Setup
<1>5. Teensy!clock_frequency(config).worst_case = 400000
  BY <1>1, <1>4, SMT DEF Teensy!clock_frequency, Teensy!period
<1>6. Teensy!Part(config, 330, 1421) = 28135800
  BY <1>1, SMT DEF Teensy!Part
<1>7. IsBoard(config)
  BY <1>1, <1>4, <1>5, <1>6, SMT DEF IsBoard, IsConfig, RateBound
<1>8. IsSlaveOf(config, SlaveConfig)
  BY <1>1, <1>4, SMT DEF IsSlaveOf, SlaveConfig
<1>. QED BY <1>7, <1>8

\* The calculator's master_example_1M_config is such a board.
LEMMA Board_master_example_1M_config ==
    ASSUME asked = 0, config = master_example_1M_config
    PROVE  IsBoard(config) /\ IsSlaveOf(config, SlaveConfig)
<1>1. config =
        [frequency |-> 48, scl_risetime |-> 320, sda_risetime |-> 320, fall_time |-> 8, max_fall |-> 120,
         max_rise |-> 132, PRESCALE |-> 2, CLKHI |-> 4, CLKLO |-> 6, DATAVD |-> 4,
         SETHOLD |-> 3, FILTSDA |-> 1, FILTSCL |-> 1, BUSIDLE |-> 0]
  BY SMT DEF master_example_1M_config, Board, Profile, FallTime
<1>2. Teensy!scale(config) = 4000000
  BY <1>1, SMT DEF Teensy!scale, Teensy!period, Teensy!Divider
<1>3. Teensy!SCL_LATENCY(config, 0) = 0 /\ Teensy!SCL_LATENCY(config, 132) = 2
  BY <1>1, <1>2, SMT DEF Teensy!SCL_LATENCY, Teensy!period, Teensy!Part,
                         Teensy!time_to_rise_to_teensy_trigger_voltage
<1>4. /\ Teensy!Low(config) = 28000000 /\ Teensy!High(config, 0) = 20000000
      /\ Teensy!High(config, 132) = 28000000 /\ Teensy!Setup(config, 132) = 24000000
  BY <1>1, <1>2, <1>3, SMT DEF Teensy!Low, Teensy!High, Teensy!Setup
<1>5. Teensy!clock_frequency(config).worst_case = 1000000
  BY <1>1, <1>4, SMT DEF Teensy!clock_frequency, Teensy!period
<1>6. Teensy!Part(config, 132, 1421) = 9003456
  BY <1>1, SMT DEF Teensy!Part
<1>7. IsBoard(config)
  BY <1>1, <1>4, <1>5, <1>6, SMT DEF IsBoard, IsConfig, RateBound
<1>8. IsSlaveOf(config, SlaveConfig)
  BY <1>1, <1>4, SMT DEF IsSlaveOf, SlaveConfig
<1>. QED BY <1>7, <1>8

\* The calculator's master_example_1M_config_2 is such a board.
LEMMA Board_master_example_1M_config_2 ==
    ASSUME asked = 0, config = master_example_1M_config_2
    PROVE  IsBoard(config) /\ IsSlaveOf(config, SlaveConfig)
<1>1. config =
        [frequency |-> 60, scl_risetime |-> 320, sda_risetime |-> 320, fall_time |-> 8, max_fall |-> 120,
         max_rise |-> 132, PRESCALE |-> 1, CLKHI |-> 11, CLKLO |-> 15, DATAVD |-> 1,
         SETHOLD |-> 7, FILTSDA |-> 2, FILTSCL |-> 2, BUSIDLE |-> 0]
  BY SMT DEF master_example_1M_config_2, Board, Profile, FallTime
<1>2. Teensy!scale(config) = 2000000
  BY <1>1, SMT DEF Teensy!scale, Teensy!period, Teensy!Divider
<1>3. Teensy!SCL_LATENCY(config, 0) = 2 /\ Teensy!SCL_LATENCY(config, 132) = 5
  BY <1>1, <1>2, SMT DEF Teensy!SCL_LATENCY, Teensy!period, Teensy!Part,
                         Teensy!time_to_rise_to_teensy_trigger_voltage
<1>4. /\ Teensy!Low(config) = 32000000 /\ Teensy!High(config, 0) = 28000000
      /\ Teensy!High(config, 132) = 34000000 /\ Teensy!Setup(config, 132) = 26000000
  BY <1>1, <1>2, <1>3, SMT DEF Teensy!Low, Teensy!High, Teensy!Setup
<1>5. Teensy!clock_frequency(config).worst_case = 1000000
  BY <1>1, <1>4, SMT DEF Teensy!clock_frequency, Teensy!period
<1>6. Teensy!Part(config, 132, 1421) = 11254320
  BY <1>1, SMT DEF Teensy!Part
<1>7. IsBoard(config)
  BY <1>1, <1>4, <1>5, <1>6, SMT DEF IsBoard, IsConfig, RateBound
<1>8. IsSlaveOf(config, SlaveConfig)
  BY <1>1, <1>4, SMT DEF IsSlaveOf, SlaveConfig
<1>. QED BY <1>7, <1>8

\* So is every example of the calculator.
LEMMA ExampleBoards ==
    ASSUME asked = 0, config \in Examples
    PROVE  IsBoard(config) /\ IsSlaveOf(config, SlaveConfig)
BY Board_master_100k_config, Board_master_400k_config, Board_master_1M_config, Board_master_example_400k_config, Board_master_example_400k_config_2, Board_master_example_1M_config, Board_master_example_1M_config_2 DEF Examples

\* Every trace is drawn for such a board and such a slave.
LEMMA Boards ==
    ASSUME BoardInv
    PROVE  IsBoard(config) /\ IsSlaveOf(config, SlaveConfig)
<1>1. CASE asked = 0
  BY <1>1, TimingAssumption, ExampleBoards DEF BoardInv
<1>2. CASE asked # 0
  BY <1>2, ModeOf, StandardBoards, FastBoards, FastPlusBoards
<1>. QED BY <1>1, <1>2

-----------------------------------------------------------------------------
(* The delays of such a board.                                             *)

\* A whole number of ticks is a whole number of the trace's units.
LEMMA WholeTicks ==
    ASSUME NEW k \in Nat, NEW n \in Nat
    PROVE  /\ (Teensy!period * k) * n = 1000 * (1000 * (k * n))
           /\ Drawn((Teensy!period * k) * n) = 1000 * (k * n)
           /\ k * n \in Nat
<1>. DEFINE m == k * n
<1>1. m \in Nat
  BY SMT
<1>2. (Teensy!period * k) * n = 1000000 * m
  BY SMT DEF Teensy!period
<1>. HIDE DEF m
<1>3. (1000000 * m) \div 1000 = 1000 * m /\ 1000000 * m = 1000 * (1000 * m)
  BY <1>1, SMT
<1>. QED BY <1>1, <1>2, <1>3 DEF Drawn, m

\* An interval of n ticks of the prescaled clock, in both units.
LEMMA Nominal ==
    ASSUME NEW c, IsConfig(c), NEW n \in Nat \ {0}
    PROVE  /\ Drawn(Teensy!scale(c) * n) \in Nat
           /\ Drawn(Teensy!scale(c) * n) >= 1000
           /\ Teensy!scale(c) * n = 1000 * Drawn(Teensy!scale(c) * n)
<1>. DEFINE k == Teensy!Divider[c.PRESCALE + 1]
<1>1. k \in Nat \ {0}
  BY DEF IsConfig, Teensy!Divider
<1>2. k * n \in Nat \ {0}
  <2>. HIDE DEF k
  <2>. QED BY <1>1, SMT
<1>3. Teensy!scale(c) = Teensy!period * k
  BY DEF Teensy!scale
<1>. HIDE DEF k
<1>4. /\ (Teensy!period * k) * n = 1000 * (1000 * (k * n))
      /\ Drawn((Teensy!period * k) * n) = 1000 * (k * n)
  BY <1>1, WholeTicks
<1>. DEFINE m == k * n
<1>. HIDE DEF m
<1>5. m \in Nat \ {0} /\ Teensy!scale(c) * n = 1000 * (1000 * m) /\ Drawn(Teensy!scale(c) * n) = 1000 * m
  BY <1>2, <1>3, <1>4 DEF m
<1>. QED BY <1>5, SMT

\* The ticks SCL's rise takes.
LEMMA LatencyIsNatural ==
    ASSUME NEW c, IsConfig(c), NEW rise \in Nat PROVE Teensy!SCL_LATENCY(c, rise) \in Nat
<1>. DEFINE a == (2 + c.FILTSCL) * Teensy!period + rise * 911 * c.frequency
<1>1. a \in Nat
  <2>1. rise * 911 * c.frequency \in Nat
    BY SMT DEF IsConfig
  <2>. QED BY <2>1 DEF IsConfig, Teensy!period
<1>2. Teensy!SCL_LATENCY(c, rise) = a \div Teensy!scale(c)
  BY DEF Teensy!SCL_LATENCY, Teensy!Part, Teensy!time_to_rise_to_teensy_trigger_voltage
<1>. HIDE DEF a
<1>. QED BY <1>1, <1>2, ScalePositive, Quotient

\* The nominal intervals as the trace draws them.
LEMMA Delays ==
    ASSUME IsBoard(config)
    PROVE  /\ LowDelay \in Nat /\ HighDelay \in Nat /\ SetupDelay \in Nat /\ StartDelay \in Nat
           /\ LowDelay >= 1000 /\ HighDelay >= 1000 /\ SetupDelay >= 1000 /\ StartDelay >= 1000
           /\ Drawn(Teensy!MasterHold(config)) \in Nat /\ Drawn(Teensy!MasterHold(config)) >= 1000
           /\ Teensy!Low(config) = 1000 * LowDelay
           /\ Teensy!High(config, config.scl_risetime) = 1000 * HighDelay
           /\ Teensy!Setup(config, config.scl_risetime) = 1000 * SetupDelay
           /\ Teensy!StartHold(config) = 1000 * StartDelay
           /\ Teensy!MasterHold(config) = 1000 * Drawn(Teensy!MasterHold(config))
<1>. DEFINE l == Teensy!SCL_LATENCY(config, config.scl_risetime)
<1>1. IsConfig(config) /\ l \in Nat /\ config.DATAVD \in Nat
  BY LatencyIsNatural DEF IsBoard
<1>. HIDE DEF l
<1>2. /\ config.CLKLO + 1 \in Nat \ {0} /\ config.CLKHI + 1 + l \in Nat \ {0}
      /\ config.SETHOLD + 1 + l \in Nat \ {0} /\ config.SETHOLD + 1 \in Nat \ {0}
      /\ config.DATAVD + 1 \in Nat \ {0}
  BY <1>1 DEF IsConfig
<1>3. /\ Teensy!Low(config) = Teensy!scale(config) * (config.CLKLO + 1)
      /\ Teensy!High(config, config.scl_risetime) = Teensy!scale(config) * (config.CLKHI + 1 + l)
      /\ Teensy!Setup(config, config.scl_risetime) = Teensy!scale(config) * (config.SETHOLD + 1 + l)
      /\ Teensy!StartHold(config) = Teensy!scale(config) * (config.SETHOLD + 1)
      /\ Teensy!MasterHold(config) = Teensy!scale(config) * (config.DATAVD + 1)
  BY DEF Teensy!Low, Teensy!High, Teensy!Setup, Teensy!StartHold, Teensy!MasterHold, l
<1>4. Teensy!Low(config) = 1000 * LowDelay /\ LowDelay \in Nat /\ LowDelay >= 1000
  BY <1>1, <1>2, <1>3, Nominal DEF LowDelay
<1>5. Teensy!High(config, config.scl_risetime) = 1000 * HighDelay /\ HighDelay \in Nat /\ HighDelay >= 1000
  BY <1>1, <1>2, <1>3, Nominal DEF HighDelay
<1>6. /\ Teensy!Setup(config, config.scl_risetime) = 1000 * SetupDelay
      /\ SetupDelay \in Nat /\ SetupDelay >= 1000
  BY <1>1, <1>2, <1>3, Nominal DEF SetupDelay
<1>7. Teensy!StartHold(config) = 1000 * StartDelay /\ StartDelay \in Nat /\ StartDelay >= 1000
  BY <1>1, <1>2, <1>3, Nominal DEF StartDelay
<1>8. /\ Teensy!MasterHold(config) = 1000 * Drawn(Teensy!MasterHold(config))
      /\ Drawn(Teensy!MasterHold(config)) \in Nat /\ Drawn(Teensy!MasterHold(config)) >= 1000
  BY <1>1, <1>2, <1>3, Nominal
<1>. QED BY <1>4, <1>5, <1>6, <1>7, <1>8

\* Less of the same ticks is less.
LEMMA TicksOrder ==
    ASSUME NEW c, IsConfig(c), NEW m \in Nat, NEW n \in Nat
    PROVE  /\ m < n => Teensy!scale(c) * m < Teensy!scale(c) * n
           /\ m <= n => Teensy!scale(c) * m <= Teensy!scale(c) * n
           /\ Teensy!scale(c) * m \in Nat /\ Teensy!scale(c) * n \in Nat
           /\ Teensy!scale(c) * (m + n) = Teensy!scale(c) * m + Teensy!scale(c) * n
<1>. DEFINE d == Teensy!scale(c)
<1>1. d \in Nat \ {0}
  BY ScalePositive
<1>. HIDE DEF d
<1>2. d * m \in Nat /\ d * n \in Nat /\ d * (m + n) = d * m + d * n
  BY <1>1, SMT
<1>3. ASSUME m <= n PROVE d * m <= d * n
  <2>1. n - m \in Nat /\ d * (n - m) \in Nat
    BY <1>1, <1>3, SMT
  <2>2. d * n = d * m + d * (n - m)
    BY <1>1, <1>3, SMT
  <2>. QED BY <1>2, <2>1, <2>2, SMT
<1>4. ASSUME m < n PROVE d * m < d * n
  <2>1. n - m \in Nat \ {0}
    BY <1>4, SMT
  <2>2. d * (n - m) \in Nat \ {0}
    BY <1>1, <2>1, SMT
  <2>3. d * n = d * m + d * (n - m)
    BY <1>1, <1>4, SMT
  <2>. QED BY <1>2, <2>2, <2>3, SMT
<1>. QED BY <1>2, <1>3, <1>4 DEF d

\* A condition takes longer than a pulse.
LEMMA ConditionDelays ==
    ASSUME IsBoard(config) PROVE HighDelay <= SetupDelay + StartDelay
<1>. DEFINE l == Teensy!SCL_LATENCY(config, config.scl_risetime)
            h == config.CLKHI + 1 + l
            s == config.SETHOLD + 1 + l
            t == config.SETHOLD + 1
<1>1. IsConfig(config) /\ l \in Nat
  BY LatencyIsNatural DEF IsBoard
<1>2. h \in Nat /\ s \in Nat /\ t \in Nat /\ s + t \in Nat /\ h <= s + t
  <2>. HIDE DEF l
  <2>. QED BY <1>1 DEF IsBoard, IsConfig
<1>3. /\ 1000 * HighDelay = Teensy!scale(config) * h
      /\ 1000 * SetupDelay = Teensy!scale(config) * s
      /\ 1000 * StartDelay = Teensy!scale(config) * t
  BY Delays DEF Teensy!High, Teensy!Setup, Teensy!StartHold
<1>. HIDE DEF l, h, s, t
<1>4. /\ Teensy!scale(config) * h <= Teensy!scale(config) * (s + t)
      /\ Teensy!scale(config) * (s + t) = Teensy!scale(config) * s + Teensy!scale(config) * t
  BY <1>1, <1>2, TicksOrder
<1>5. 1000 * HighDelay <= 1000 * SetupDelay + 1000 * StartDelay
  BY <1>3, <1>4
<1>. QED BY <1>5, Delays, SMT

\* The time the bus is left free, to a unit of the trace.
LEMMA FreeDelays ==
    ASSUME IsBoard(config)
    PROVE  /\ Teensy!BusFree(config, config.sda_risetime) \in Nat
           /\ FreeDelay \in Nat \ {0}
           /\ 1000 * FreeDelay <= Teensy!BusFree(config, config.sda_risetime)
           /\ Teensy!BusFree(config, config.sda_risetime) < 1000 * FreeDelay + 1000
<1>. DEFINE f == config.frequency
            k == IF config.BUSIDLE > 1 THEN config.BUSIDLE + 1 ELSE 2
            t == Teensy!BusFree(config, config.sda_risetime)
            over == config.sda_risetime > 1000
            e == IF over THEN Teensy!Part(config, config.sda_risetime - 1000, 1421) ELSE 0
            n == IF over THEN config.CLKLO + 2 ELSE config.CLKLO + 1 + k
<1>1. IsConfig(config) /\ f \in {24, 48, 60} /\ config.sda_risetime \in Nat /\ config.BUSIDLE \in Nat
  BY DEF IsBoard
<1>2. n \in Nat /\ e \in Nat
  BY <1>1 DEF Teensy!Part, IsConfig
<1>. HIDE DEF n, e
<1>3. \A i \in Nat : Teensy!scale(config) * i \in Nat
  BY <1>1, TicksOrder
<1>4. Teensy!scale(config) * n \in Nat
  BY <1>2, <1>3
<1>5. t = 1000000 * f + (Teensy!scale(config) * n + e)
  <2>1. t = 1000000 * f + (IF over THEN Teensy!scale(config) * (config.CLKLO + 2)
                                          + Teensy!Part(config, config.sda_risetime - 1000, 1421)
                           ELSE Teensy!scale(config) * (config.CLKLO + 1 + k))
    BY <1>1 DEF Teensy!BusFree, Teensy!Nanos, Teensy!time_to_rise_to_0_7_vdd
  <2>. QED BY <1>4, <2>1 DEF n, e
<1>. HIDE DEF k, over
<1>6. t \in Nat /\ t >= 1000
  BY <1>1, <1>2, <1>4, <1>5
<1>7. FreeDelay = t \div 1000
  BY DEF FreeDelay, Drawn
<1>. HIDE DEF t
<1>8. FreeDelay \in Nat \ {0} /\ 1000 * FreeDelay <= t /\ t < 1000 * FreeDelay + 1000
  BY <1>6, <1>7, SMT
<1>. QED BY <1>6, <1>8 DEF t

\* When the slave sets its bit.
LEMMA SlaveDelays ==
    ASSUME IsBoard(config), IsSlaveOf(config, SlaveConfig)
    PROVE  /\ Drawn(Teensy!SlaveHold(SlaveConfig)) \in Nat
           /\ Drawn(Teensy!SlaveHold(SlaveConfig)) >= 1000
           /\ Teensy!SlaveHold(SlaveConfig) = 1000 * Drawn(Teensy!SlaveHold(SlaveConfig))
           /\ LineTime(config.fall_time, 911) \in 0..999
           /\ LineTime(config.fall_time, 911) + Drawn(Teensy!SlaveHold(SlaveConfig)) < LowDelay
<1>. DEFINE n == SlaveConfig.FILTSCL + SlaveConfig.DATAVD + 3
<1>1. n \in Nat \ {0}
  BY DEF IsSlaveOf
<1>2. Teensy!SlaveHold(SlaveConfig) = 1000000 * n
  BY DEF Teensy!SlaveHold, Teensy!period
<1>3. 1000 * (n + 1) < LowDelay
  BY DEF IsSlaveOf, LowDelay, Drawn
<1>. HIDE DEF n
<1>4. Drawn(Teensy!SlaveHold(SlaveConfig)) = 1000 * n
  BY <1>1, <1>2, SMT DEF Drawn
<1>5. LineTime(config.fall_time, 911) \in 0..999
  BY SMT DEF LineTime, IsBoard
<1>6. LowDelay \in Nat
  BY Delays
<1>. QED BY <1>1, <1>2, <1>3, <1>4, <1>5, <1>6, SMT

\* On such a board time passes between two edges, and a bit is set before SCL rises.
LEMMA DelaysAreInOrder ==
    ASSUME IsBoard(config), IsSlaveOf(config, SlaveConfig)
    PROVE  DelaysInOrder /\ LinesTyped
<1>1. BitDelay("master") \in 1..LowDelay - 1
  <2>1. /\ 1000 * Drawn(Teensy!MasterHold(config)) = Teensy!scale(config) * (config.DATAVD + 1)
        /\ 1000 * LowDelay = Teensy!scale(config) * (config.CLKLO + 1)
    BY Delays DEF Teensy!MasterHold, Teensy!Low
  <2>2. /\ IsConfig(config) /\ config.DATAVD + 1 \in Nat /\ config.CLKLO + 1 \in Nat
        /\ config.DATAVD + 1 < config.CLKLO + 1
    BY DEF IsBoard, IsConfig
  <2>3. Teensy!scale(config) * (config.DATAVD + 1) < Teensy!scale(config) * (config.CLKLO + 1)
    BY <2>2, TicksOrder
  <2>4. 1000 * Drawn(Teensy!MasterHold(config)) < 1000 * LowDelay
    BY <2>1, <2>3
  <2>. QED BY <2>4, Delays, SMT DEF BitDelay
<1>2. BitDelay("slave") \in 1..LowDelay - 1
  BY SlaveDelays, Delays, SMT DEF BitDelay
<1>3. \A device \in Devices : BitDelay(device) \in 1..LowDelay - 1
  BY <1>1, <1>2 DEF Devices
<1>4. /\ LowDelay \in Nat \ {0} /\ HighDelay \in Nat \ {0} /\ SetupDelay \in Nat \ {0}
      /\ StartDelay \in Nat \ {0}
  BY Delays, SMT
<1>5. LineTime(config.fall_time, 911) \in Nat
  BY SlaveDelays, SMT
<1>6. LinesTyped
  BY SMT DEF LinesTyped, IsBoard, IsConfig
<1>. QED BY <1>3, <1>4, <1>5, <1>6, FreeDelays, SlaveDelays DEF DelaysInOrder

-----------------------------------------------------------------------------
(* Every trace has the shape, and nothing else is measured on it.          *)

\* An empty trace has that shape.
LEMMA InitShape == Init => TraceInv /\ BoardInv
<1>. SUFFICES ASSUME Init PROVE TraceInv /\ BoardInv
  OBVIOUS
<1>1. BoardInv
  BY Zenon DEF Init, InitDriver, InitExample, BoardInv, DriverBoard
<1>2. DelaysInOrder
  BY <1>1, Boards, DelaysAreInOrder
<1>3. /\ scl = [rise_time |-> config.scl_risetime, fall_time |-> config.fall_time, edges |-> <<>>]
      /\ sda = [rise_time |-> config.sda_risetime, fall_time |-> config.fall_time, edges |-> <<>>]
      /\ phase = "free" /\ driver = "master"
  BY DEF Init, I2CLine
<1>4. Edges(scl) = {} /\ Edges(sda) = {} /\ Len(scl.edges) = 0 /\ Len(sda.edges) = 0
  BY <1>3 DEF Edges
<1>5. LinesOK
  BY <1>3 DEF LinesOK, Devices
<1>6. Alternate /\ InOrder /\ SclSpacing /\ SdaPlaced
  BY <1>4 DEF Alternate, InOrder, SclSpacing, SdaPlaced
<1>7. AtPhase
  BY <1>3, <1>4 DEF AtPhase, Odd
<1>. QED BY <1>1, <1>2, <1>5, <1>6, <1>7 DEF TraceInv

\* No step changes the board.
LEMMA BoardStays == ASSUME BoardInv, [Next]_vars PROVE BoardInv'
<1>1. asked' = asked /\ config' = config
  BY Zenon DEF Next, vars, Start, RepeatedStart, Stop, ClockFalls, ClockRises, SetBit
<1>. QED BY <1>1, Zenon DEF BoardInv, DriverBoard

\* The edges of a trace are where the nominal intervals put them, whatever is sent: the
\* lines fall and rise in turn, each pulse of SCL is as long as config says, and every
\* edge of SDA is a bit of its device in the low time, or a condition in the high time.
THEOREM TraceIsInv == Spec => [](TraceInv /\ BoardInv)
<1>1. TraceInv /\ BoardInv /\ [Next]_vars => (TraceInv /\ BoardInv)'
  BY NextShape, BoardStays
<1>. QED BY InitShape, <1>1, PTL DEF Spec

\* So an interval the design plots measure is one of a dozen, that depend on the board
\* alone and not on the message.
MeasuresForms ==
    /\ ClockIntervals \subseteq ClockForms /\ ConditionIntervals \subseteq ConditionForms
    /\ \A x \in BitIntervals : \E device \in Devices, falling \in BOOLEAN : x \in BitForms(device, falling)
    /\ Periods \subseteq PeriodForms

\* The trace invariant makes every interval one of the forms.
LEMMA FormsAre == ASSUME TraceInv, BoardInv PROVE MeasuresForms
<1>1. LinesTyped
  BY Boards, DelaysAreInOrder
<1>. QED BY <1>1, ClockIntervalsAre, ConditionIntervalsAre, BitIntervalsAre, PeriodsAre DEF MeasuresForms

\* On every trace the intervals of low_time(), high_time(), the setup, hold and bus-free
\* times and the data times of make_timing_design_plots.py are those, whatever is sent.
THEOREM MeasuresOnlyForms == Spec => []MeasuresForms
BY TraceIsInv, FormsAre, PTL

-----------------------------------------------------------------------------
(* The calculator agrees with the trace.                                   *)

\* int() loses less than 1 ns, towards zero.
LEMMA Truncation ==
    ASSUME NEW c, NEW f \in Nat \ {0}, c.frequency = f, NEW t \in Int,
           NEW k, k = Teensy!Truncated(c, t)
    PROVE  /\ k \in Int /\ k * f \in Int
           /\ t - 1000 * f < 1000 * (k * f) /\ 1000 * (k * f) < t + 1000 * f
           /\ t >= 0 => 1000 * (k * f) <= t
<1>. DEFINE d == 1000 * f
<1>1. d \in Nat \ {0}
  BY SMT
<1>2. k = IF t >= 0 THEN t \div d ELSE -((-t) \div d)
  BY DEF Teensy!Truncated
<1>3. d = 1000 * f
  OBVIOUS
<1>. HIDE DEF d
<1>4. CASE t >= 0
  <2>. DEFINE n == t \div d
  <2>1. k = n /\ t \in Nat
    BY <1>2, <1>4
  <2>2. n \in Nat /\ d * n <= t /\ t < d * n + d
    BY <1>1, <2>1, Quotient
  <2>. HIDE DEF n
  <2>3. d * n = 1000 * (n * f) /\ n * f \in Int
    BY <1>3, <2>2, SMT
  <2>4. n \in Int /\ 1000 * (n * f) <= t /\ t < 1000 * (n * f) + 1000 * f
    BY <1>3, <2>2, <2>3
  <2>. DEFINE p == n * f
  <2>. HIDE DEF p
  <2>5. t - 1000 * f < 1000 * p /\ 1000 * p < t + 1000 * f /\ 1000 * p <= t
    BY <2>3, <2>4, SMT DEF p
  <2>. QED BY <2>1, <2>3, <2>4, <2>5 DEF p
<1>5. CASE t < 0
  <2>. DEFINE n == (-t) \div d
  <2>1. k = -n /\ -t \in Nat
    BY <1>2, <1>5
  <2>2. n \in Nat /\ d * n <= -t /\ -t < d * n + d
    BY <1>1, <2>1, Quotient
  <2>. HIDE DEF n
  <2>3. d * n = 1000 * (n * f) /\ n * f \in Int /\ (-n) * f = -(n * f)
    BY <1>3, <2>2, SMT
  <2>. DEFINE p == n * f
  <2>4. p \in Int /\ 1000 * p <= -t /\ -t < 1000 * p + 1000 * f /\ (-n) * f = -p
    BY <1>3, <2>2, <2>3
  <2>. HIDE DEF p
  <2>5. t - 1000 * f < 1000 * (-p) /\ 1000 * (-p) < t + 1000 * f
    BY <1>5, <2>4, SMT
  <2>. QED BY <1>5, <2>1, <2>2, <2>4, <2>5
<1>. QED BY <1>4, <1>5

\* The trace rounds down what a line adds to an edge, which the calculator does not.
LEMMA LineTimes ==
    ASSUME IsBoard(config), NEW t \in Nat, NEW k \in Nat
    PROVE  /\ Teensy!Part(config, t, k) \in Nat /\ LineTime(t, k) \in Nat
           /\ 1000 * LineTime(t, k) <= Teensy!Part(config, t, k)
           /\ Teensy!Part(config, t, k) < 1000 * LineTime(t, k) + 1000
<1>. DEFINE p == t * k * config.frequency
<1>1. config.frequency \in Nat
  BY DEF IsBoard
<1>2. p \in Nat /\ t * config.frequency * k = p
  BY <1>1, SMT
<1>3. LineTime(t, k) = p \div 1000 /\ Teensy!Part(config, t, k) = p
  BY <1>2 DEF LineTime, Teensy!Part
<1>. HIDE DEF p
<1>. QED BY <1>2, <1>3, SMT

\* What differs from the calculator by no more than 1 ns before it is truncated agrees.
Close(time, t) ==
    /\ 1000 * time - t >= -(1000 * config.frequency)
    /\ 1000 * time - t <= 1000 * config.frequency

\* The calculator's whole nanoseconds against a measured time: within 2 ns.
Agree(time, ns) ==
    /\ time - ns * config.frequency \in Int
    /\ time - ns * config.frequency >= -(2 * config.frequency)
    /\ time - ns * config.frequency <= 2 * config.frequency

\* Of three numbers each close to the next.
LEMMA CloseNumbers ==
    ASSUME NEW f \in Nat, NEW time \in Int, NEW t \in Int, NEW p \in Int,
           t - 1000 * f < 1000 * p, 1000 * p < t + 1000 * f,
           1000 * time - t >= -(1000 * f), 1000 * time - t <= 1000 * f
    PROVE  time - p >= -(2 * f) /\ time - p <= 2 * f
BY SMT

\* An exact time close to the measured one agrees with it once truncated.
LEMMA CloseAgree ==
    ASSUME IsBoard(config), NEW c, c.frequency = config.frequency,
           NEW time \in Int, NEW t \in Int, Close(time, t)
    PROVE  Agree(time, Teensy!Truncated(c, t))
<1>. DEFINE f == config.frequency
            n == Teensy!Truncated(c, t)
            p == n * f
<1>1. f \in Nat \ {0} /\ c.frequency = f
  BY DEF IsBoard
<1>. HIDE DEF f
<1>2. p \in Int /\ t - 1000 * f < 1000 * p /\ 1000 * p < t + 1000 * f
  BY <1>1, Truncation
<1>3. 1000 * time - t >= -(1000 * f) /\ 1000 * time - t <= 1000 * f
  BY DEF Close, f
<1>. HIDE DEF p
<1>4. time - p >= -(2 * f) /\ time - p <= 2 * f /\ time - p \in Int
  BY <1>1, <1>2, <1>3, CloseNumbers
<1>. QED BY <1>4, Zenon DEF Agree, f, p, n

\* The same of the difference of two intervals that are truncated apart.
LEMMA CloseDifference ==
    ASSUME IsBoard(config), NEW c, c.frequency = config.frequency,
           NEW time \in Int, NEW t \in Nat, NEW u \in Nat, Close(time, t - u)
    PROVE  Agree(time, Teensy!Truncated(c, t) - Teensy!Truncated(c, u))
<1>. DEFINE f == config.frequency
            m == Teensy!Truncated(c, t)
            n == Teensy!Truncated(c, u)
            p == m * f
            q == n * f
<1>1. f \in Nat \ {0} /\ c.frequency = f /\ t \in Int /\ u \in Int /\ t >= 0 /\ u >= 0
  BY DEF IsBoard
<1>. HIDE DEF f
<1>2. m \in Int /\ p \in Int /\ t - 1000 * f < 1000 * p /\ 1000 * p <= t
  BY <1>1, Truncation, SMTT(30)
<1>3. n \in Int /\ q \in Int /\ u - 1000 * f < 1000 * q /\ 1000 * q <= u
  BY <1>1, Truncation, SMTT(30)
<1>4. 1000 * time - (t - u) >= -(1000 * f) /\ 1000 * time - (t - u) <= 1000 * f
  BY DEF Close, f
<1>. HIDE DEF m, n
<1>5. (m - n) * f = p - q
  BY <1>1, <1>2, <1>3, SMT
<1>. HIDE DEF p, q
<1>6. /\ p - q \in Int /\ t - u \in Int
      /\ (t - u) - 1000 * f < 1000 * (p - q) /\ 1000 * (p - q) < (t - u) + 1000 * f
  BY <1>1, <1>2, <1>3, SMT
<1>7. time - (p - q) >= -(2 * f) /\ time - (p - q) <= 2 * f /\ time - (p - q) \in Int
  BY <1>1, <1>4, <1>6, CloseNumbers
<1>. QED BY <1>5, <1>7, Zenon DEF Agree, f, m, n

\* Whole nanoseconds on both sides change nothing.
LEMMA AgreeMoved ==
    ASSUME IsBoard(config), NEW time \in Int, NEW ns \in Int, NEW edge \in Int,
           Agree(time - edge * config.frequency, ns)
    PROVE  Agree(time, ns + edge)
<1>1. config.frequency \in {24, 48, 60}
  BY DEF IsBoard
<1>2. CASE config.frequency = 24
  BY <1>2, SMT DEF Agree
<1>3. CASE config.frequency = 48
  BY <1>3, SMT DEF Agree
<1>4. CASE config.frequency = 60
  BY <1>4, SMT DEF Agree
<1>. QED BY <1>1, <1>2, <1>3, <1>4

\* To 30 % and to 70 %.
LEMMA BoardTimes ==
    ASSUME IsBoard(config), NEW t \in Nat
    PROVE  /\ /\ Teensy!Part(config, t, 421) \in Nat /\ LineTime(t, 421) \in Nat
              /\ 1000 * LineTime(t, 421) <= Teensy!Part(config, t, 421)
              /\ Teensy!Part(config, t, 421) < 1000 * LineTime(t, 421) + 1000
           /\ /\ Teensy!Part(config, t, 1421) \in Nat /\ LineTime(t, 1421) \in Nat
              /\ 1000 * LineTime(t, 1421) <= Teensy!Part(config, t, 1421)
              /\ Teensy!Part(config, t, 1421) < 1000 * LineTime(t, 1421) + 1000
<1>1. 421 \in Nat /\ 1421 \in Nat
  OBVIOUS
<1>2. /\ Teensy!Part(config, t, 421) \in Nat /\ LineTime(t, 421) \in Nat
      /\ 1000 * LineTime(t, 421) <= Teensy!Part(config, t, 421)
      /\ Teensy!Part(config, t, 421) < 1000 * LineTime(t, 421) + 1000
  BY <1>1, LineTimes
<1>3. /\ Teensy!Part(config, t, 1421) \in Nat /\ LineTime(t, 1421) \in Nat
      /\ 1000 * LineTime(t, 1421) <= Teensy!Part(config, t, 1421)
      /\ Teensy!Part(config, t, 1421) < 1000 * LineTime(t, 1421) + 1000
  BY <1>1, LineTimes
<1>. QED BY <1>2, <1>3

\* A nominal interval that starts when an edge has passed one of the voltages and ends when
\* another edge does.
LEMMA NominalAgrees ==
    ASSUME IsBoard(config), NEW nominal \in Int, NEW delay \in Int,
           1000 * delay <= nominal, nominal < 1000 * delay + 1000,
           NEW t \in Nat, NEW u \in Nat
    PROVE  Agree(delay + LineTime(t, 421) - LineTime(u, 1421),
                 Teensy!Truncated(config, nominal - Teensy!Part(config, u, 1421)
                                            + Teensy!Part(config, t, 421)))
<1>. DEFINE p == Teensy!Part(config, t, 421)
            q == Teensy!Part(config, u, 1421)
            x == LineTime(t, 421)
            y == LineTime(u, 1421)
            f == config.frequency
<1>1. f \in Nat /\ f >= 24
  BY DEF IsBoard
<1>2. p \in Nat /\ x \in Nat /\ 1000 * x <= p /\ p < 1000 * x + 1000
  BY BoardTimes
<1>3. q \in Nat /\ y \in Nat /\ 1000 * y <= q /\ q < 1000 * y + 1000
  BY BoardTimes
<1>. HIDE DEF p, q, x, y, f
<1>4. /\ delay + x - y \in Int /\ nominal + p - q \in Int
      /\ 1000 * (delay + x - y) - (nominal + p - q) >= -(1000 * f)
      /\ 1000 * (delay + x - y) - (nominal + p - q) <= 1000 * f
  BY <1>1, <1>2, <1>3, SMT
<1>5. Close(delay + x - y, nominal + p - q)
  BY <1>4 DEF Close, f
<1>6. Agree(delay + x - y, Teensy!Truncated(config, nominal + p - q))
  <2>. DEFINE time == delay + x - y
              total == nominal + p - q
  <2>1. time \in Int /\ total \in Int /\ Close(time, total)
    BY <1>4, <1>5
  <2>. HIDE DEF time, total
  <2>2. Agree(time, Teensy!Truncated(config, total))
    BY <2>1, CloseAgree
  <2>. QED BY <2>2 DEF time, total
<1>7. nominal + p - q = nominal - q + p
  BY <1>2, <1>3
<1>. QED BY <1>6, <1>7 DEF p, q, x, y

\* The calculator agrees on the intervals of the clock and of START and STOP.
LEMMA ClockAgrees ==
    ASSUME IsBoard(config), NEW m \in ClockForms \cup ConditionForms
    PROVE  Agree(m.time, m.calculated.i2c_value)
<1>0. config.fall_time \in Nat /\ config.scl_risetime \in Nat /\ config.sda_risetime \in Nat
  BY DEF IsBoard
<1>1. CASE m = Interval("scl_low_time", LowDelay + LineTime(config.scl_risetime, 421)
                        - LineTime(config.fall_time, 1421), Teensy!clock_low(config))
  <2>. DEFINE n == Teensy!Low(config)
  <2>1. n \in Int /\ LowDelay \in Int /\ 1000 * LowDelay <= n /\ n < 1000 * LowDelay + 1000
    BY Delays, SMT
  <2>2. m.time = LowDelay + LineTime(config.scl_risetime, 421) - LineTime(config.fall_time, 1421)
    BY <1>1 DEF Interval
  <2>3. m.calculated.i2c_value
          = Teensy!Truncated(config, n - Teensy!Part(config, config.fall_time, 1421)
                                       + Teensy!Part(config, config.scl_risetime, 421))
    BY <1>1 DEF Interval, Teensy!clock_low, Teensy!Parameter, Teensy!time_to_fall_to_0_3_vdd, Teensy!time_to_rise_to_0_7_vdd, Teensy!time_to_rise_to_0_3_vdd
  <2>. HIDE DEF n
  <2>. QED BY <1>0, <2>1, <2>2, <2>3, NominalAgrees
<1>2. CASE m = Interval("scl_high_time", HighDelay + LineTime(config.fall_time, 421)
                        - LineTime(config.scl_risetime, 1421), Teensy!clock_high(config))
  <2>. DEFINE n == Teensy!High(config, config.scl_risetime)
  <2>1. n \in Int /\ HighDelay \in Int /\ 1000 * HighDelay <= n /\ n < 1000 * HighDelay + 1000
    BY Delays, SMT
  <2>2. m.time = HighDelay + LineTime(config.fall_time, 421) - LineTime(config.scl_risetime, 1421)
    BY <1>2 DEF Interval
  <2>3. m.calculated.i2c_value
          = Teensy!Truncated(config, n - Teensy!Part(config, config.scl_risetime, 1421)
                                       + Teensy!Part(config, config.fall_time, 421))
    BY <1>2 DEF Interval, Teensy!clock_high, Teensy!Parameter, Teensy!RiseToFall, Teensy!time_to_rise_to_0_7_vdd, Teensy!time_to_fall_to_0_7_vdd, Teensy!time_to_rise_to_0_3_vdd
  <2>. HIDE DEF n
  <2>. QED BY <1>0, <2>1, <2>2, <2>3, NominalAgrees
<1>3. CASE m = Interval("start_setup_time", SetupDelay + LineTime(config.fall_time, 421)
                        - LineTime(config.scl_risetime, 1421), Teensy!setup_repeated_start(config))
  <2>. DEFINE n == Teensy!Setup(config, config.scl_risetime)
  <2>1. n \in Int /\ SetupDelay \in Int /\ 1000 * SetupDelay <= n /\ n < 1000 * SetupDelay + 1000
    BY Delays, SMT
  <2>2. m.time = SetupDelay + LineTime(config.fall_time, 421) - LineTime(config.scl_risetime, 1421)
    BY <1>3 DEF Interval
  <2>3. m.calculated.i2c_value
          = Teensy!Truncated(config, n - Teensy!Part(config, config.scl_risetime, 1421)
                                       + Teensy!Part(config, config.fall_time, 421))
    BY <1>3 DEF Interval, Teensy!setup_repeated_start, Teensy!Parameter, Teensy!RiseToFall, Teensy!time_to_rise_to_0_7_vdd, Teensy!time_to_fall_to_0_7_vdd, Teensy!time_to_rise_to_0_3_vdd
  <2>. HIDE DEF n
  <2>. QED BY <1>0, <2>1, <2>2, <2>3, NominalAgrees
<1>4. CASE m = Interval("start_hold_time", StartDelay + LineTime(config.fall_time, 421)
                        - LineTime(config.fall_time, 1421), Teensy!start_hold(config))
  <2>. DEFINE n == Teensy!StartHold(config)
  <2>1. n \in Int /\ StartDelay \in Int /\ 1000 * StartDelay <= n /\ n < 1000 * StartDelay + 1000
    BY Delays, SMT
  <2>2. m.time = StartDelay + LineTime(config.fall_time, 421) - LineTime(config.fall_time, 1421)
    BY <1>4 DEF Interval
  <2>3. m.calculated.i2c_value
          = Teensy!Truncated(config, n - Teensy!Part(config, config.fall_time, 1421)
                                       + Teensy!Part(config, config.fall_time, 421))
    BY <1>4 DEF Interval, Teensy!start_hold, Teensy!Parameter, Teensy!time_to_rise_to_0_7_vdd, Teensy!time_to_rise_to_0_3_vdd
  <2>. HIDE DEF n
  <2>. QED BY <1>0, <2>1, <2>2, <2>3, NominalAgrees
<1>5. CASE m = Interval("stop_setup_time", SetupDelay + LineTime(config.sda_risetime, 421)
                        - LineTime(config.scl_risetime, 1421), Teensy!stop_setup(config))
  <2>. DEFINE n == Teensy!Setup(config, config.scl_risetime)
  <2>1. n \in Int /\ SetupDelay \in Int /\ 1000 * SetupDelay <= n /\ n < 1000 * SetupDelay + 1000
    BY Delays, SMT
  <2>2. m.time = SetupDelay + LineTime(config.sda_risetime, 421) - LineTime(config.scl_risetime, 1421)
    BY <1>5 DEF Interval
  <2>3. m.calculated.i2c_value
          = Teensy!Truncated(config, n - Teensy!Part(config, config.scl_risetime, 1421)
                                       + Teensy!Part(config, config.sda_risetime, 421))
    BY <1>5 DEF Interval, Teensy!stop_setup, Teensy!Parameter, Teensy!time_to_rise_to_0_7_vdd, Teensy!time_to_rise_to_0_3_vdd
  <2>. HIDE DEF n
  <2>. QED BY <1>0, <2>1, <2>2, <2>3, NominalAgrees
<1>6. CASE m = Interval("bus_free_time", FreeDelay + LineTime(config.fall_time, 421)
                        - LineTime(config.sda_risetime, 1421), Teensy!bus_free(config))
  <2>. DEFINE n == Teensy!BusFree(config, config.sda_risetime)
  <2>1. n \in Int /\ FreeDelay \in Int /\ 1000 * FreeDelay <= n /\ n < 1000 * FreeDelay + 1000
    BY FreeDelays, SMT
  <2>2. m.time = FreeDelay + LineTime(config.fall_time, 421) - LineTime(config.sda_risetime, 1421)
    BY <1>6 DEF Interval
  <2>3. m.calculated.i2c_value
          = Teensy!Truncated(config, n - Teensy!Part(config, config.sda_risetime, 1421)
                                       + Teensy!Part(config, config.fall_time, 421))
    BY <1>6 DEF Interval, Teensy!bus_free, Teensy!Parameter, Teensy!RiseToFall, Teensy!time_to_rise_to_0_7_vdd, Teensy!time_to_fall_to_0_7_vdd, Teensy!time_to_rise_to_0_3_vdd
  <2>. HIDE DEF n
  <2>. QED BY <1>0, <2>1, <2>2, <2>3, NominalAgrees
<1>. QED BY <1>1, <1>2, <1>3, <1>4, <1>5, <1>6 DEF ClockForms, ConditionForms

\* From where SCL has fallen to where the bit begins to change, in the calculator's unit.
HoldOf(device, falling) ==
    (IF device = "master" THEN Teensy!MasterHold(config) - Teensy!Part(config, config.fall_time, 1421)
     ELSE Teensy!SlaveHold(SlaveConfig) - Teensy!Part(config, config.fall_time, 603))
    + Teensy!Part(config, BitTime(falling), 421)

\* The exact low time of a board.
LowOf ==
    Teensy!Low(config) - Teensy!Part(config, config.fall_time, 1421)
      + Teensy!Part(config, config.scl_risetime, 421)

\* What the calculator makes of a bit, in the exact unit.
LEMMA CalculatedBits ==
    ASSUME IsBoard(config), IsSlaveOf(config, SlaveConfig), NEW device \in Devices,
           NEW falling \in BOOLEAN
    PROVE  LET c == ConfigOf(device)
               master == device = "master"
               hold == Teensy!Truncated(c, HoldOf(device, falling))
           IN /\ Teensy!data_hold(c, master, falling).i2c_value = hold
              /\ Teensy!data_valid(c, master, falling).i2c_value = hold + BitTime(falling)
              /\ Teensy!data_setup(c, master, falling).i2c_value
                   = Teensy!Truncated(c, LowOf) - (hold + BitTime(falling))
<1>. DEFINE c == ConfigOf(device)
            master == device = "master"
            hold == Teensy!Truncated(c, HoldOf(device, falling))
            e == IF falling THEN c.fall_time ELSE c.sda_risetime
<1>1. /\ c.frequency = config.frequency /\ c.fall_time = config.fall_time
      /\ c.sda_risetime = config.sda_risetime /\ c.scl_risetime = config.scl_risetime
      /\ c.PRESCALE = config.PRESCALE /\ c.CLKLO = config.CLKLO
      /\ device = "master" => c = config
      /\ device = "slave" => c = SlaveConfig
  BY DEF ConfigOf, IsSlaveOf, Devices
<1>. HIDE DEF c
<1>2. e = BitTime(falling)
  BY <1>1 DEF BitTime
<1>3. \A t, k : Teensy!Part(c, t, k) = Teensy!Part(config, t, k)
  BY <1>1 DEF Teensy!Part
<1>4. Teensy!Low(c) = Teensy!Low(config)
  BY <1>1 DEF Teensy!Low, Teensy!scale
<1>5. Teensy!data_hold(c, master, falling).i2c_value = hold
  <2>. DEFINE begin == IF falling THEN Teensy!Part(c, c.fall_time, 421)
                       ELSE Teensy!Part(c, c.sda_risetime, 421)
  <2>1. Teensy!data_hold(c, master, falling).i2c_value
          = IF master THEN Teensy!Truncated(c, Teensy!MasterHold(c) - Teensy!Part(c, c.fall_time, 1421) + begin)
            ELSE Teensy!Truncated(c, Teensy!SlaveHold(c) - Teensy!Part(c, c.fall_time, 603) + begin)
    BY DEF Teensy!data_hold, Teensy!Parameter, Teensy!time_to_fall_to_0_7_vdd,
           Teensy!time_to_fall_to_0_3_vdd, Teensy!time_to_rise_to_0_7_vdd,
           Teensy!time_to_rise_to_0_3_vdd, Teensy!time_to_fall_from_trigger_to_0_3_vdd
  <2>2. begin = Teensy!Part(config, BitTime(falling), 421)
    BY <1>1, <1>3 DEF BitTime
  <2>3. Teensy!Part(c, c.fall_time, 1421) = Teensy!Part(config, config.fall_time, 1421)
    BY <1>1, <1>3
  <2>4. Teensy!Part(c, c.fall_time, 603) = Teensy!Part(config, config.fall_time, 603)
    BY <1>1, <1>3
  <2>. HIDE DEF begin
  <2>5. CASE device = "master"
    BY <1>1, <2>1, <2>2, <2>3, <2>5 DEF HoldOf
  <2>6. CASE device = "slave"
    BY <1>1, <2>1, <2>2, <2>4, <2>6 DEF HoldOf
  <2>. QED BY <2>5, <2>6 DEF Devices
<1>6. Teensy!data_valid(c, master, falling).i2c_value = hold + BitTime(falling)
  <2>1. \E x, y, z : Teensy!data_hold(c, master, falling) = [i2c_value |-> x, nominal |-> y, worst_case |-> z]
    BY Zenon DEF Teensy!data_hold, Teensy!Parameter
  <2>2. Teensy!data_valid(c, master, falling).i2c_value
          = Teensy!data_hold(c, master, falling).i2c_value + e
    BY <2>1 DEF Teensy!data_valid
  <2>. QED BY <1>2, <1>5, <2>2
<1>7. Teensy!clock_low(c).i2c_value = Teensy!Truncated(c, LowOf)
  <2>1. Teensy!clock_low(c).i2c_value
          = Teensy!Truncated(c, Teensy!Low(c) - Teensy!Part(c, c.fall_time, 1421)
                                  + Teensy!Part(c, c.scl_risetime, 421))
    BY DEF Teensy!clock_low, Teensy!Parameter, Teensy!time_to_fall_to_0_3_vdd,
           Teensy!time_to_rise_to_0_7_vdd, Teensy!time_to_rise_to_0_3_vdd
  <2>. QED BY <1>1, <1>3, <1>4, <2>1 DEF LowOf
<1>8. Teensy!data_setup(c, master, falling).i2c_value
        = Teensy!clock_low(c).i2c_value - Teensy!data_valid(c, master, falling).i2c_value
  BY Zenon DEF Teensy!data_setup
<1>. QED BY <1>5, <1>6, <1>7, <1>8 DEF c

\* When the slave sees SCL fall.
LEMMA TriggerTime ==
    ASSUME IsBoard(config)
    PROVE  LET z == LineTime(config.fall_time, 911)
           IN /\ z \in Nat /\ 1000 * z <= 7288 * config.frequency
              /\ 7288 * config.frequency < 1000 * z + 1000
<1>. DEFINE f == config.frequency
<1>1. f \in Nat /\ config.fall_time = 8
  BY DEF IsBoard
<1>2. LineTime(config.fall_time, 911) = (7288 * f) \div 1000
  BY <1>1, SMT DEF LineTime
<1>. HIDE DEF f
<1>3. /\ (7288 * f) \div 1000 \in Nat /\ 1000 * ((7288 * f) \div 1000) <= 7288 * f
      /\ 7288 * f < 1000 * ((7288 * f) \div 1000) + 1000
  BY <1>1, SMT
<1>. QED BY <1>2, <1>3 DEF f

\* A bit on the trace and in the calculator: the slave sees SCL fall at another voltage than
\* the calculator has it, which makes less than 1 ns.
LEMMA BitsClose ==
    ASSUME IsBoard(config), IsSlaveOf(config, SlaveConfig), NEW device \in Devices,
           NEW falling \in BOOLEAN, NEW f, f = config.frequency,
           NEW hold, hold = BitDelay(device) + LineTime(BitTime(falling), 421)
                              - LineTime(config.fall_time, 1421),
           NEW valid, valid = BitDelay(device) + LineTime(BitTime(falling), 1421)
                                - LineTime(config.fall_time, 1421)
    PROVE  LET exact == HoldOf(device, falling)
               since == valid - BitTime(falling) * f
           IN /\ f \in Nat /\ f >= 24 /\ exact \in Nat /\ BitTime(falling) \in Nat
              /\ hold \in Int /\ valid \in Int /\ since \in Int
              /\ 1000 * hold - exact >= -3000 /\ 1000 * hold - exact <= 744 * f + 2000
              /\ 1000 * since - exact >= -3000 /\ 1000 * since - exact <= 744 * f + 2000
<1>. DEFINE e == BitTime(falling)
            fall == config.fall_time
            p4 == Teensy!Part(config, e, 421)
            p14 == Teensy!Part(config, e, 1421)
            x4 == LineTime(e, 421)
            x14 == LineTime(e, 1421)
            q == Teensy!Part(config, fall, 1421)
            y == LineTime(fall, 1421)
            b == BitDelay(device)
            ef == e * f
<1>1. f \in Nat /\ f >= 24 /\ f <= 60 /\ fall = 8 /\ fall \in Nat /\ e \in Nat
  BY DEF IsBoard, BitTime
<1>2. p4 \in Nat /\ x4 \in Nat /\ 1000 * x4 <= p4 /\ p4 < 1000 * x4 + 1000
  BY <1>1, BoardTimes
<1>3. p14 \in Nat /\ x14 \in Nat /\ 1000 * x14 <= p14 /\ p14 < 1000 * x14 + 1000
  BY <1>1, BoardTimes
<1>4. q \in Nat /\ y \in Nat /\ 1000 * y <= q /\ q < 1000 * y + 1000 /\ q = 11368 * f
  <2>1. q = 11368 * f
    BY <1>1 DEF Teensy!Part
  <2>. QED BY <1>1, <2>1, BoardTimes
<1>5. ef \in Nat /\ p14 = p4 + 1000 * ef
  <2>1. p4 = e * 421 * f /\ p14 = e * 1421 * f
    BY DEF Teensy!Part
  <2>. HIDE DEF e, p4, p14
  <2>. QED BY <1>1, <2>1, SMT
<1>. HIDE DEF e, p4, p14, x4, x14, q, y, b, ef
<1>6. \E n \in Nat, a \in Int :
         /\ HoldOf(device, falling) = n - a + p4 /\ n - a \in Nat /\ b \in Nat
         /\ 1000 * b - (n - a) >= q - 1000 /\ 1000 * b - (n - a) <= q + 744 * f
  <2>1. CASE device = "master"
    <3>. DEFINE n == Teensy!MasterHold(config)
    <3>1. b \in Nat /\ b >= 1000 /\ n = 1000 * b
      BY <2>1, Delays DEF b, BitDelay
    <3>2. HoldOf(device, falling) = n - q + p4
      BY <2>1 DEF HoldOf, q, p4, e, fall
    <3>. HIDE DEF n
    <3>3. n \in Nat /\ n - q \in Nat /\ 1000 * b - (n - q) >= q - 1000 /\ 1000 * b - (n - q) <= q + 744 * f
      BY <1>1, <1>4, <3>1, SMT
    <3>. QED BY <1>4, <3>1, <3>2, <3>3
  <2>2. CASE device = "slave"
    <3>. DEFINE n == Teensy!SlaveHold(SlaveConfig)
                d == Drawn(n)
                z == LineTime(fall, 911)
                a == Teensy!Part(config, fall, 603)
    <3>1. d \in Nat /\ d >= 1000 /\ n = 1000 * d
      BY SlaveDelays
    <3>2. b = z + d
      BY <2>2 DEF b, BitDelay
    <3>3. a = 4824 * f
      BY <1>1 DEF Teensy!Part
    <3>4. z \in Nat /\ 1000 * z <= 7288 * f /\ 7288 * f < 1000 * z + 1000
      BY TriggerTime DEF fall
    <3>5. HoldOf(device, falling) = n - a + p4
      BY <2>2 DEF HoldOf, p4, e, fall
    <3>. HIDE DEF n, d, z, a
    <3>6. /\ n \in Nat /\ a \in Int /\ n - a \in Nat /\ b \in Nat
          /\ 1000 * b - (n - a) >= q - 1000 /\ 1000 * b - (n - a) <= q + 744 * f
      BY <1>1, <1>4, <3>1, <3>2, <3>3, <3>4, SMT
    <3>. QED BY <3>5, <3>6
  <2>. QED BY <2>1, <2>2 DEF Devices
<1>7. hold = b + x4 - y /\ valid = b + x14 - y
  BY DEF b, x4, x14, y, e, fall
<1>8. PICK n \in Nat, a \in Int :
         /\ HoldOf(device, falling) = n - a + p4 /\ n - a \in Nat /\ b \in Nat
         /\ 1000 * b - (n - a) >= q - 1000 /\ 1000 * b - (n - a) <= q + 744 * f
  BY <1>6
<1>. DEFINE k == n - a
            exact == HoldOf(device, falling)
            since == valid - ef
<1>9. k \in Nat /\ exact = k + p4 /\ 1000 * b - k >= q - 1000 /\ 1000 * b - k <= q + 744 * f /\ b \in Nat
  BY <1>8
<1>. HIDE DEF k, exact
<1>10. /\ exact \in Nat /\ hold \in Int /\ valid \in Int /\ since \in Int
       /\ 1000 * hold - exact >= -3000 /\ 1000 * hold - exact <= 744 * f + 2000
  BY <1>1, <1>2, <1>3, <1>4, <1>5, <1>7, <1>9, SMT
<1>11. 1000 * since - exact >= -3000 /\ 1000 * since - exact <= 744 * f + 2000
  BY <1>1, <1>2, <1>3, <1>4, <1>5, <1>7, <1>9, SMT
<1>. QED BY <1>1, <1>10, <1>11 DEF exact, ef, e

\* The calculator agrees on the intervals of the bits.
LEMMA BitsAgree ==
    ASSUME IsBoard(config), IsSlaveOf(config, SlaveConfig), NEW device \in Devices,
           NEW falling \in BOOLEAN, NEW m \in BitForms(device, falling)
    PROVE  Agree(m.time, m.calculated.i2c_value)
<1>. DEFINE c == ConfigOf(device)
            f == config.frequency
            e == BitTime(falling)
            exact == HoldOf(device, falling)
            ns == Teensy!Truncated(c, exact)
            hold == BitDelay(device) + LineTime(e, 421) - LineTime(config.fall_time, 1421)
            valid == BitDelay(device) + LineTime(e, 1421) - LineTime(config.fall_time, 1421)
            since == valid - e * f
            setup == LowDelay + LineTime(config.scl_risetime, 421) - BitDelay(device) - LineTime(e, 1421)
            low == LowDelay + LineTime(config.scl_risetime, 421) - LineTime(config.fall_time, 1421)
<1>1. c.frequency = f
  BY DEF ConfigOf, IsSlaveOf
<1>2. /\ f \in Nat /\ f >= 24 /\ exact \in Nat /\ e \in Nat
      /\ hold \in Int /\ valid \in Int /\ since \in Int
      /\ 1000 * hold - exact >= -3000 /\ 1000 * hold - exact <= 744 * f + 2000
      /\ 1000 * since - exact >= -3000 /\ 1000 * since - exact <= 744 * f + 2000
  BY BitsClose
<1>3. /\ low \in Int /\ LowOf \in Nat
      /\ 1000 * low - LowOf >= -1000 /\ 1000 * low - LowOf <= 1000
  <2>. DEFINE p == Teensy!Part(config, config.scl_risetime, 421)
              x == LineTime(config.scl_risetime, 421)
              q == Teensy!Part(config, config.fall_time, 1421)
              y == LineTime(config.fall_time, 1421)
  <2>1. config.scl_risetime \in Nat /\ config.fall_time \in Nat
    BY DEF IsBoard
  <2>2. p \in Nat /\ x \in Nat /\ 1000 * x <= p /\ p < 1000 * x + 1000
    BY <2>1, BoardTimes, SMTT(30)
  <2>3. q \in Nat /\ y \in Nat /\ 1000 * y <= q /\ q < 1000 * y + 1000
    BY <2>1, BoardTimes, SMTT(30)
  <2>4. q <= 1000000
    BY DEF IsBoard, Teensy!Part
  <2>5. LowDelay \in Nat /\ LowDelay >= 1000 /\ LowOf = 1000 * LowDelay - q + p
    BY Delays DEF LowOf
  <2>. HIDE DEF p, x, q, y
  <2>6. low = LowDelay + x - y
    BY DEF x, y
  <2>. QED BY <2>2, <2>3, <2>4, <2>5, <2>6, SMT
<1>4. setup + e * f = low - since /\ e * f \in Nat /\ setup \in Int
  <2>. DEFINE b == BitDelay(device)
              x == LineTime(config.scl_risetime, 421)
              y == LineTime(config.fall_time, 1421)
              z == LineTime(e, 1421)
              ef == e * f
  <2>1. config.scl_risetime \in Nat /\ config.fall_time \in Nat
    BY DEF IsBoard
  <2>2. x \in Nat /\ y \in Nat /\ z \in Nat /\ LowDelay \in Nat
    BY <1>2, <2>1, BoardTimes, Delays, SMTT(30)
  <2>3. b \in Int
    BY DelaysAreInOrder DEF DelaysInOrder
  <2>4. ef \in Nat
    <3>. HIDE DEF e, f
    <3>. QED BY <1>2, SMT
  <2>5. setup = LowDelay + x - b - z /\ low = LowDelay + x - y /\ since = (b + z - y) - ef
    OBVIOUS
  <2>. HIDE DEF b, x, y, z, ef, setup, low, since
  <2>6. setup + ef = low - since /\ setup \in Int
    BY <2>2, <2>3, <2>4, <2>5, SMT
  <2>. QED BY <2>4, <2>6 DEF ef
<1>5. /\ Teensy!data_hold(c, device = "master", falling).i2c_value = ns
      /\ Teensy!data_valid(c, device = "master", falling).i2c_value = ns + e
      /\ Teensy!data_setup(c, device = "master", falling).i2c_value = Teensy!Truncated(c, LowOf) - (ns + e)
  BY CalculatedBits
<1>6. \/ m = Interval("data_hold_time", hold, Teensy!data_hold(c, device = "master", falling))
       \/ m = Interval("data_valid_time", valid, Teensy!data_valid(c, device = "master", falling))
       \/ m = Interval("data_setup_time", setup, Teensy!data_setup(c, device = "master", falling))
  BY DEF BitForms
<1>. HIDE DEF c, e, exact, hold, valid, setup, low
<1>7. Agree(hold, ns)
  <2>1. Close(hold, exact)
    BY <1>2, SMT DEF Close
  <2>. QED BY <1>1, <1>2, <2>1, CloseAgree
<1>8. Agree(since, ns)
  <2>. HIDE DEF since
  <2>1. Close(since, exact)
    BY <1>2, SMT DEF Close
  <2>. QED BY <1>1, <1>2, <2>1, CloseAgree
<1>9. ns \in Int /\ Teensy!Truncated(c, LowOf) \in Int
  <2>1. f \in Nat \ {0} /\ exact \in Int /\ LowOf \in Int
    BY <1>2, <1>3
  <2>. HIDE DEF f
  <2>. QED BY <1>1, <2>1, Truncation
<1>10. Agree(valid, ns + e)
  BY <1>2, <1>8, <1>9, AgreeMoved
<1>11. Agree(setup + e * f, Teensy!Truncated(c, LowOf) - ns)
  <2>. DEFINE time == setup + e * f
  <2>1. time = low - since /\ time \in Int /\ since \in Int
    BY <1>2, <1>3, <1>4
  <2>. HIDE DEF time, since, f
  <2>2. /\ 1000 * time - (LowOf - exact) >= -(1000 * f)
        /\ 1000 * time - (LowOf - exact) <= 1000 * f
    BY <1>2, <1>3, <2>1, SMT
  <2>3. Close(time, LowOf - exact)
    BY <2>2 DEF Close, f
  <2>4. Agree(time, Teensy!Truncated(c, LowOf) - Teensy!Truncated(c, exact))
    BY <1>1, <1>2, <1>3, <2>1, <2>3, CloseDifference DEF f
  <2>. QED BY <2>4 DEF time
<1>12. Agree(setup, Teensy!Truncated(c, LowOf) - (ns + e))
  <2>. DEFINE n == Teensy!Truncated(c, LowOf) - ns
              d == -e
  <2>1. n \in Int /\ d \in Int /\ n + d = Teensy!Truncated(c, LowOf) - (ns + e)
    BY <1>2, <1>9
  <2>2. setup - d * f = setup + e * f
    <3>. HIDE DEF f
    <3>. QED BY <1>2, <1>4, SMT
  <2>3. Agree(setup - d * config.frequency, n)
    BY <1>11, <2>2
  <2>. HIDE DEF n, d
  <2>4. Agree(setup, n + d)
    BY <1>4, <2>1, <2>3, AgreeMoved
  <2>. QED BY <2>1, <2>4
<1>. HIDE DEF ns, f, since
<1>. QED BY <1>5, <1>7, <1>10, <1>12, <1>6 DEF Interval

\* Everything that is measured agrees with the calculator.
LEMMA FormsAgree ==
    ASSUME TraceInv, BoardInv PROVE CalculatorAgrees
<1>1. IsBoard(config) /\ IsSlaveOf(config, SlaveConfig) /\ MeasuresForms
  BY Boards, FormsAre
<1>2. ASSUME NEW m \in Intervals PROVE Agree(m.time, m.calculated.i2c_value)
  <2>1. CASE m \in ClockIntervals \cup ConditionIntervals
    BY <1>1, <2>1, ClockAgrees DEF MeasuresForms
  <2>2. CASE m \in BitIntervals
    BY <1>1, <2>2, BitsAgree DEF MeasuresForms
  <2>. QED BY <2>1, <2>2 DEF Intervals
<1>. QED BY <1>2 DEF CalculatorAgrees, Agree

-----------------------------------------------------------------------------
(* The worst cases.                                                        *)

\* The arithmetic of the bound below.
LEMMA WorstNumbers ==
    ASSUME NEW time \in Int, NEW s \in Nat, s >= 1000, NEW x \in Int, NEW w \in Nat, NEW g \in Nat,
           NEW n \in Int, 1000 * time > x - 1000, 1000 * n <= w,
           x >= w \/ (g >= 24 /\ x + 1000 * s > w + 510 * g)
    PROVE  time + s > n
BY SMT

\* An interval after SCL's rise: the trace may draw it a unit shorter, and a faster rise
\* makes up for that.
LEMMA WorstAfterRise ==
    ASSUME IsBoard(config), config.scl_risetime <= config.max_rise,
           NEW time \in Int, NEW x \in Int, NEW w \in Nat, 1000 * time > x - 1000,
           config.scl_risetime = config.max_rise => x = w,
           x + Teensy!scale(config) > w + 510 * ((config.max_rise - config.scl_risetime) * config.frequency)
    PROVE  time + Drawn(Teensy!scale(config)) > Teensy!Truncated(config, w) * config.frequency
<1>. DEFINE f == config.frequency
            t == Teensy!Truncated(config, w)
            n == t * f
            s == Drawn(Teensy!scale(config))
            d == config.max_rise - config.scl_risetime
            g == d * f
<1>1. f \in Nat \ {0} /\ f >= 24 /\ d \in Nat /\ w \in Int /\ w >= 0
  BY DEF IsBoard, IsConfig
<1>2. s \in Nat /\ s >= 1000 /\ Teensy!scale(config) = 1000 * s
  <2>1. IsConfig(config) /\ Teensy!scale(config) * 1 = Teensy!scale(config)
    BY ScalePositive DEF IsBoard
  <2>. QED BY <2>1, Nominal
<1>. HIDE DEF f, s
<1>3. n \in Int /\ 1000 * n <= w
  BY <1>1, Truncation DEF f
<1>4. config.scl_risetime = config.max_rise <=> d = 0
  <2>1. config.scl_risetime \in Nat /\ config.max_rise \in Nat
    BY DEF IsBoard, IsConfig
  <2>. QED BY <2>1, SMT
<1>5. x + 1000 * s > w + 510 * g
  BY <1>2 DEF f
<1>. HIDE DEF d, n
<1>6. g \in Nat /\ (d # 0 => g >= 24)
  <2>1. g \in Nat
    BY <1>1, SMT
  <2>2. ASSUME d # 0 PROVE g >= 24
    <3>1. d - 1 \in Nat /\ (d - 1) * f \in Nat
      BY <1>1, <2>2, SMT
    <3>2. g = f + (d - 1) * f
      BY <1>1, SMT
    <3>. QED BY <1>1, <3>1, <3>2
  <2>. QED BY <2>1, <2>2
<1>. HIDE DEF g
<1>7. x >= w \/ (g >= 24 /\ x + 1000 * s > w + 510 * g)
  BY <1>4, <1>5, <1>6
<1>8. time + s > n
  BY <1>2, <1>3, <1>6, <1>7, WorstNumbers
<1>. QED BY <1>8, ZenonT(40) DEF s, n, f, t

\* What 70 % of SCL's slowest rise leaves of a pulse and of a condition.
LEMMA WorstIsNatural ==
    ASSUME IsBoard(config)
    PROVE  LET c == config
               p == Teensy!Part(c, c.fall_time, 421)
               high == Teensy!High(c, c.max_rise) - Teensy!Part(c, c.max_rise, 1421)
               setup == Teensy!Setup(c, c.max_rise) - Teensy!Part(c, c.max_rise, 1421)
           IN p \in Nat /\ high \in Nat /\ setup \in Nat
<1>1. IsConfig(config) /\ config.max_rise \in Nat /\ config.fall_time \in Nat
  BY DEF IsBoard, IsConfig
<1>. DEFINE l == Teensy!SCL_LATENCY(config, config.max_rise)
<1>2. l \in Nat
  BY <1>1, LatencyIsNatural
<1>3. Teensy!Part(config, config.fall_time, 421) \in Nat /\ Teensy!Part(config, config.max_rise, 1421) \in Nat
  BY <1>1, BoardTimes, SMTT(30)
<1>. HIDE DEF l
<1>4. /\ Teensy!High(config, config.max_rise) = Teensy!scale(config) * (config.CLKHI + 1 + l)
      /\ Teensy!Setup(config, config.max_rise) = Teensy!scale(config) * (config.SETHOLD + 1 + l)
      /\ config.CLKHI + 1 + l \in Nat /\ config.SETHOLD + 1 + l \in Nat
  BY <1>1, <1>2 DEF Teensy!High, Teensy!Setup, IsConfig, l
<1>5. Teensy!High(config, config.max_rise) \in Nat /\ Teensy!Setup(config, config.max_rise) \in Nat
  BY <1>1, <1>4, TicksOrder
<1>. QED BY <1>3, <1>5 DEF IsBoard

\* The high time, and what is left of a condition once SCL has risen.
LEMMA WorstHighAndSetup ==
    ASSUME IsBoard(config), config.scl_risetime <= config.max_rise, NEW edge \in Nat,
           NEW delay, NEW nominal, NEW worst,
           \/ /\ delay = HighDelay /\ nominal = Teensy!High(config, config.scl_risetime)
              /\ worst = Teensy!High(config, config.max_rise)
           \/ /\ delay = SetupDelay /\ nominal = Teensy!Setup(config, config.scl_risetime)
              /\ worst = Teensy!Setup(config, config.max_rise)
    PROVE  LET time == delay + LineTime(edge, 421) - LineTime(config.scl_risetime, 1421)
               p == Teensy!Part(config, config.fall_time, 421)
               w == worst - Teensy!Part(config, config.max_rise, 1421)
               more == time + Drawn(Teensy!scale(config))
           IN /\ edge = config.fall_time => more > Teensy!Truncated(config, w + p) * config.frequency
              /\ more > Teensy!Truncated(config, w) * config.frequency
<1>. DEFINE x == LineTime(edge, 421)
            y == LineTime(config.scl_risetime, 1421)
            p == Teensy!Part(config, config.fall_time, 421)
            e == Teensy!Part(config, edge, 421)
            q == Teensy!Part(config, config.scl_risetime, 1421)
            w == worst - Teensy!Part(config, config.max_rise, 1421)
            s == Teensy!scale(config)
            slack == 510 * ((config.max_rise - config.scl_risetime) * config.frequency)
            time == delay + x - y
<1>1. IsConfig(config) /\ config.scl_risetime \in Nat
  BY DEF IsBoard
<1>2. delay \in Nat /\ nominal = 1000 * delay
  BY Delays
<1>3. p \in Nat /\ w \in Nat
  BY WorstIsNatural
<1>4. (nominal - q + p) + s > (w + p) + slack
  BY <1>1, HighTimeBound, SetupTimeBound DEF Teensy!RiseToFall, Teensy!time_to_rise_to_0_7_vdd,
     Teensy!time_to_fall_to_0_7_vdd, Teensy!time_to_rise_to_0_3_vdd
<1>5. config.scl_risetime = config.max_rise => nominal - q = w
  OBVIOUS
<1>6. e \in Nat /\ x \in Nat /\ 1000 * x <= e /\ e < 1000 * x + 1000
  BY BoardTimes
<1>7. q \in Nat /\ y \in Nat /\ 1000 * y <= q /\ q < 1000 * y + 1000
  BY <1>1, BoardTimes
<1>8. edge = config.fall_time => e = p
  OBVIOUS
<1>9. slack \in Int /\ s \in Int
  <2>1. config.max_rise \in Int /\ config.frequency \in Int /\ config.scl_risetime \in Int
    BY DEF IsBoard, IsConfig
  <2>. QED BY <1>1, <2>1, ScalePositive
<1>. HIDE DEF x, y, p, e, q, w, s, slack
<1>10. time \in Int /\ 1000 * time > (nominal - q) - 1000 /\ (e = p => 1000 * time > (nominal - q + p) - 1000)
  BY <1>2, <1>3, <1>6, <1>7, SMT
<1>. HIDE DEF time
<1>11. ASSUME edge = config.fall_time
       PROVE  time + Drawn(s) > Teensy!Truncated(config, w + p) * config.frequency
  <2>. DEFINE u == nominal - q + p
              v == w + p
  <2>1. /\ u \in Int /\ v \in Nat /\ 1000 * time > u - 1000
        /\ config.scl_risetime = config.max_rise => u = v
        /\ u + s > v + slack
    BY <1>2, <1>3, <1>4, <1>5, <1>7, <1>8, <1>10, <1>11
  <2>. HIDE DEF u, v
  <2>2. time + Drawn(s) > Teensy!Truncated(config, v) * config.frequency
    BY <1>10, <2>1, WorstAfterRise DEF s, slack
  <2>. QED BY <2>2 DEF v
<1>12. time + Drawn(s) > Teensy!Truncated(config, w) * config.frequency
  <2>. DEFINE u == nominal - q
  <2>1. /\ u \in Int /\ 1000 * time > u - 1000
        /\ config.scl_risetime = config.max_rise => u = w
        /\ u + s > w + slack
    BY <1>2, <1>3, <1>4, <1>5, <1>7, <1>9, <1>10
  <2>. HIDE DEF u
  <2>. QED BY <1>3, <1>10, <2>1, WorstAfterRise DEF s, slack
<1>. QED BY <1>11, <1>12 DEF time, x, y, p, w, s

\* The intervals that follow SCL, and the periods.
LEMMA ClockWorst ==
    ASSUME IsBoard(config), config.scl_risetime <= config.max_rise,
           NEW m \in ClockForms \cup ConditionForms,
           m.what \in {"scl_high_time", "scl_low_time", "start_setup_time", "stop_setup_time"}
    PROVE  m.time + Drawn(Teensy!scale(config)) > m.calculated.worst_case * config.frequency
<1>. DEFINE c == config
            p == Teensy!Part(c, c.fall_time, 421)
            highest == Teensy!High(c, c.max_rise)
            setup == Teensy!Setup(c, c.max_rise)
            rise == Teensy!Part(c, c.max_rise, 1421)
            of(time, w) == time + Drawn(Teensy!scale(config)) > Teensy!Truncated(config, w) * config.frequency
<1>0. c.fall_time \in Nat /\ c.scl_risetime \in Nat /\ c.sda_risetime \in Nat
  BY DEF IsBoard
<1>1. CASE m = Interval("scl_low_time", LowDelay + LineTime(config.scl_risetime, 421)
                        - LineTime(config.fall_time, 1421), Teensy!clock_low(config))
  <2>. DEFINE x == LineTime(c.scl_risetime, 421)
              y == LineTime(c.fall_time, 1421)
              q == Teensy!Part(c, c.fall_time, 1421)
              n == Teensy!Truncated(c, 1000 * LowDelay - q) * c.frequency
              s == Drawn(Teensy!scale(c))
  <2>1. m.time = LowDelay + x - y
    BY <1>1 DEF Interval
  <2>2. m.calculated.worst_case = Teensy!Truncated(c, Teensy!Low(c) - q)
    BY <1>1 DEF Interval, Teensy!clock_low, Teensy!Parameter, Teensy!time_to_fall_to_0_3_vdd,
                Teensy!time_to_rise_to_0_7_vdd
  <2>3. LowDelay \in Nat /\ LowDelay >= 1000 /\ Teensy!Low(c) = 1000 * LowDelay
    BY Delays
  <2>4. x \in Nat
    BY <1>0, BoardTimes
  <2>5. q \in Nat /\ y \in Nat /\ 1000 * y <= q
    BY <1>0, BoardTimes, SMTT(30)
  <2>6. q <= 1000000
    BY DEF IsBoard, Teensy!Part
  <2>7. s \in Nat /\ s >= 1000
    <3>1. IsConfig(c) /\ Teensy!scale(c) * 1 = Teensy!scale(c)
      BY ScalePositive DEF IsBoard
    <3>. QED BY <3>1, Nominal
  <2>. HIDE DEF x, y, q, s
  <2>8. n \in Int /\ 1000 * n <= 1000 * LowDelay - q
    <3>. DEFINE w == 1000 * LowDelay - q
                f == c.frequency
    <3>1. w \in Int /\ w >= 0 /\ f \in Nat \ {0}
      BY <2>3, <2>5, <2>6 DEF IsBoard
    <3>. HIDE DEF w, f
    <3>2. Teensy!Truncated(c, w) * f \in Int /\ 1000 * (Teensy!Truncated(c, w) * f) <= w
      BY <3>1, Truncation DEF f
    <3>. QED BY <3>2 DEF w, f
  <2>. HIDE DEF n
  <2>9. LowDelay + x - y + s > n
    BY <2>3, <2>4, <2>5, <2>7, <2>8, SMT
  <2>. QED BY <2>1, <2>2, <2>3, <2>9 DEF n, s
<1>2. CASE m = Interval("scl_high_time", HighDelay + LineTime(config.fall_time, 421)
                        - LineTime(config.scl_risetime, 1421), Teensy!clock_high(config))
  <2>1. m.time = HighDelay + LineTime(c.fall_time, 421) - LineTime(c.scl_risetime, 1421)
    BY <1>2 DEF Interval
  <2>2. m.calculated.worst_case = Teensy!Truncated(c, highest - rise + p)
    BY <1>2 DEF Interval, Teensy!clock_high, Teensy!Parameter, Teensy!RiseToFall,
       Teensy!time_to_rise_to_0_7_vdd, Teensy!time_to_fall_to_0_7_vdd, Teensy!time_to_rise_to_0_3_vdd
  <2>3. of(HighDelay + LineTime(c.fall_time, 421) - LineTime(c.scl_risetime, 1421), highest - rise + p)
    BY <1>0, WorstHighAndSetup
  <2>. QED BY <2>1, <2>2, <2>3
<1>3. CASE m = Interval("start_setup_time", SetupDelay + LineTime(config.fall_time, 421)
                        - LineTime(config.scl_risetime, 1421), Teensy!setup_repeated_start(config))
  <2>1. m.time = SetupDelay + LineTime(c.fall_time, 421) - LineTime(c.scl_risetime, 1421)
    BY <1>3 DEF Interval
  <2>2. m.calculated.worst_case = Teensy!Truncated(c, setup - rise + p)
    BY <1>3 DEF Interval, Teensy!setup_repeated_start, Teensy!Parameter, Teensy!RiseToFall,
       Teensy!time_to_rise_to_0_7_vdd, Teensy!time_to_fall_to_0_7_vdd, Teensy!time_to_rise_to_0_3_vdd
  <2>3. of(SetupDelay + LineTime(c.fall_time, 421) - LineTime(c.scl_risetime, 1421), setup - rise + p)
    BY <1>0, WorstHighAndSetup
  <2>. QED BY <2>1, <2>2, <2>3
<1>4. CASE m = Interval("stop_setup_time", SetupDelay + LineTime(config.sda_risetime, 421)
                        - LineTime(config.scl_risetime, 1421), Teensy!stop_setup(config))
  <2>1. m.time = SetupDelay + LineTime(c.sda_risetime, 421) - LineTime(c.scl_risetime, 1421)
    BY <1>4 DEF Interval
  <2>2. m.calculated.worst_case = Teensy!Truncated(c, setup - rise)
    BY <1>4 DEF Interval, Teensy!stop_setup, Teensy!Parameter, Teensy!time_to_rise_to_0_7_vdd
  <2>3. of(SetupDelay + LineTime(c.sda_risetime, 421) - LineTime(c.scl_risetime, 1421), setup - rise)
    BY <1>0, WorstHighAndSetup
  <2>. QED BY <2>1, <2>2, <2>3
<1>5. CASE \/ m.what = "start_hold_time"
           \/ m.what = "bus_free_time"
  BY <1>5
<1>6. \/ m.what \in {"start_hold_time", "bus_free_time"}
      \/ m = Interval("scl_low_time", LowDelay + LineTime(config.scl_risetime, 421)
                      - LineTime(config.fall_time, 1421), Teensy!clock_low(config))
      \/ m = Interval("scl_high_time", HighDelay + LineTime(config.fall_time, 421)
                      - LineTime(config.scl_risetime, 1421), Teensy!clock_high(config))
      \/ m = Interval("start_setup_time", SetupDelay + LineTime(config.fall_time, 421)
                      - LineTime(config.scl_risetime, 1421), Teensy!setup_repeated_start(config))
      \/ m = Interval("stop_setup_time", SetupDelay + LineTime(config.sda_risetime, 421)
                      - LineTime(config.scl_risetime, 1421), Teensy!stop_setup(config))
  BY DEF ClockForms, ConditionForms, Interval
<1>. QED BY <1>1, <1>2, <1>3, <1>4, <1>5, <1>6

\* No period is shorter than a pulse and a low time.
LEMMA ShortestPeriod ==
    ASSUME IsBoard(config), NEW p \in PeriodForms PROVE p >= LowDelay + HighDelay /\ p \in Nat
<1>1. /\ LowDelay \in Nat /\ HighDelay \in Nat /\ SetupDelay \in Nat /\ StartDelay \in Nat
      /\ FreeDelay \in Nat /\ HighDelay <= SetupDelay + StartDelay
  BY Delays, FreeDelays, ConditionDelays
<1>2. \/ p = LowDelay + HighDelay \/ p = LowDelay + SetupDelay + StartDelay
      \/ p = LowDelay + SetupDelay + FreeDelay + StartDelay
  BY DEF PeriodForms
<1>. QED BY <1>1, <1>2, SMT

\* No period is shorter than that of clock_frequency().worst_case.
LEMMA PeriodsWorst ==
    ASSUME IsBoard(config), NEW p \in PeriodForms
    PROVE  p >= PeriodOf(Teensy!clock_frequency(config).worst_case)
<1>. DEFINE fast == Teensy!Low(config) + Teensy!High(config, 0)
            slow == Teensy!Low(config) + Teensy!High(config, config.scl_risetime)
<1>1. PeriodOf(Teensy!clock_frequency(config).worst_case) <= fast \div 1000
  <2>1. RateBound(config)
    BY DEF IsBoard
  <2>. QED BY <2>1, SMT DEF RateBound, PeriodOf
<1>2. fast <= slow
  BY FastestClock DEF IsBoard
<1>3. slow = 1000 * (LowDelay + HighDelay) /\ LowDelay + HighDelay \in Nat
  BY Delays
<1>4. fast \in Nat
  <2>1. /\ IsConfig(config) /\ config.CLKLO + 1 \in Nat /\ config.CLKHI + 1 \in Nat /\ 0 \in Nat
    BY DEF IsBoard, IsConfig
  <2>2. Teensy!SCL_LATENCY(config, 0) \in Nat
    BY <2>1, LatencyIsNatural
  <2>3. config.CLKHI + 1 + Teensy!SCL_LATENCY(config, 0) \in Nat
    BY <2>1, <2>2
  <2>4. Teensy!Low(config) \in Nat /\ Teensy!High(config, 0) \in Nat
    BY <2>1, <2>3, TicksOrder, ZenonT(40) DEF Teensy!Low, Teensy!High
  <2>. QED BY <2>4
<1>. HIDE DEF fast, slow
<1>5. fast \div 1000 <= LowDelay + HighDelay /\ fast \div 1000 \in Nat
  BY <1>2, <1>3, <1>4, SMT
<1>6. p >= LowDelay + HighDelay /\ p \in Nat
  BY ShortestPeriod
<1>7. PeriodOf(Teensy!clock_frequency(config).worst_case) \in Int
  <2>1. Teensy!clock_frequency(config).worst_case \in Nat \ {0} /\ config.frequency \in Nat
    BY DEF IsBoard, RateBound
  <2>. DEFINE d == Teensy!clock_frequency(config).worst_case
  <2>. HIDE DEF d
  <2>. QED BY <2>1, SMT DEF PeriodOf, d
<1>. DEFINE t == PeriodOf(Teensy!clock_frequency(config).worst_case)
<1>. HIDE DEF t
<1>8. t \in Int /\ t <= fast \div 1000
  BY <1>1, <1>7 DEF t
<1>9. p >= t
  BY <1>3, <1>5, <1>6, <1>8
<1>. QED BY <1>9 DEF t

\* So WorstCaseBound holds on every trace of that shape.
LEMMA FormsWorst ==
    ASSUME TraceInv, BoardInv PROVE WorstCaseBound
<1>. SUFFICES ASSUME config.scl_risetime <= config.max_rise
     PROVE  /\ \A m \in Intervals :
                 m.what \in {"scl_high_time", "scl_low_time", "start_setup_time", "stop_setup_time"} =>
                    m.time + Drawn(Teensy!scale(config)) > m.calculated.worst_case * config.frequency
            /\ \A p \in Periods : p >= PeriodOf(Teensy!clock_frequency(config).worst_case)
  BY Zenon DEF WorstCaseBound
<1>1. IsBoard(config) /\ MeasuresForms
  BY Boards, FormsAre
<1>2. ASSUME NEW m \in Intervals,
             m.what \in {"scl_high_time", "scl_low_time", "start_setup_time", "stop_setup_time"}
      PROVE  m.time + Drawn(Teensy!scale(config)) > m.calculated.worst_case * config.frequency
  <2>1. CASE m \in ClockIntervals \cup ConditionIntervals
    BY <1>1, <1>2, <2>1, ClockWorst DEF MeasuresForms
  <2>2. CASE m \in BitIntervals
    <3>1. m.what \in {"data_hold_time", "data_valid_time", "data_setup_time"}
      BY <1>1, <2>2 DEF MeasuresForms, BitForms, Interval
    <3>. QED BY <1>2, <3>1
  <2>. QED BY <2>1, <2>2 DEF Intervals
<1>3. \A p \in Periods : p >= PeriodOf(Teensy!clock_frequency(config).worst_case)
  BY <1>1, PeriodsWorst DEF MeasuresForms
<1>. QED BY <1>2, <1>3

-----------------------------------------------------------------------------
(* The driver's profiles within the limits of their modes.                 *)

\* What the edges of SCL and SDA add at 60 MHz, and a fall of 8 ns.
LEMMA EdgesAt60MHz ==
    ASSUME config.frequency = 60, config.fall_time = 8, NEW r \in Nat, NEW s \in Nat,
           config.scl_risetime = r, config.sda_risetime = s
    PROVE  /\ LineTime(config.fall_time, 421) = 202 /\ LineTime(config.fall_time, 911) = 437
           /\ LineTime(config.fall_time, 1421) = 682
           /\ LineTime(config.scl_risetime, 421) = (25260 * r) \div 1000
           /\ LineTime(config.scl_risetime, 1421) = (85260 * r) \div 1000
           /\ LineTime(config.sda_risetime, 421) = (25260 * s) \div 1000
           /\ LineTime(config.sda_risetime, 1421) = (85260 * s) \div 1000
BY SMT DEF LineTime

\* The delays of the Standard profile for its rises.
StandardTimes(r, s) ==
    LET l == (17000000 + r * 54660) \div 8000000
        free == IF s > 1000 THEN 372000000 + (s - 1000) * 85260 ELSE 444000000
    IN /\ LowDelay = 304000 /\ StartDelay = 360000
       /\ HighDelay = 8000 * (35 + l) /\ SetupDelay = 8000 * (45 + l)
       /\ FreeDelay = free \div 1000
       /\ BitDelay("master") = 64000 /\ BitDelay("slave") = 12437
       /\ config.frequency = 60 /\ config.fall_time = 8
       /\ config.scl_risetime = r /\ config.sda_risetime = s

\* The Standard profile has those delays.
LEMMA StandardDelays ==
    ASSUME NEW r \in 0..StandardMode.max_rise, NEW s \in 0..StandardMode.max_rise, config = StandardBoard(r, s), asked # 0
    PROVE  StandardTimes(r, s)
<1>. DEFINE l == (17000000 + r * 54660) \div 8000000
            free == IF s > 1000 THEN 372000000 + (s - 1000) * 85260 ELSE 444000000
<1>0. r \in 0..1100 /\ s \in 0..1100
  BY SMT DEF StandardMode, Mode
<1>1. /\ config.frequency = 60 /\ config.fall_time = 8
      /\ config.scl_risetime = r /\ config.sda_risetime = s /\ r \in Nat /\ s \in Nat
  BY <1>0 DEF StandardBoard
<1>2. Teensy!scale(config) = 8000000
  BY <1>0, SMT DEF StandardBoard, Teensy!scale, Teensy!period, Teensy!Divider
<1>3. Teensy!SCL_LATENCY(config, config.scl_risetime) = l /\ l \in Nat
  BY <1>0, <1>2, SMT DEF StandardBoard, Teensy!SCL_LATENCY, Teensy!period, Teensy!Part,
                   Teensy!time_to_rise_to_teensy_trigger_voltage
<1>. HIDE DEF l
<1>4. /\ LowDelay = 304000 /\ StartDelay = 360000
      /\ Drawn(Teensy!MasterHold(config)) = 64000
  BY <1>0, <1>2, SMT DEF StandardBoard, LowDelay, StartDelay, Drawn, Teensy!Low, Teensy!StartHold, Teensy!MasterHold
<1>5. HighDelay = 8000 * (35 + l) /\ SetupDelay = 8000 * (45 + l)
  BY <1>0, <1>2, <1>3, SMT DEF StandardBoard, HighDelay, SetupDelay, Drawn, Teensy!High, Teensy!Setup
<1>6. Teensy!BusFree(config, config.sda_risetime) = free
  BY <1>0, <1>2, SMT DEF StandardBoard, Teensy!BusFree, Teensy!Nanos, Teensy!Part, Teensy!time_to_rise_to_0_7_vdd
<1>. HIDE DEF free
<1>7. Drawn(Teensy!SlaveHold(SlaveConfig)) = 12000
  BY <1>0, SMT DEF StandardBoard, SlaveConfig, DefaultSlaveConfiguration, Drawn, Teensy!SlaveHold, Teensy!period
<1>8. BitDelay("master") = 64000 /\ BitDelay("slave") = 12437
  BY <1>1, <1>4, <1>7, EdgesAt60MHz DEF BitDelay
<1>9. FreeDelay = free \div 1000
  BY <1>6 DEF FreeDelay, Drawn
<1>. QED BY <1>1, <1>4, <1>5, <1>8, <1>9 DEF l, free, StandardTimes

\* The delays of the Fast profile for its rises.
FastTimes(r, s) ==
    LET l == (17000000 + r * 54660) \div 2000000
        free == IF s > 1000 THEN 148000000 + (s - 1000) * 85260 ELSE 150000000
    IN /\ LowDelay = 86000 /\ StartDelay = 44000
       /\ HighDelay = 2000 * (24 + l) /\ SetupDelay = 2000 * (22 + l)
       /\ FreeDelay = free \div 1000
       /\ BitDelay("master") = 24000 /\ BitDelay("slave") = 12437
       /\ config.frequency = 60 /\ config.fall_time = 8
       /\ config.scl_risetime = r /\ config.sda_risetime = s

\* The Fast profile has those delays.
LEMMA FastDelays ==
    ASSUME NEW r \in 0..FastMode.max_rise, NEW s \in 0..FastMode.max_rise, config = FastBoard(r, s), asked # 0
    PROVE  FastTimes(r, s)
<1>. DEFINE l == (17000000 + r * 54660) \div 2000000
            free == IF s > 1000 THEN 148000000 + (s - 1000) * 85260 ELSE 150000000
<1>0. r \in 0..330 /\ s \in 0..330
  BY SMT DEF FastMode, Mode
<1>1. /\ config.frequency = 60 /\ config.fall_time = 8
      /\ config.scl_risetime = r /\ config.sda_risetime = s /\ r \in Nat /\ s \in Nat
  BY <1>0 DEF FastBoard
<1>2. Teensy!scale(config) = 2000000
  BY <1>0, SMT DEF FastBoard, Teensy!scale, Teensy!period, Teensy!Divider
<1>3. Teensy!SCL_LATENCY(config, config.scl_risetime) = l /\ l \in Nat
  BY <1>0, <1>2, SMT DEF FastBoard, Teensy!SCL_LATENCY, Teensy!period, Teensy!Part,
                   Teensy!time_to_rise_to_teensy_trigger_voltage
<1>. HIDE DEF l
<1>4. /\ LowDelay = 86000 /\ StartDelay = 44000
      /\ Drawn(Teensy!MasterHold(config)) = 24000
  BY <1>0, <1>2, SMT DEF FastBoard, LowDelay, StartDelay, Drawn, Teensy!Low, Teensy!StartHold, Teensy!MasterHold
<1>5. HighDelay = 2000 * (24 + l) /\ SetupDelay = 2000 * (22 + l)
  BY <1>0, <1>2, <1>3, SMT DEF FastBoard, HighDelay, SetupDelay, Drawn, Teensy!High, Teensy!Setup
<1>6. Teensy!BusFree(config, config.sda_risetime) = free
  BY <1>0, <1>2, SMT DEF FastBoard, Teensy!BusFree, Teensy!Nanos, Teensy!Part, Teensy!time_to_rise_to_0_7_vdd
<1>. HIDE DEF free
<1>7. Drawn(Teensy!SlaveHold(SlaveConfig)) = 12000
  BY <1>0, SMT DEF FastBoard, SlaveConfig, DefaultSlaveConfiguration, Drawn, Teensy!SlaveHold, Teensy!period
<1>8. BitDelay("master") = 24000 /\ BitDelay("slave") = 12437
  BY <1>1, <1>4, <1>7, EdgesAt60MHz DEF BitDelay
<1>9. FreeDelay = free \div 1000
  BY <1>6 DEF FreeDelay, Drawn
<1>. QED BY <1>1, <1>4, <1>5, <1>8, <1>9 DEF l, free, FastTimes

\* The delays of the FastPlus profile for its rises.
FastPlusTimes(r, s) ==
    LET l == (8000000 + r * 54660) \div 1000000
        free == IF s > 1000 THEN 98000000 + (s - 1000) * 85260 ELSE 99000000
    IN /\ LowDelay = 37000 /\ StartDelay = 20000
       /\ HighDelay = 1000 * (15 + l) /\ SetupDelay = 1000 * (20 + l)
       /\ FreeDelay = free \div 1000
       /\ BitDelay("master") = 13000 /\ BitDelay("slave") = 12437
       /\ config.frequency = 60 /\ config.fall_time = 8
       /\ config.scl_risetime = r /\ config.sda_risetime = s

\* The Fast Plus profile has those delays.
LEMMA FastPlusDelays ==
    ASSUME NEW r \in 0..FastModePlus.max_rise, NEW s \in 0..FastModePlus.max_rise, config = FastPlusBoard(r, s), asked # 0
    PROVE  FastPlusTimes(r, s)
<1>. DEFINE l == (8000000 + r * 54660) \div 1000000
            free == IF s > 1000 THEN 98000000 + (s - 1000) * 85260 ELSE 99000000
<1>0. r \in 0..132 /\ s \in 0..132
  BY SMT DEF FastModePlus, Mode
<1>1. /\ config.frequency = 60 /\ config.fall_time = 8
      /\ config.scl_risetime = r /\ config.sda_risetime = s /\ r \in Nat /\ s \in Nat
  BY <1>0 DEF FastPlusBoard
<1>2. Teensy!scale(config) = 1000000
  BY <1>0, SMT DEF FastPlusBoard, Teensy!scale, Teensy!period, Teensy!Divider
<1>3. Teensy!SCL_LATENCY(config, config.scl_risetime) = l /\ l \in Nat
  BY <1>0, <1>2, SMT DEF FastPlusBoard, Teensy!SCL_LATENCY, Teensy!period, Teensy!Part,
                   Teensy!time_to_rise_to_teensy_trigger_voltage
<1>. HIDE DEF l
<1>4. /\ LowDelay = 37000 /\ StartDelay = 20000
      /\ Drawn(Teensy!MasterHold(config)) = 13000
  BY <1>0, <1>2, SMT DEF FastPlusBoard, LowDelay, StartDelay, Drawn, Teensy!Low, Teensy!StartHold, Teensy!MasterHold
<1>5. HighDelay = 1000 * (15 + l) /\ SetupDelay = 1000 * (20 + l)
  BY <1>0, <1>2, <1>3, SMT DEF FastPlusBoard, HighDelay, SetupDelay, Drawn, Teensy!High, Teensy!Setup
<1>6. Teensy!BusFree(config, config.sda_risetime) = free
  BY <1>0, <1>2, SMT DEF FastPlusBoard, Teensy!BusFree, Teensy!Nanos, Teensy!Part, Teensy!time_to_rise_to_0_7_vdd
<1>. HIDE DEF free
<1>7. Drawn(Teensy!SlaveHold(SlaveConfig)) = 12000
  BY <1>0, SMT DEF FastPlusBoard, SlaveConfig, DefaultSlaveConfiguration, Drawn, Teensy!SlaveHold, Teensy!period
<1>8. BitDelay("master") = 13000 /\ BitDelay("slave") = 12437
  BY <1>1, <1>4, <1>7, EdgesAt60MHz DEF BitDelay
<1>9. FreeDelay = free \div 1000
  BY <1>6 DEF FreeDelay, Drawn
<1>. QED BY <1>1, <1>4, <1>5, <1>8, <1>9 DEF l, free, FastPlusTimes

-----------------------------------------------------------------------------
(* The driver's profiles within the limits of their modes.                 *)

\* A time, in the trace's unit, within the limits of a mode for that kind of interval.
Within(spec, what, time) == time \in spec[what].min * 60 .. spec[what].max * 60

\* The same in numbers.
Fits(t, min, max) == t \in Int /\ min <= t /\ t <= max

\* The period of the fastest clock of each mode, 1/100 kHz, 1/400 kHz and 1/1 MHz.
StandardPeriod == 600000
FastPeriod == 150000
FastPlusPeriod == 60000

\* Every interval that can be measured is within the limits, no period is shorter than that,
\* and both devices' filters are long enough.
FormsMeetLimits(spec, shortest) ==
    /\ config.frequency = 60
    /\ \A m \in ClockForms \cup ConditionForms : Within(spec, m.what, m.time)
    /\ \A device \in Devices, falling \in BOOLEAN :
          \A m \in BitForms(device, falling) : Within(spec, m.what, m.time)
    /\ \A p \in PeriodForms : p >= shortest
    /\ \A c \in {config, SlaveConfig} :
          /\ Teensy!Nanos(c, spec.spike_width.min) <= Teensy!scl_glitch_filter(c)
          /\ Teensy!Nanos(c, spec.spike_width.min) <= Teensy!sda_glitch_filter(c)

\* Of a number of thousandths.
LEMMA Thousandths ==
    ASSUME NEW n \in Nat
    PROVE  n \div 1000 \in Nat /\ 1000 * (n \div 1000) <= n /\ n < 1000 * (n \div 1000) + 1000
BY Quotient, SMT

\* The limits of standard_mode_spec in the trace's unit.
LEMMA StandardLimits ==
    ASSUME NEW t
    PROVE  LET in(what) == Within(standard_mode_spec, what, t)
           IN /\ in("scl_low_time") <=> Fits(t, 282000, 60000000)
              /\ in("scl_high_time") <=> Fits(t, 240000, 60000000)
              /\ in("start_setup_time") <=> Fits(t, 282000, 60000000)
              /\ in("start_hold_time") <=> Fits(t, 240000, 60000000)
              /\ in("stop_setup_time") <=> Fits(t, 240000, 60000000)
              /\ in("bus_free_time") <=> Fits(t, 282000, 60000000)
              /\ in("data_hold_time") <=> Fits(t, 0, 60000000)
              /\ in("data_valid_time") <=> Fits(t, 0, 207000)
              /\ in("data_setup_time") <=> Fits(t, 15000, 60000000)
BY SMT DEF Within, Fits, standard_mode_spec, Limits, UNLIMITED

\* The limits of fast_mode_spec in the trace's unit.
LEMMA FastLimits ==
    ASSUME NEW t
    PROVE  LET in(what) == Within(fast_mode_spec, what, t)
           IN /\ in("scl_low_time") <=> Fits(t, 78000, 60000000)
              /\ in("scl_high_time") <=> Fits(t, 36000, 60000000)
              /\ in("start_setup_time") <=> Fits(t, 36000, 60000000)
              /\ in("start_hold_time") <=> Fits(t, 36000, 60000000)
              /\ in("stop_setup_time") <=> Fits(t, 36000, 60000000)
              /\ in("bus_free_time") <=> Fits(t, 78000, 60000000)
              /\ in("data_hold_time") <=> Fits(t, 0, 60000000)
              /\ in("data_valid_time") <=> Fits(t, 0, 54000)
              /\ in("data_setup_time") <=> Fits(t, 6000, 60000000)
BY SMT DEF Within, Fits, fast_mode_spec, Limits, UNLIMITED

\* The limits of fast_mode_plus_spec in the trace's unit.
LEMMA FastPlusLimits ==
    ASSUME NEW t
    PROVE  LET in(what) == Within(fast_mode_plus_spec, what, t)
           IN /\ in("scl_low_time") <=> Fits(t, 30000, 60000000)
              /\ in("scl_high_time") <=> Fits(t, 15600, 60000000)
              /\ in("start_setup_time") <=> Fits(t, 15600, 60000000)
              /\ in("start_hold_time") <=> Fits(t, 15600, 60000000)
              /\ in("stop_setup_time") <=> Fits(t, 15600, 60000000)
              /\ in("bus_free_time") <=> Fits(t, 30000, 60000000)
              /\ in("data_hold_time") <=> Fits(t, 0, 60000000)
              /\ in("data_valid_time") <=> Fits(t, 0, 27000)
              /\ in("data_setup_time") <=> Fits(t, 3000, 60000000)
BY SMT DEF Within, Fits, fast_mode_plus_spec, Limits, UNLIMITED

\* The Standard profile keeps the limits of its mode, however fast the lines rise: r and s are the
\* rises of SCL and SDA, a, x and b, y when they get to 30 % and 70 %.
LEMMA StandardMeets ==
    ASSUME NEW r \in 0..StandardMode.max_rise, NEW s \in 0..StandardMode.max_rise, config = StandardBoard(r, s), asked # 0,
           IsBoard(config)
    PROVE  FormsMeetLimits(standard_mode_spec, StandardPeriod)
<1>. DEFINE n == 17000000 + r * 54660
            l == n \div 8000000
            f == IF s > 1000 THEN 372000000 + (s - 1000) * 85260 ELSE 444000000
            free == f \div 1000
            a == (25260 * r) \div 1000
            x == (85260 * r) \div 1000
            b == (25260 * s) \div 1000
            y == (85260 * s) \div 1000
<1>0. r \in 0..1100 /\ s \in 0..1100
  BY SMT DEF StandardMode, Mode
<1>1. r \in Nat /\ s \in Nat /\ r <= 1100 /\ s <= 1100
  BY <1>0, SMT
<1>2. n \in Nat /\ f \in Nat /\ 25260 * r \in Nat /\ 85260 * r \in Nat /\ 25260 * s \in Nat /\ 85260 * s \in Nat
  BY <1>1, SMT
<1>3. /\ LowDelay = 304000 /\ StartDelay = 360000 /\ FreeDelay = free
      /\ HighDelay = 8000 * (35 + l) /\ SetupDelay = 8000 * (45 + l)
      /\ BitDelay("master") = 64000 /\ BitDelay("slave") = 12437
      /\ config.frequency = 60 /\ config.fall_time = 8
      /\ config.scl_risetime = r /\ config.sda_risetime = s
  <2>1. StandardTimes(r, s)
    BY StandardDelays, Zenon
  <2>. QED BY <2>1, SMT DEF StandardTimes
<1>4. /\ LineTime(config.fall_time, 421) = 202 /\ LineTime(config.fall_time, 1421) = 682
      /\ LineTime(config.scl_risetime, 421) = a /\ LineTime(config.scl_risetime, 1421) = x
      /\ LineTime(config.sda_risetime, 421) = b /\ LineTime(config.sda_risetime, 1421) = y
  BY <1>1, <1>3, EdgesAt60MHz, SMT
<1>5. f = IF s > 1000 THEN 372000000 + (s - 1000) * 85260 ELSE 444000000
  BY SMT
<1>6. n = 17000000 + r * 54660
  BY SMT
<1>. HIDE DEF n, f
<1>7. l \in Nat /\ 8000000 * l <= n /\ n < 8000000 * l + 8000000
  BY <1>2, Quotient, SMT
<1>8. free \in Nat /\ 1000 * free <= f /\ f < 1000 * free + 1000
  BY <1>2, Thousandths, SMT
<1>9. /\ a \in Nat /\ 1000 * a <= 25260 * r /\ x \in Nat /\ 1000 * x <= 85260 * r
      /\ b \in Nat /\ 1000 * b <= 25260 * s /\ y \in Nat /\ 1000 * y <= 85260 * s
      /\ b <= y
  <2>1. 25260 * s < 1000 * b + 1000 /\ 85260 * s < 1000 * y + 1000
    BY <1>2, Thousandths, SMT
  <2>2. a \in Nat /\ 1000 * a <= 25260 * r /\ x \in Nat /\ 1000 * x <= 85260 * r
    BY <1>2, Thousandths, SMT
  <2>3. b \in Nat /\ 1000 * b <= 25260 * s /\ y \in Nat /\ 1000 * y <= 85260 * s
    BY <1>2, Thousandths, SMT
  <2>. HIDE DEF b, y
  <2>4. b <= y
    BY <1>1, <2>1, <2>3, SMT
  <2>. QED BY <2>2, <2>3, <2>4, SMT
<1>. HIDE DEF l, free, a, x, b, y
<1>10. /\ Fits(304000 + a - 682, 282000, 60000000)
       /\ Fits(8000 * (35 + l) + 202 - x, 240000, 60000000)
       /\ Fits(8000 * (45 + l) + 202 - x, 282000, 60000000)
       /\ Fits(8000 * (45 + l) + b - x, 240000, 60000000)
       /\ Fits(360000 + 202 - 682, 240000, 60000000)
       /\ Fits(free + 202 - y, 282000, 60000000)
       /\ 304000 + 8000 * (35 + l) >= 600000
  <2>1. Fits(304000 + a - 682, 282000, 60000000) /\ Fits(360000 + 202 - 682, 240000, 60000000)
    BY <1>1, <1>9, SMT DEF Fits
  <2>2. /\ Fits(8000 * (35 + l) + 202 - x, 240000, 60000000)
        /\ 304000 + 8000 * (35 + l) >= 600000
    BY <1>1, <1>6, <1>7, <1>9, SMT DEF Fits
  <2>3. Fits(8000 * (45 + l) + 202 - x, 282000, 60000000)
    BY <1>1, <1>6, <1>7, <1>9, SMT DEF Fits
  <2>4. Fits(8000 * (45 + l) + b - x, 240000, 60000000)
    BY <1>1, <1>6, <1>7, <1>9, SMT DEF Fits
  <2>5. Fits(free + 202 - y, 282000, 60000000)
    BY <1>1, <1>5, <1>8, <1>9, SMT DEF Fits
  <2>. QED BY <2>1, <2>2, <2>3, <2>4, <2>5, SMT
<1>11. ASSUME NEW m \in ClockForms \cup ConditionForms PROVE Within(standard_mode_spec, m.what, m.time)
  <2>1. \/ m.what = "scl_low_time" /\ m.time = 304000 + a - 682
        \/ m.what = "scl_high_time" /\ m.time = 8000 * (35 + l) + 202 - x
        \/ m.what = "start_setup_time" /\ m.time = 8000 * (45 + l) + 202 - x
        \/ m.what = "start_hold_time" /\ m.time = 360000 + 202 - 682
        \/ m.what = "stop_setup_time" /\ m.time = 8000 * (45 + l) + b - x
        \/ m.what = "bus_free_time" /\ m.time = free + 202 - y
    BY <1>3, <1>4, SMT DEF ClockForms, ConditionForms, Interval
  <2>. QED BY <1>10, <2>1, StandardLimits, SMT
<1>12. ASSUME NEW device \in Devices, NEW falling \in BOOLEAN, NEW m \in BitForms(device, falling)
       PROVE  Within(standard_mode_spec, m.what, m.time)
  <2>. DEFINE d == BitDelay(device)
              begin == LineTime(BitTime(falling), 421)
              end == LineTime(BitTime(falling), 1421)
  <2>1. d \in {64000, 12437}
    BY <1>3, SMT DEF Devices
  <2>2. begin \in Nat /\ end \in Nat /\ (end = 682 \/ 1000 * end <= 85260 * s) /\ (begin <= 202 \/ begin <= end)
    BY <1>4, <1>9, SMT DEF BitTime
  <2>3. \/ m.what = "data_hold_time" /\ m.time = d + begin - 682
        \/ m.what = "data_valid_time" /\ m.time = d + end - 682
        \/ m.what = "data_setup_time" /\ m.time = 304000 + a - d - end
    BY <1>3, <1>4, SMT DEF BitForms, Interval
  <2>. HIDE DEF d, begin, end
  <2>4. /\ Fits(d + begin - 682, 0, 60000000)
        /\ Fits(d + end - 682, 0, 207000)
        /\ Fits(304000 + a - d - end, 15000, 60000000)
    BY <1>1, <1>9, <2>1, <2>2, SMT DEF Fits
  <2>. QED BY <2>3, <2>4, StandardLimits, SMT
<1>13. ASSUME NEW p \in PeriodForms PROVE p >= 600000
  <2>1. p >= LowDelay + HighDelay /\ p \in Nat
    BY ShortestPeriod
  <2>. QED BY <1>3, <1>7, <1>10, <2>1, SMT
<1>14. ASSUME NEW c \in {config, SlaveConfig}
       PROVE  /\ Teensy!Nanos(c, standard_mode_spec.spike_width.min) <= Teensy!scl_glitch_filter(c)
              /\ Teensy!Nanos(c, standard_mode_spec.spike_width.min) <= Teensy!sda_glitch_filter(c)
  <2>1. /\ config.frequency = 60 /\ config.FILTSCL \in {6, 15} /\ config.FILTSDA \in {6, 15}
        /\ SlaveConfig.frequency = 60 /\ SlaveConfig.FILTSCL = 6 /\ SlaveConfig.FILTSDA = 6
    BY SMT DEF StandardBoard, SlaveConfig, DefaultSlaveConfiguration
  <2>2. standard_mode_spec.spike_width.min = 0
    BY SMT DEF standard_mode_spec, Limits
  <2>. QED BY <2>1, <2>2, SMT DEF Teensy!Nanos, Teensy!scl_glitch_filter, Teensy!sda_glitch_filter, Teensy!period
<1>. QED BY <1>3, <1>11, <1>12, <1>13, <1>14, SMT DEF FormsMeetLimits, StandardPeriod

\* The Fast profile keeps the limits of its mode, however fast the lines rise: r and s are the
\* rises of SCL and SDA, a, x and b, y when they get to 30 % and 70 %.
LEMMA FastMeets ==
    ASSUME NEW r \in 0..FastMode.max_rise, NEW s \in 0..FastMode.max_rise, config = FastBoard(r, s), asked # 0,
           IsBoard(config)
    PROVE  FormsMeetLimits(fast_mode_spec, FastPeriod)
<1>. DEFINE n == 17000000 + r * 54660
            l == n \div 2000000
            f == IF s > 1000 THEN 148000000 + (s - 1000) * 85260 ELSE 150000000
            free == f \div 1000
            a == (25260 * r) \div 1000
            x == (85260 * r) \div 1000
            b == (25260 * s) \div 1000
            y == (85260 * s) \div 1000
<1>0. r \in 0..330 /\ s \in 0..330
  BY SMT DEF FastMode, Mode
<1>1. r \in Nat /\ s \in Nat /\ r <= 330 /\ s <= 330
  BY <1>0, SMT
<1>2. n \in Nat /\ f \in Nat /\ 25260 * r \in Nat /\ 85260 * r \in Nat /\ 25260 * s \in Nat /\ 85260 * s \in Nat
  BY <1>1, SMT
<1>3. /\ LowDelay = 86000 /\ StartDelay = 44000 /\ FreeDelay = free
      /\ HighDelay = 2000 * (24 + l) /\ SetupDelay = 2000 * (22 + l)
      /\ BitDelay("master") = 24000 /\ BitDelay("slave") = 12437
      /\ config.frequency = 60 /\ config.fall_time = 8
      /\ config.scl_risetime = r /\ config.sda_risetime = s
  <2>1. FastTimes(r, s)
    BY FastDelays, Zenon
  <2>. QED BY <2>1, SMT DEF FastTimes
<1>4. /\ LineTime(config.fall_time, 421) = 202 /\ LineTime(config.fall_time, 1421) = 682
      /\ LineTime(config.scl_risetime, 421) = a /\ LineTime(config.scl_risetime, 1421) = x
      /\ LineTime(config.sda_risetime, 421) = b /\ LineTime(config.sda_risetime, 1421) = y
  BY <1>1, <1>3, EdgesAt60MHz, SMT
<1>5. f = IF s > 1000 THEN 148000000 + (s - 1000) * 85260 ELSE 150000000
  BY SMT
<1>6. n = 17000000 + r * 54660
  BY SMT
<1>. HIDE DEF n, f
<1>7. l \in Nat /\ 2000000 * l <= n /\ n < 2000000 * l + 2000000
  BY <1>2, Quotient, SMT
<1>8. free \in Nat /\ 1000 * free <= f /\ f < 1000 * free + 1000
  BY <1>2, Thousandths, SMT
<1>9. /\ a \in Nat /\ 1000 * a <= 25260 * r /\ x \in Nat /\ 1000 * x <= 85260 * r
      /\ b \in Nat /\ 1000 * b <= 25260 * s /\ y \in Nat /\ 1000 * y <= 85260 * s
      /\ b <= y
  <2>1. 25260 * s < 1000 * b + 1000 /\ 85260 * s < 1000 * y + 1000
    BY <1>2, Thousandths, SMT
  <2>2. a \in Nat /\ 1000 * a <= 25260 * r /\ x \in Nat /\ 1000 * x <= 85260 * r
    BY <1>2, Thousandths, SMT
  <2>3. b \in Nat /\ 1000 * b <= 25260 * s /\ y \in Nat /\ 1000 * y <= 85260 * s
    BY <1>2, Thousandths, SMT
  <2>. HIDE DEF b, y
  <2>4. b <= y
    BY <1>1, <2>1, <2>3, SMT
  <2>. QED BY <2>2, <2>3, <2>4, SMT
<1>. HIDE DEF l, free, a, x, b, y
<1>10. /\ Fits(86000 + a - 682, 78000, 60000000)
       /\ Fits(2000 * (24 + l) + 202 - x, 36000, 60000000)
       /\ Fits(2000 * (22 + l) + 202 - x, 36000, 60000000)
       /\ Fits(2000 * (22 + l) + b - x, 36000, 60000000)
       /\ Fits(44000 + 202 - 682, 36000, 60000000)
       /\ Fits(free + 202 - y, 78000, 60000000)
       /\ 86000 + 2000 * (24 + l) >= 150000
  <2>1. Fits(86000 + a - 682, 78000, 60000000) /\ Fits(44000 + 202 - 682, 36000, 60000000)
    BY <1>1, <1>9, SMT DEF Fits
  <2>2. /\ Fits(2000 * (24 + l) + 202 - x, 36000, 60000000)
        /\ 86000 + 2000 * (24 + l) >= 150000
    BY <1>1, <1>6, <1>7, <1>9, SMT DEF Fits
  <2>3. Fits(2000 * (22 + l) + 202 - x, 36000, 60000000)
    BY <1>1, <1>6, <1>7, <1>9, SMT DEF Fits
  <2>4. Fits(2000 * (22 + l) + b - x, 36000, 60000000)
    BY <1>1, <1>6, <1>7, <1>9, SMT DEF Fits
  <2>5. Fits(free + 202 - y, 78000, 60000000)
    BY <1>1, <1>5, <1>8, <1>9, SMT DEF Fits
  <2>. QED BY <2>1, <2>2, <2>3, <2>4, <2>5, SMT
<1>11. ASSUME NEW m \in ClockForms \cup ConditionForms PROVE Within(fast_mode_spec, m.what, m.time)
  <2>1. \/ m.what = "scl_low_time" /\ m.time = 86000 + a - 682
        \/ m.what = "scl_high_time" /\ m.time = 2000 * (24 + l) + 202 - x
        \/ m.what = "start_setup_time" /\ m.time = 2000 * (22 + l) + 202 - x
        \/ m.what = "start_hold_time" /\ m.time = 44000 + 202 - 682
        \/ m.what = "stop_setup_time" /\ m.time = 2000 * (22 + l) + b - x
        \/ m.what = "bus_free_time" /\ m.time = free + 202 - y
    BY <1>3, <1>4, SMT DEF ClockForms, ConditionForms, Interval
  <2>. QED BY <1>10, <2>1, FastLimits, SMT
<1>12. ASSUME NEW device \in Devices, NEW falling \in BOOLEAN, NEW m \in BitForms(device, falling)
       PROVE  Within(fast_mode_spec, m.what, m.time)
  <2>. DEFINE d == BitDelay(device)
              begin == LineTime(BitTime(falling), 421)
              end == LineTime(BitTime(falling), 1421)
  <2>1. d \in {24000, 12437}
    BY <1>3, SMT DEF Devices
  <2>2. begin \in Nat /\ end \in Nat /\ (end = 682 \/ 1000 * end <= 85260 * s) /\ (begin <= 202 \/ begin <= end)
    BY <1>4, <1>9, SMT DEF BitTime
  <2>3. \/ m.what = "data_hold_time" /\ m.time = d + begin - 682
        \/ m.what = "data_valid_time" /\ m.time = d + end - 682
        \/ m.what = "data_setup_time" /\ m.time = 86000 + a - d - end
    BY <1>3, <1>4, SMT DEF BitForms, Interval
  <2>. HIDE DEF d, begin, end
  <2>4. /\ Fits(d + begin - 682, 0, 60000000)
        /\ Fits(d + end - 682, 0, 54000)
        /\ Fits(86000 + a - d - end, 6000, 60000000)
    BY <1>1, <1>9, <2>1, <2>2, SMT DEF Fits
  <2>. QED BY <2>3, <2>4, FastLimits, SMT
<1>13. ASSUME NEW p \in PeriodForms PROVE p >= 150000
  <2>1. p >= LowDelay + HighDelay /\ p \in Nat
    BY ShortestPeriod
  <2>. QED BY <1>3, <1>7, <1>10, <2>1, SMT
<1>14. ASSUME NEW c \in {config, SlaveConfig}
       PROVE  /\ Teensy!Nanos(c, fast_mode_spec.spike_width.min) <= Teensy!scl_glitch_filter(c)
              /\ Teensy!Nanos(c, fast_mode_spec.spike_width.min) <= Teensy!sda_glitch_filter(c)
  <2>1. /\ config.frequency = 60 /\ config.FILTSCL \in {6, 15} /\ config.FILTSDA \in {6, 15}
        /\ SlaveConfig.frequency = 60 /\ SlaveConfig.FILTSCL = 6 /\ SlaveConfig.FILTSDA = 6
    BY SMT DEF FastBoard, SlaveConfig, DefaultSlaveConfiguration
  <2>2. fast_mode_spec.spike_width.min = 50
    BY SMT DEF fast_mode_spec, Limits
  <2>. QED BY <2>1, <2>2, SMT DEF Teensy!Nanos, Teensy!scl_glitch_filter, Teensy!sda_glitch_filter, Teensy!period
<1>. QED BY <1>3, <1>11, <1>12, <1>13, <1>14, SMT DEF FormsMeetLimits, FastPeriod

\* The FastPlus profile keeps the limits of its mode, however fast the lines rise: r and s are the
\* rises of SCL and SDA, a, x and b, y when they get to 30 % and 70 %.
LEMMA FastPlusMeets ==
    ASSUME NEW r \in 0..FastModePlus.max_rise, NEW s \in 0..FastModePlus.max_rise, config = FastPlusBoard(r, s), asked # 0,
           IsBoard(config)
    PROVE  FormsMeetLimits(fast_mode_plus_spec, FastPlusPeriod)
<1>. DEFINE n == 8000000 + r * 54660
            l == n \div 1000000
            f == IF s > 1000 THEN 98000000 + (s - 1000) * 85260 ELSE 99000000
            free == f \div 1000
            a == (25260 * r) \div 1000
            x == (85260 * r) \div 1000
            b == (25260 * s) \div 1000
            y == (85260 * s) \div 1000
<1>0. r \in 0..132 /\ s \in 0..132
  BY SMT DEF FastModePlus, Mode
<1>1. r \in Nat /\ s \in Nat /\ r <= 132 /\ s <= 132
  BY <1>0, SMT
<1>2. n \in Nat /\ f \in Nat /\ 25260 * r \in Nat /\ 85260 * r \in Nat /\ 25260 * s \in Nat /\ 85260 * s \in Nat
  BY <1>1, SMT
<1>3. /\ LowDelay = 37000 /\ StartDelay = 20000 /\ FreeDelay = free
      /\ HighDelay = 1000 * (15 + l) /\ SetupDelay = 1000 * (20 + l)
      /\ BitDelay("master") = 13000 /\ BitDelay("slave") = 12437
      /\ config.frequency = 60 /\ config.fall_time = 8
      /\ config.scl_risetime = r /\ config.sda_risetime = s
  <2>1. FastPlusTimes(r, s)
    BY FastPlusDelays, Zenon
  <2>. QED BY <2>1, SMT DEF FastPlusTimes
<1>4. /\ LineTime(config.fall_time, 421) = 202 /\ LineTime(config.fall_time, 1421) = 682
      /\ LineTime(config.scl_risetime, 421) = a /\ LineTime(config.scl_risetime, 1421) = x
      /\ LineTime(config.sda_risetime, 421) = b /\ LineTime(config.sda_risetime, 1421) = y
  BY <1>1, <1>3, EdgesAt60MHz, SMT
<1>5. f = IF s > 1000 THEN 98000000 + (s - 1000) * 85260 ELSE 99000000
  BY SMT
<1>6. n = 8000000 + r * 54660
  BY SMT
<1>. HIDE DEF n, f
<1>7. l \in Nat /\ 1000000 * l <= n /\ n < 1000000 * l + 1000000
  BY <1>2, Quotient, SMT
<1>8. free \in Nat /\ 1000 * free <= f /\ f < 1000 * free + 1000
  BY <1>2, Thousandths, SMT
<1>9. /\ a \in Nat /\ 1000 * a <= 25260 * r /\ x \in Nat /\ 1000 * x <= 85260 * r
      /\ b \in Nat /\ 1000 * b <= 25260 * s /\ y \in Nat /\ 1000 * y <= 85260 * s
      /\ b <= y
  <2>1. 25260 * s < 1000 * b + 1000 /\ 85260 * s < 1000 * y + 1000
    BY <1>2, Thousandths, SMT
  <2>2. a \in Nat /\ 1000 * a <= 25260 * r /\ x \in Nat /\ 1000 * x <= 85260 * r
    BY <1>2, Thousandths, SMT
  <2>3. b \in Nat /\ 1000 * b <= 25260 * s /\ y \in Nat /\ 1000 * y <= 85260 * s
    BY <1>2, Thousandths, SMT
  <2>. HIDE DEF b, y
  <2>4. b <= y
    BY <1>1, <2>1, <2>3, SMT
  <2>. QED BY <2>2, <2>3, <2>4, SMT
<1>. HIDE DEF l, free, a, x, b, y
<1>10. /\ Fits(37000 + a - 682, 30000, 60000000)
       /\ Fits(1000 * (15 + l) + 202 - x, 15600, 60000000)
       /\ Fits(1000 * (20 + l) + 202 - x, 15600, 60000000)
       /\ Fits(1000 * (20 + l) + b - x, 15600, 60000000)
       /\ Fits(20000 + 202 - 682, 15600, 60000000)
       /\ Fits(free + 202 - y, 30000, 60000000)
       /\ 37000 + 1000 * (15 + l) >= 60000
  <2>1. Fits(37000 + a - 682, 30000, 60000000) /\ Fits(20000 + 202 - 682, 15600, 60000000)
    BY <1>1, <1>9, SMT DEF Fits
  <2>2. /\ Fits(1000 * (15 + l) + 202 - x, 15600, 60000000)
        /\ 37000 + 1000 * (15 + l) >= 60000
    BY <1>1, <1>6, <1>7, <1>9, SMT DEF Fits
  <2>3. Fits(1000 * (20 + l) + 202 - x, 15600, 60000000)
    BY <1>1, <1>6, <1>7, <1>9, SMT DEF Fits
  <2>4. Fits(1000 * (20 + l) + b - x, 15600, 60000000)
    BY <1>1, <1>6, <1>7, <1>9, SMT DEF Fits
  <2>5. Fits(free + 202 - y, 30000, 60000000)
    BY <1>1, <1>5, <1>8, <1>9, SMT DEF Fits
  <2>. QED BY <2>1, <2>2, <2>3, <2>4, <2>5, SMT
<1>11. ASSUME NEW m \in ClockForms \cup ConditionForms PROVE Within(fast_mode_plus_spec, m.what, m.time)
  <2>1. \/ m.what = "scl_low_time" /\ m.time = 37000 + a - 682
        \/ m.what = "scl_high_time" /\ m.time = 1000 * (15 + l) + 202 - x
        \/ m.what = "start_setup_time" /\ m.time = 1000 * (20 + l) + 202 - x
        \/ m.what = "start_hold_time" /\ m.time = 20000 + 202 - 682
        \/ m.what = "stop_setup_time" /\ m.time = 1000 * (20 + l) + b - x
        \/ m.what = "bus_free_time" /\ m.time = free + 202 - y
    BY <1>3, <1>4, SMT DEF ClockForms, ConditionForms, Interval
  <2>. QED BY <1>10, <2>1, FastPlusLimits, SMT
<1>12. ASSUME NEW device \in Devices, NEW falling \in BOOLEAN, NEW m \in BitForms(device, falling)
       PROVE  Within(fast_mode_plus_spec, m.what, m.time)
  <2>. DEFINE d == BitDelay(device)
              begin == LineTime(BitTime(falling), 421)
              end == LineTime(BitTime(falling), 1421)
  <2>1. d \in {13000, 12437}
    BY <1>3, SMT DEF Devices
  <2>2. begin \in Nat /\ end \in Nat /\ (end = 682 \/ 1000 * end <= 85260 * s) /\ (begin <= 202 \/ begin <= end)
    BY <1>4, <1>9, SMT DEF BitTime
  <2>3. \/ m.what = "data_hold_time" /\ m.time = d + begin - 682
        \/ m.what = "data_valid_time" /\ m.time = d + end - 682
        \/ m.what = "data_setup_time" /\ m.time = 37000 + a - d - end
    BY <1>3, <1>4, SMT DEF BitForms, Interval
  <2>. HIDE DEF d, begin, end
  <2>4. /\ Fits(d + begin - 682, 0, 60000000)
        /\ Fits(d + end - 682, 0, 27000)
        /\ Fits(37000 + a - d - end, 3000, 60000000)
    BY <1>1, <1>9, <2>1, <2>2, SMT DEF Fits
  <2>. QED BY <2>3, <2>4, FastPlusLimits, SMT
<1>13. ASSUME NEW p \in PeriodForms PROVE p >= 60000
  <2>1. p >= LowDelay + HighDelay /\ p \in Nat
    BY ShortestPeriod
  <2>. QED BY <1>3, <1>7, <1>10, <2>1, SMT
<1>14. ASSUME NEW c \in {config, SlaveConfig}
       PROVE  /\ Teensy!Nanos(c, fast_mode_plus_spec.spike_width.min) <= Teensy!scl_glitch_filter(c)
              /\ Teensy!Nanos(c, fast_mode_plus_spec.spike_width.min) <= Teensy!sda_glitch_filter(c)
  <2>1. /\ config.frequency = 60 /\ config.FILTSCL \in {6, 15} /\ config.FILTSDA \in {6, 15}
        /\ SlaveConfig.frequency = 60 /\ SlaveConfig.FILTSCL = 6 /\ SlaveConfig.FILTSDA = 6
    BY SMT DEF FastPlusBoard, SlaveConfig, DefaultSlaveConfiguration
  <2>2. fast_mode_plus_spec.spike_width.min = 50
    BY SMT DEF fast_mode_plus_spec, Limits
  <2>. QED BY <2>1, <2>2, SMT DEF Teensy!Nanos, Teensy!scl_glitch_filter, Teensy!sda_glitch_filter, Teensy!period
<1>. QED BY <1>3, <1>11, <1>12, <1>13, <1>14, SMT DEF FormsMeetLimits, FastPlusPeriod

\* The number of nanoseconds of a faster clock is not greater.
LEMMA FasterIsShorter ==
    ASSUME NEW n \in Nat, NEW h \in Nat \ {0}, NEW d \in Nat \ {0}, d <= h
    PROVE  n \div h <= n \div d
<1>. DEFINE q == n \div h
            p == n \div d
<1>1. q \in Nat /\ h * q <= n
  BY Quotient
<1>2. p \in Nat /\ n < d * p + d
  BY Quotient
<1>. HIDE DEF p, q
<1>3. d * q <= h * q
  BY <1>1, SMT
<1>4. d * q < d * (p + 1)
  BY <1>1, <1>2, <1>3, SMT
<1>5. q < p + 1
  BY <1>1, <1>2, <1>4, SMT
<1>. QED BY <1>1, <1>2, <1>5 DEF p, q

\* In the mode set_clock() takes for the frequency, with the mode's shortest period.
LEMMA ModeMeets ==
    ASSUME BoardInv, asked # 0
    PROVE  \/ /\ set_clock(asked).spec = standard_mode_spec /\ asked < 400000
              /\ FormsMeetLimits(standard_mode_spec, StandardPeriod)
           \/ /\ set_clock(asked).spec = fast_mode_spec /\ asked >= 400000 /\ asked < 1000000
              /\ FormsMeetLimits(fast_mode_spec, FastPeriod)
           \/ /\ set_clock(asked).spec = fast_mode_plus_spec /\ asked >= 1000000
              /\ FormsMeetLimits(fast_mode_plus_spec, FastPlusPeriod)
<1>1. IsBoard(config)
  BY Boards
<1>2. CASE asked < 400000 /\ set_clock(asked) = StandardMode /\ ModeBoard(StandardMode)
  <2>1. StandardMode.spec = standard_mode_spec
    BY SMT DEF StandardMode, Mode
  <2>2. PICK r \in 0..StandardMode.max_rise, s \in 0..StandardMode.max_rise : config = Config(StandardMode, r, s)
    BY <1>2 DEF ModeBoard
  <2>3. config = StandardBoard(r, s)
    BY <2>2, DriverBoards
  <2>4. FormsMeetLimits(standard_mode_spec, StandardPeriod)
    BY <1>1, <2>3, StandardMeets, Zenon
  <2>. QED BY <1>2, <2>1, <2>4, SMT
<1>3. CASE asked >= 400000 /\ asked < 1000000 /\ set_clock(asked) = FastMode /\ ModeBoard(FastMode)
  <2>1. FastMode.spec = fast_mode_spec
    BY SMT DEF FastMode, Mode
  <2>2. PICK r \in 0..FastMode.max_rise, s \in 0..FastMode.max_rise : config = Config(FastMode, r, s)
    BY <1>3 DEF ModeBoard
  <2>3. config = FastBoard(r, s)
    BY <2>2, DriverBoards
  <2>4. FormsMeetLimits(fast_mode_spec, FastPeriod)
    BY <1>1, <2>3, FastMeets, Zenon
  <2>. QED BY <1>3, <2>1, <2>4, SMT
<1>4. CASE asked >= 1000000 /\ set_clock(asked) = FastModePlus /\ ModeBoard(FastModePlus)
  <2>1. FastModePlus.spec = fast_mode_plus_spec
    BY SMT DEF FastModePlus, Mode
  <2>2. PICK r \in 0..FastModePlus.max_rise, s \in 0..FastModePlus.max_rise : config = Config(FastModePlus, r, s)
    BY <1>4 DEF ModeBoard
  <2>3. config = FastPlusBoard(r, s)
    BY <2>2, DriverBoards
  <2>4. FormsMeetLimits(fast_mode_plus_spec, FastPlusPeriod)
    BY <1>1, <2>3, FastPlusMeets, Zenon
  <2>. QED BY <1>4, <2>1, <2>4, SMT
<1>. QED BY ModeOf, <1>2, <1>3, <1>4, SMT

\* A trace whose intervals are all among the forms is within the limits they are within.
LEMMA LimitsOfForms ==
    ASSUME MeasuresForms, NEW spec, NEW shortest, FormsMeetLimits(spec, shortest)
    PROVE  /\ \A m \in Intervals :
                 m.time \in spec[m.what].min * config.frequency .. spec[m.what].max * config.frequency
           /\ \A p \in Periods : p >= shortest
           /\ \A c \in {config, SlaveConfig} :
                 /\ Teensy!Nanos(c, spec.spike_width.min) <= Teensy!scl_glitch_filter(c)
                 /\ Teensy!Nanos(c, spec.spike_width.min) <= Teensy!sda_glitch_filter(c)
<1>1. ASSUME NEW m \in Intervals PROVE Within(spec, m.what, m.time)
  <2>1. CASE m \in ClockIntervals \cup ConditionIntervals
    BY <2>1, ZenonT(40) DEF MeasuresForms, FormsMeetLimits
  <2>2. CASE m \in BitIntervals
    BY <2>2, ZenonT(40) DEF MeasuresForms, FormsMeetLimits
  <2>. QED BY <2>1, <2>2 DEF Intervals
<1>2. config.frequency = 60
  BY DEF FormsMeetLimits
<1>3. ASSUME NEW m \in Intervals
      PROVE  m.time \in spec[m.what].min * config.frequency .. spec[m.what].max * config.frequency
  BY <1>1, <1>2, Zenon DEF Within
<1>. QED BY <1>3, Zenon DEF FormsMeetLimits, MeasuresForms

\* So the profiles keep the limits on every trace of that shape.
LEMMA FormsMeet == ASSUME TraceInv, BoardInv PROVE MeetsSpecification
<1>. DEFINE spec == set_clock(asked).spec
<1>. SUFFICES ASSUME asked # 0
     PROVE  /\ \A m \in Intervals :
                  m.time \in spec[m.what].min * config.frequency .. spec[m.what].max * config.frequency
            /\ \A p \in Periods : p >= PeriodOf(spec.frequency.max)
            /\ \A c \in {config, SlaveConfig} :
                  /\ Teensy!Nanos(c, spec.spike_width.min) <= Teensy!scl_glitch_filter(c)
                  /\ Teensy!Nanos(c, spec.spike_width.min) <= Teensy!sda_glitch_filter(c)
  BY Zenon DEF MeetsSpecification
<1>1. FormsMeetLimits(spec, PeriodOf(spec.frequency.max))
  <2>1. \/ spec = standard_mode_spec /\ FormsMeetLimits(spec, StandardPeriod)
        \/ spec = fast_mode_spec /\ FormsMeetLimits(spec, FastPeriod)
        \/ spec = fast_mode_plus_spec /\ FormsMeetLimits(spec, FastPlusPeriod)
    BY ModeMeets, SMT
  <2>2. config.frequency = 60
    BY <2>1, SMT DEF FormsMeetLimits
  <2>3. /\ spec = standard_mode_spec => PeriodOf(spec.frequency.max) = StandardPeriod
        /\ spec = fast_mode_spec => PeriodOf(spec.frequency.max) = FastPeriod
        /\ spec = fast_mode_plus_spec => PeriodOf(spec.frequency.max) = FastPlusPeriod
    <3>1. /\ standard_mode_spec.frequency.max = 100000 /\ fast_mode_spec.frequency.max = 400000
          /\ fast_mode_plus_spec.frequency.max = 1000000
      BY SMT DEF standard_mode_spec, fast_mode_spec, fast_mode_plus_spec, Limits
    <3>. HIDE DEF spec
    <3>. QED BY <2>2, <3>1, SMT DEF PeriodOf, StandardPeriod, FastPeriod, FastPlusPeriod
  <2>. HIDE DEF spec
  <2>. QED BY <2>1, <2>3, SMT
<1>2. MeasuresForms
  BY FormsAre
<1>. HIDE DEF spec
<1>. QED BY <1>1, <1>2, LimitsOfForms

\* And no clock is faster than what was asked for.
LEMMA FormsNotFaster == ASSUME TraceInv, BoardInv PROVE NotFasterThanAsked
<1>. SUFFICES ASSUME asked >= 100000, NEW p \in Periods PROVE p >= PeriodOf(asked)
  BY SMT DEF NotFasterThanAsked
<1>1. asked \in Nat \ {0}
  <2>1. asked # 0
    BY SMT
  <2>. QED BY <2>1, ModeOf
<1>2. config.frequency = 60
  BY <1>1, ModeMeets, SMT DEF FormsMeetLimits
<1>3. p \in PeriodForms
  BY FormsAre DEF MeasuresForms
<1>4. p \in Nat
  BY <1>3, Boards, ShortestPeriod
<1>5. /\ 1000000000 \div asked <= 1000000000 \div 100000
      /\ asked >= 400000 => 1000000000 \div asked <= 1000000000 \div 400000
      /\ asked >= 1000000 => 1000000000 \div asked <= 1000000000 \div 1000000
  BY <1>1, FasterIsShorter, SMT
<1>. DEFINE q == 1000000000 \div asked
<1>6. q \in Nat
  BY <1>1, Quotient, SMT
<1>7. q <= 10000 /\ (asked >= 400000 => q <= 2500) /\ (asked >= 1000000 => q <= 1000)
  BY <1>5, SMT
<1>8. p >= 600000 \/ (asked >= 400000 /\ p >= 150000) \/ (asked >= 1000000 /\ p >= 60000)
  BY <1>1, <1>3, ModeMeets, SMT DEF FormsMeetLimits, StandardPeriod, FastPeriod, FastPlusPeriod
<1>9. PeriodOf(asked) = q * 60
  BY <1>2 DEF PeriodOf
<1>. HIDE DEF q
<1>10. p >= q * 60
  BY <1>1, <1>4, <1>6, <1>7, <1>8, SMT
<1>. QED BY <1>9, <1>10

-----------------------------------------------------------------------------
(* For every message, however long, every rise of the lines up to the      *)
(* slowest of the mode, and every frequency asked for.                     *)

\* Every interval two devices can see on the bus, that only agree on 30 % and 70 % of Vdd,
\* is within the limits of the I2C specification for the mode that set_clock() takes: what
\* the profiles of imx_rt1060_i2c_driver.cpp are for.
THEOREM ProfilesMeetSpecification == Spec => []MeetsSpecification
BY TraceIsInv, FormsMeet, PTL

\* From 100 kHz up, set_clock() never gives a faster clock than begin() was asked for.
THEOREM NeverFasterThanAsked == Spec => []NotFasterThanAsked
BY TraceIsInv, FormsNotFaster, PTL

\* The i2c_value that TeensyConfig calculates for an interval is the one the scope
\* simulator measures, to 2 ns, for the driver's profiles and the calculator's examples.
THEOREM CalculatorAgreesWithTrace == Spec => []CalculatorAgrees
BY TraceIsInv, FormsAgree, PTL

\* No line that rises faster than max_rise makes an interval that follows SCL's rise
\* shorter than its worst_case by a tick of the prescaled clock, nor the clock faster than
\* clock_frequency().worst_case.
THEOREM WorstCasesAreBounds == Spec => []WorstCaseBound
BY TraceIsInv, FormsWorst, PTL
=============================================================================
