-------------------------- MODULE NtpExchangeProofs -------------------------
(***************************************************************************)
(* Theorems about NtpExchange, for any servers, paths, delays, drifts and  *)
(* corrections.                                                            *)
(*                                                                         *)
(* While a round collects offsets no clock is corrected, so that each is   *)
(* off its error at the start by its drift alone (ClocksNear).             *)
(* Hence all that is read off the clocks and put into a packet is (Stamps),*)
(* and with the times the two ways take so is the offset.  What is old is  *)
(* told from what is new by the times at which the events of a packet can  *)
(* be (PacketTimes), since a whole round is longer than any round trip.    *)
(***************************************************************************)
EXTENDS NtpExchange, TLAPS

\* The periods of a round that have passed at the next trigger.
PeriodsPassed == IF synchronization_round = 0 THEN g ELSE synchronization_round

\* When the next events are, seen from the start of the round.
Timing ==
  /\ \A t \in continues : t = round_start + Window /\ now <= t
  /\ \A s \in Servers : real_time_of_last_time_advance[s] <= now
  /\ next_trigger < last_event => now <= next_trigger
  /\ round_start <= now

\* The start of a round, once there has been one.
Rounds ==
  \/ /\ next_trigger = 0 /\ synchronization_round = 0 /\ round_start = 0
     /\ packets = {} /\ continues = {} /\ \A s \in Servers : poff[s] = {}
  \/ /\ next_trigger = round_start + PeriodsPassed * time_sync_period
     /\ ~Collecting => now >= round_start + Window

\* The time a packet has left, at most, from its next event to its end.
StageRest(p) ==
  (IF p.stage = "queue" THEN MaxPathDelay ELSE 0)
  + (IF p.stage \in {"queue", "path"} THEN last_link_delay ELSE 0)
  + (IF p.stage # "processing" THEN MaxProcessingDelay ELSE 0)
Way == MaxQueueDelay + MaxPathDelay + last_link_delay + MaxProcessingDelay
Rest(p) == StageRest(p) + IF p.type = "NTP_REQ" THEN Way ELSE 0

OfThisRoundOrLast(x) ==
  x.requested = round_start \/ x.requested = round_start - GlobalPeriod

PacketTimes ==
  \A p \in packets :
    /\ now <= p.at
    /\ p.at + Rest(p) <= p.requested + MaxRoundTrip
    /\ OfThisRoundOrLast(p)

\* When the round is over, what still comes is late.
Late ==
  ~Collecting =>
    \A s \in Servers : \A o \in poff[s] :
      o.requested = round_start /\ MaxRoundTrip >= Window

\* The error e of clock s differs from the one measured by no more than the
\* drift from the start of the round until time t.
Near(s, e, t) ==
  2 * Day * Abs(e - measured[s]) <=
    2 * (max_drift_per_day * (t - round_start)) + Day * advances[s]

ClocksNear ==
  Collecting =>
    \A s \in Servers :
      /\ round_start <= real_time_of_last_time_advance[s]
      /\ Near(s, local_time[s] - real_time_of_last_time_advance[s],
                 real_time_of_last_time_advance[s])

\* The same for what is read at any time of the window.
InWindow(s, e) ==
  2 * Day * Abs(e - measured[s]) <= 2 * (max_drift_per_day * Window) + Day * advances[s]

Travel(d) == MinPathDelay + last_link_delay <= d /\ d <= MaxPathDelay + last_link_delay
TravelToLastLink(d) == MinPathDelay <= d /\ d <= MaxPathDelay

\* What a request has been given so far.
RequestStamps(p) ==
  /\ p.stage # "queue" => InWindow(p.client, p.t0 - p.r0)
  /\ p.stage = "path" => TravelToLastLink(p.at - p.r0)
  /\ p.stage = "link" => Travel(p.at - p.r0)
  /\ p.stage = "processing" =>
       Travel(p.r1 - p.r0) /\ InWindow(p.server, p.receive_time - p.r1)

\* And an answer.
ResponseStamps(p) ==
  /\ InWindow(p.client, p.t0 - p.r0) /\ InWindow(p.server, p.t1 - p.r1)
  /\ Travel(p.r1 - p.r0)
  /\ p.stage # "queue" => InWindow(p.server, p.t2 - p.r2)
  /\ p.stage = "path" => TravelToLastLink(p.at - p.r2)
  /\ p.stage = "link" => Travel(p.at - p.r2)
  /\ p.stage = "processing" =>
       Travel(p.r3 - p.r2) /\ InWindow(p.client, p.receive_time - p.r3)

Stamped0(p) == IF p.type = "NTP_REQ" THEN RequestStamps(p) ELSE ResponseStamps(p)

Stamps ==
  Collecting => \A p \in packets : p.requested = round_start => Stamped0(p)

IInv ==
  /\ TypeOK
  /\ Timing
  /\ Rounds
  /\ PacketTimes
  /\ Late
  /\ OffsetsRecent
  /\ ClocksNear
  /\ Stamps
  /\ OffsetsAccurate

-----------------------------------------------------------------------------
(* Arithmetic *)

LEMMA AbsFacts ==
  ASSUME NEW x \in Int
  PROVE  Abs(x) \in Nat /\ x <= Abs(x) /\ -x <= Abs(x) /\ (Abs(x) = x \/ Abs(x) = -x)
BY DEF Abs

LEMMA HalfFacts ==
  ASSUME NEW x \in Int
  PROVE  Half(x) \in Int /\ 2 * Half(x) - x <= 1 /\ x - 2 * Half(x) <= 1
BY DEF Half

\* Division by a positive number.
LEMMA QuotientFacts ==
  ASSUME NEW a \in Nat, NEW b \in Nat, b > 0
  PROVE  a \div b \in Nat /\ b * (a \div b) <= a
OBVIOUS

\* Rounding adds half a unit at most, and makes nothing of nothing.
LEMMA RoundedFacts ==
  ASSUME NEW x \in Nat, NEW y \in Nat, y > 0
  PROVE  /\ Rounded(x, y) \in Nat
         /\ 2 * y * Rounded(x, y) <= 2 * x + y
         /\ x = 0 => Rounded(x, y) = 0
<1> DEFINE q == (2 * x + y) \div (2 * y)
<1>1. 2 * x + y \in Nat /\ 2 * y \in Nat /\ 2 * y > 0
  OBVIOUS
<1>2. q \in Nat /\ (2 * y) * q <= 2 * x + y
  BY <1>1, QuotientFacts
<1>3. x = 0 => q = 0
  <2> SUFFICES ASSUME x = 0, q >= 1 PROVE FALSE
    BY <1>2
  <2>1. (2 * y) * q >= 2 * y
    BY <1>2
  <2> QED
    BY <2>1, <1>2
<1> QED
  BY <1>2, <1>3 DEF Rounded

LEMMA ProductFacts ==
  ASSUME NEW a \in Nat, NEW b \in Nat, NEW d \in Nat, a <= b
  PROVE  a * d \in Nat /\ b * d \in Nat /\ a * d <= b * d
OBVIOUS

\* A rounded product, for any speed up to the largest.
LEMMA RoundedDrift ==
  ASSUME NEW c \in Nat, c <= max_drift_per_day, NEW d \in Nat
  PROVE  /\ Rounded(c * d, Day) \in Nat
         /\ 2 * Day * Rounded(c * d, Day) <= 2 * (max_drift_per_day * d) + Day
         /\ d = 0 => Rounded(c * d, Day) = 0
<1>1. max_drift_per_day \in Nat /\ Day \in Nat /\ Day > 0
  BY NtpAssumption
<1>2. c * d \in Nat /\ max_drift_per_day * d \in Nat /\ c * d <= max_drift_per_day * d
  BY <1>1, ProductFacts
<1>3. d = 0 => c * d = 0
  OBVIOUS
<1> DEFINE x == c * d
           y == max_drift_per_day * d
<1>4. /\ Rounded(x, Day) \in Nat
      /\ 2 * Day * Rounded(x, Day) <= 2 * x + Day
      /\ x = 0 => Rounded(x, Day) = 0
  BY <1>1, <1>2, RoundedFacts
<1>5. x \in Nat /\ y \in Nat /\ x <= y /\ (d = 0 => x = 0)
  BY <1>2, <1>3
<1> HIDE DEF x, y
<1>6. 2 * Day * Rounded(x, Day) <= 2 * y + Day
  BY <1>1, <1>4, <1>5
<1> QED
  BY <1>4, <1>5, <1>6 DEF x, y

\* How much a clock can drift.
LEMMA DriftFacts ==
  ASSUME NEW s \in Servers, NEW d \in Nat, NEW x \in Drifts(s, d)
  PROVE  /\ x \in Int
         /\ 2 * Day * Abs(x) <= 2 * (max_drift_per_day * d) + Day
         /\ d = 0 => x = 0
<1> DEFINE c == Abs(constant_drift_per_day[s])
           k == Rounded(c * d, Day)
           m == Rounded(max_drift_per_day * d, Day)
           y == max_drift_per_day * d
<1>1. /\ c \in Nat /\ c <= max_drift_per_day
      /\ max_drift_per_day \in Nat /\ Day \in Nat /\ Day > 0 /\ y \in Nat
  BY NtpAssumption DEF Abs
<1>2. k \in Nat /\ 2 * Day * k <= 2 * y + Day /\ (d = 0 => k = 0)
  BY <1>1, RoundedDrift
<1>3. m \in Nat /\ 2 * Day * m <= 2 * y + Day /\ (d = 0 => m = 0)
  BY <1>1, RoundedDrift
<1>4. x \in (-m)..m \/ x = k \/ x = -k
  BY DEF Drifts
<1> HIDE DEF c, k, m, y
<1>5. CASE x \in (-m)..m
  <2>1. x \in Int /\ Abs(x) \in Nat /\ Abs(x) <= m /\ (m = 0 => x = 0)
    BY <1>3, <1>5 DEF Abs
  <2>2. 2 * Day * Abs(x) <= 2 * Day * m
    BY <1>1, <1>3, <2>1
  <2>3. 2 * Day * Abs(x) <= 2 * y + Day
    BY <1>1, <1>3, <2>1, <2>2
  <2> QED
    BY <1>3, <2>1, <2>3 DEF y
<1>6. CASE x = k \/ x = -k
  <2>1. x \in Int /\ Abs(x) = k /\ (k = 0 => x = 0)
    BY <1>2, <1>6 DEF Abs
  <2> QED
    BY <1>2, <2>1 DEF y
<1> QED
  BY <1>4, <1>5, <1>6

\* The scaled distance of a sum.
LEMMA Triangle ==
  ASSUME NEW D \in Nat, NEW a \in Int, NEW b \in Int
  PROVE  2 * D * Abs(a + b) <= 2 * D * Abs(a) + 2 * D * Abs(b)
<1>1. Abs(a) \in Nat /\ Abs(b) \in Nat /\ Abs(a + b) \in Nat
  BY DEF Abs
<1>2. Abs(a + b) <= Abs(a) + Abs(b)
  BY DEF Abs
<1> QED
  BY <1>1, <1>2

\* Some products that occur in the bounds.
LEMMA Distributes ==
  ASSUME NEW M \in Nat, NEW a \in Int, NEW b \in Int
  PROVE  M * (a + b) = M * a + M * b /\ M * a \in Int /\ M * b \in Int
OBVIOUS

LEMMA Monotone ==
  ASSUME NEW M \in Nat, NEW a \in Int, NEW b \in Int, a <= b
  PROVE  M * a <= M * b /\ M * a \in Int /\ M * b \in Int
OBVIOUS

-----------------------------------------------------------------------------
(* The clocks *)

\* One advance keeps a clock within the drift of the time that has passed.
LEMMA NearAfterDrift ==
  ASSUME NEW s \in Servers, NEW drift \in Drifts(s, Advance(s)), TypeOK,
         real_time_of_last_time_advance[s] <= now,
         Near(s, local_time[s] - real_time_of_last_time_advance[s],
                 real_time_of_last_time_advance[s])
  PROVE  2 * Day * Abs((AdvancedTime(s, drift) - now) - measured[s]) <=
           2 * (max_drift_per_day * (now - round_start)) + Day * Counted(s)
<1> DEFINE last == real_time_of_last_time_advance[s]
           e == local_time[s] - last
           d == now - last
           M == max_drift_per_day
<1>1. /\ last \in Nat /\ now \in Nat /\ round_start \in Nat /\ d \in Nat
      /\ e \in Int /\ measured[s] \in Int /\ advances[s] \in Nat
      /\ M \in Nat /\ Day \in Nat
  BY NtpAssumption DEF TypeOK
<1>2. /\ drift \in Int /\ (d = 0 => drift = 0)
      /\ 2 * Day * Abs(drift) <= 2 * (M * d) + Day
  BY <1>1, DriftFacts DEF Advance
<1>3. (AdvancedTime(s, drift) - now) - measured[s] = (e - measured[s]) + drift
  BY <1>1, <1>2, NtpAssumption DEF AdvancedTime, Advance, TypeOK
<1>4. 2 * Day * Abs((e - measured[s]) + drift) <=
        2 * Day * Abs(e - measured[s]) + 2 * Day * Abs(drift)
  <2> DEFINE x == e - measured[s]
  <2>1. x \in Int
    BY <1>1
  <2> HIDE DEF x
  <2>2. 2 * Day * Abs(x + drift) <= 2 * Day * Abs(x) + 2 * Day * Abs(drift)
    BY <1>1, <1>2, <2>1, Triangle
  <2> QED
    BY <2>2 DEF x
<1>5. 2 * Day * Abs(e - measured[s]) <=
        2 * (M * (last - round_start)) + Day * advances[s]
  BY DEF Near
<1>6. M * (now - round_start) = M * (last - round_start) + M * d
  BY <1>1
<1> DEFINE A == 2 * Day * Abs((e - measured[s]) + drift)
           B == 2 * Day * Abs(e - measured[s])
           C == 2 * Day * Abs(drift)
           X == M * (last - round_start)
           Y == M * d
           Z == Day * advances[s]
<1>7. A \in Int /\ B \in Int /\ C \in Int /\ X \in Int /\ Y \in Int /\ Z \in Int
  BY <1>1, <1>2 DEF Abs
<1>8. Day * Counted(s) = IF d = 0 THEN Z ELSE Z + Day
  BY <1>1 DEF Counted, Advance
<1>9. d = 0 => C = 0
  BY <1>1, <1>2 DEF Abs
<1>10. d = 0 => Y = 0
  BY <1>1
<1>11. A <= B + C /\ B <= 2 * X + Z /\ C <= 2 * Y + Day
  BY <1>2, <1>4, <1>5
<1> HIDE DEF A, B, C, X, Y, Z, e, d, last, M
<1>12. A <= 2 * (X + Y) + (IF d = 0 THEN Z ELSE Z + Day)
  BY <1>1, <1>7, <1>9, <1>10, <1>11
<1> QED
  BY <1>3, <1>6, <1>8, <1>12 DEF A, X, Y, M

\* What is within the drift of the time passed is within that of the window.
LEMMA NearInWindow ==
  ASSUME TypeOK, NEW s \in Servers, NEW e \in Int, NEW k \in Nat,
         now <= round_start + Window,
         2 * Day * Abs(e - measured[s]) <=
           2 * (max_drift_per_day * (now - round_start)) + Day * k
  PROVE  2 * Day * Abs(e - measured[s]) <=
           2 * (max_drift_per_day * Window) + Day * k
<1>1. max_drift_per_day \in Nat /\ Window \in Nat /\ Day \in Nat /\ now \in Nat
      /\ round_start \in Nat /\ measured[s] \in Int
  BY NtpAssumption DEF TypeOK
<1>2. max_drift_per_day * (now - round_start) <= max_drift_per_day * Window
  BY <1>1, Monotone
<1>3. 2 * Day * Abs(e - measured[s]) \in Int /\ Day * k \in Int
      /\ max_drift_per_day * (now - round_start) \in Int
      /\ max_drift_per_day * Window \in Int
  BY <1>1 DEF Abs
<1> QED
  BY <1>2, <1>3

\* The bound on what has been read grows with every advance.
LEMMA InWindowGrows ==
  ASSUME TypeOK, NEW s \in Servers, NEW e \in Int, InWindow(s, e),
         measured' = measured, advances'[s] \in Nat, advances[s] <= advances'[s]
  PROVE  InWindow(s, e)'
<1>1. /\ Day \in Nat /\ max_drift_per_day * Window \in Nat
      /\ advances[s] \in Nat /\ measured[s] \in Int
  BY NtpAssumption DEF TypeOK
<1>2. Day * advances[s] <= Day * advances'[s]
      /\ Day * advances[s] \in Int /\ Day * advances'[s] \in Int
  BY <1>1, Monotone
<1>3. 2 * Day * Abs(e - measured[s]) \in Int
  BY <1>1 DEF Abs
<1> QED
  BY <1>1, <1>2, <1>3 DEF InWindow

\* One server handles an event, no other clock moves.
Advances(s, drift) ==
  /\ drift \in Drifts(s, Advance(s))
  /\ AdvanceLocalTime(s, drift)
  /\ now' = now
  /\ UNCHANGED schedule

LEMMA AdvanceStep ==
  ASSUME TypeOK, Timing, ClocksNear, NEW s \in Servers, NEW drift, Advances(s, drift)
  PROVE  /\ AdvancedTime(s, drift) \in Int
         /\ local_time' \in [Servers -> Int]
         /\ real_time_of_last_time_advance' \in [Servers -> Nat]
         /\ advances' \in [Servers -> Nat]
         /\ \A q \in Servers : advances[q] <= advances'[q]
         /\ Timing' /\ ClocksNear'
         /\ \A e \in Int : Collecting /\ e = AdvancedTime(s, drift) - now => InWindow(s, e)'
<1>1. drift \in Int
  <2>1. Advance(s) \in Nat
    BY DEF TypeOK, Timing, Advance
  <2> QED
    BY <2>1, DriftFacts DEF Advances
<1>2. AdvancedTime(s, drift) \in Int
  BY <1>1 DEF TypeOK, AdvancedTime, Advance
<1>3. Counted(s) \in Nat /\ advances[s] <= Counted(s)
  BY DEF TypeOK, Counted
<1>4. /\ local_time' \in [Servers -> Int] /\ local_time'[s] = AdvancedTime(s, drift)
      /\ real_time_of_last_time_advance' \in [Servers -> Nat]
      /\ real_time_of_last_time_advance'[s] = now
      /\ advances' \in [Servers -> Nat] /\ advances'[s] = Counted(s)
      /\ \A q \in Servers \ {s} :
           /\ local_time'[q] = local_time[q] /\ advances'[q] = advances[q]
           /\ real_time_of_last_time_advance'[q] = real_time_of_last_time_advance[q]
  BY <1>2, <1>3 DEF TypeOK, Advances, AdvanceLocalTime
<1>5. \A q \in Servers : advances[q] <= advances'[q]
  BY <1>3, <1>4 DEF TypeOK
<1>6. Timing'
  BY <1>4 DEF Timing, Advances, schedule, TypeOK
<1>7. ASSUME Collecting
      PROVE  2 * Day * Abs((AdvancedTime(s, drift) - now) - measured[s]) <=
               2 * (max_drift_per_day * (now - round_start)) + Day * Counted(s)
  BY <1>7, NearAfterDrift DEF ClocksNear, Timing, Advances
<1>8. ClocksNear'
  BY <1>4, <1>7 DEF ClocksNear, Collecting, Near, Advances, schedule, Timing
<1>9. ASSUME Collecting, NEW e \in Int, e = AdvancedTime(s, drift) - now
      PROVE  InWindow(s, e)'
  <2>1. now <= round_start + Window
    BY <1>9 DEF Collecting, Timing
  <2>2. AdvancedTime(s, drift) - now \in Int
    BY <1>2 DEF TypeOK
  <2>3. 2 * Day * Abs((AdvancedTime(s, drift) - now) - measured[s]) <=
          2 * (max_drift_per_day * Window) + Day * Counted(s)
    BY <1>3, <1>7, <1>9, <2>1, <2>2, NearInWindow
  <2>4. measured' = measured /\ advances'[s] = Counted(s)
    BY <1>4 DEF Advances, schedule
  <2> QED
    BY <1>9, <2>3, <2>4 DEF InWindow
<1> QED
  BY <1>2, <1>4, <1>5, <1>6, <1>8, <1>9

-----------------------------------------------------------------------------
(* What has been collected *)

\* The bound of the offsets grows with every advance as well.
LEMMA BoundGrows ==
  ASSUME TypeOK, NEW s \in Servers, NEW q \in Servers, advances' \in [Servers -> Nat],
         \A c \in Servers : advances[c] <= advances'[c]
  PROVE  ErrorBound(s, q) \in Int /\ ErrorBound(s, q)' \in Int
         /\ ErrorBound(s, q) <= ErrorBound(s, q)'
<1> DEFINE a == (MaxPathDelay - MinPathDelay) + 1 + advances[s] + advances[q]
           b == (MaxPathDelay - MinPathDelay) + 1 + advances'[s] + advances'[q]
           k == 4 * (max_drift_per_day * Window)
<1>1. a \in Int /\ b \in Int /\ a <= b /\ Day \in Nat /\ k \in Int
  BY NtpAssumption DEF TypeOK
<1>2. ErrorBound(s, q) = Day * a + k /\ ErrorBound(s, q)' = Day * b + k
  BY DEF ErrorBound
<1> HIDE DEF a, b, k
<1>3. Day * a <= Day * b /\ Day * a \in Int /\ Day * b \in Int
  BY <1>1, Monotone
<1> QED
  BY <1>1, <1>2, <1>3

OffsetAccurate(s, o) ==
  2 * Day * Abs(o.offset - (measured[o.peer] - measured[s])) <= ErrorBound(s, o.peer)

\* When one server handles an event, what is in the packets and in the offsets
\* stays as accurate as it was.
LEMMA Untouched ==
  ASSUME IInv, NEW s \in Servers, NEW drift, Advances(s, drift)
  PROVE  /\ \A c \in Servers, e \in Int :
              Collecting /\ InWindow(c, e) => InWindow(c, e)'
         /\ \A q \in packets :
              Collecting /\ q.requested = round_start => Stamped0(q)'
         /\ \A c \in Servers : \A o \in poff[c] :
              Collecting /\ o.requested = round_start => OffsetAccurate(c, o)'
<1>1. /\ advances' \in [Servers -> Nat]
      /\ \A q \in Servers : advances[q] <= advances'[q]
  BY AdvanceStep DEF IInv
<1>2. measured' = measured
  BY DEF Advances, schedule
<1>3. ASSUME NEW c \in Servers, NEW e \in Int, InWindow(c, e)
      PROVE  InWindow(c, e)'
  BY <1>1, <1>2, <1>3, InWindowGrows DEF IInv
<1>4. ASSUME NEW q \in packets, Collecting, q.requested = round_start
      PROVE  Stamped0(q)'
  <2>1. Stamped0(q) /\ q \in Packet
    BY <1>4 DEF IInv, Stamps, TypeOK
  <2> QED
    BY <1>3, <2>1 DEF Stamped0, RequestStamps, ResponseStamps, Packet
<1>5. ASSUME NEW c \in Servers, NEW o \in poff[c], Collecting, o.requested = round_start
      PROVE  OffsetAccurate(c, o)'
  <2>1. o \in Offset /\ OffsetAccurate(c, o)
    BY <1>5 DEF IInv, OffsetsAccurate, TypeOK, OffsetAccurate
  <2>2. /\ ErrorBound(c, o.peer) \in Int /\ ErrorBound(c, o.peer)' \in Int
        /\ ErrorBound(c, o.peer) <= ErrorBound(c, o.peer)'
    BY <1>1, <2>1, BoundGrows DEF IInv, Offset
  <2>3. 2 * Day * Abs(o.offset - (measured[o.peer] - measured[c])) \in Int
    BY <2>1, NtpAssumption DEF Abs, Offset, IInv, TypeOK
  <2> QED
    BY <1>2, <2>1, <2>2, <2>3 DEF OffsetAccurate
<1> QED
  BY <1>3, <1>4, <1>5

\* A packet that goes on to its next stage in time, with the right stamps.
LEMMA PacketStep ==
  ASSUME IInv, NEW p \in packets, NEW next \in Packet,
         NEW s \in Servers, NEW drift, Advances(s, drift),
         packets' = (packets \ {p}) \cup {next}, poff' = poff,
         next.requested = p.requested, now <= next.at,
         next.at + Rest(next) <= next.requested + MaxRoundTrip,
         Collecting /\ next.requested = round_start => Stamped0(next)'
  PROVE  IInv'
<1>1. /\ now' = now /\ next_trigger' = next_trigger /\ continues' = continues
      /\ synchronization_round' = synchronization_round
      /\ round_start' = round_start /\ measured' = measured
  BY DEF Advances, schedule
<1>2. TypeOK'
  BY <1>1, AdvanceStep DEF IInv, TypeOK
<1>3. Timing' /\ ClocksNear'
  BY AdvanceStep DEF IInv
<1>4. Rounds'
  BY <1>1 DEF IInv, Rounds, PeriodsPassed, Collecting
<1>5. PacketTimes'
  <2>1. \A q \in packets' : (q \in packets \/ q = next)
    OBVIOUS
  <2>2. \A q : Rest(q)' = Rest(q)
    BY DEF Rest, StageRest, Way
  <2> QED
    BY <1>1, <2>1, <2>2 DEF IInv, PacketTimes, OfThisRoundOrLast
<1>6. Late' /\ OffsetsRecent'
  BY <1>1 DEF IInv, Late, OffsetsRecent, Collecting
<1>7. Stamps'
  BY <1>1, Untouched DEF IInv, Stamps, Collecting
<1>8. OffsetsAccurate'
  BY <1>1, Untouched DEF IInv, OffsetsAccurate, OffsetAccurate, Collecting
<1> QED
  BY <1>2, <1>3, <1>4, <1>5, <1>6, <1>7, <1>8 DEF IInv

LEMMA OtherEventStep ==
  ASSUME IInv, NEW s \in Servers, OtherEvent(s)
  PROVE  IInv'
<1>1. PICK drift \in Drifts(s, Advance(s)) : AdvanceLocalTime(s, drift)
  BY DEF OtherEvent
<1>2. Advances(s, drift) /\ packets' = packets /\ poff' = poff
  BY <1>1 DEF OtherEvent, Advances
<1>3. /\ now' = now /\ next_trigger' = next_trigger /\ continues' = continues
      /\ synchronization_round' = synchronization_round
      /\ round_start' = round_start /\ measured' = measured
  BY <1>2 DEF Advances, schedule
<1>4. TypeOK'
  BY <1>2, <1>3, AdvanceStep DEF IInv, TypeOK
<1>5. Timing' /\ ClocksNear'
  BY <1>2, AdvanceStep DEF IInv
<1>6. Rounds'
  BY <1>2, <1>3 DEF IInv, Rounds, PeriodsPassed, Collecting
<1>7. PacketTimes' /\ Late' /\ OffsetsRecent'
  BY <1>2, <1>3 DEF IInv, PacketTimes, OfThisRoundOrLast, Late, OffsetsRecent, Collecting
<1>8. Stamps'
  BY <1>2, <1>3, Untouched DEF IInv, Stamps, Collecting
<1>9. OffsetsAccurate'
  BY <1>2, <1>3, Untouched DEF IInv, OffsetsAccurate, OffsetAccurate, Collecting
<1> QED
  BY <1>4, <1>5, <1>6, <1>7, <1>8, <1>9 DEF IInv

-----------------------------------------------------------------------------
(* The packets *)

\* What is known of a packet whose event is due.
LEMMA DueFacts ==
  ASSUME IInv, NEW p, NEW stage, Due(p, stage)
  PROVE  /\ p \in packets /\ p \in Packet /\ p.stage = stage /\ p.at = now /\ now \in Nat
         /\ now + Rest(p) <= p.requested + MaxRoundTrip
         /\ Collecting /\ p.requested = round_start => Stamped0(p)
         /\ Sender(p) \in Servers /\ Receiver(p) \in Servers
<1>1. p \in packets /\ p \in Packet /\ p.stage = stage /\ p.at = now /\ now \in Nat
  BY DEF Due, IInv, TypeOK
<1>2. Sender(p) \in Servers /\ Receiver(p) \in Servers
  BY <1>1 DEF Packet, Sender, Receiver
<1> QED
  BY <1>1, <1>2 DEF IInv, PacketTimes, Stamps

LEMMA DelayFacts ==
  /\ MinPathDelay \in Nat /\ MaxPathDelay \in Nat /\ last_link_delay \in Nat
  /\ MaxQueueDelay \in Nat /\ MaxProcessingDelay \in Nat
  /\ Way \in Nat /\ MaxRoundTrip = 2 * Way
  /\ \A d \in PathDelays : d \in Nat /\ TravelToLastLink(d)
  /\ \A d \in QueueDelays : d \in Nat /\ d <= MaxQueueDelay
  /\ \A d \in ProcessingDelays : d \in Nat /\ d <= MaxProcessingDelay
BY NtpAssumption DEF Way, MaxRoundTrip, TravelToLastLink

LEMMA SendStep ==
  ASSUME IInv, NEW p \in packets, Send(p)
  PROVE  IInv'
<1> DEFINE s == Sender(p)
<1>1. Due(p, "queue")
  BY DEF Send
<1>2. PICK drift \in Drifts(s, Advance(s)), delay \in PathDelays :
        /\ AdvanceLocalTime(s, drift)
        /\ GoesOn(p, [Stamped(p, AdvancedTime(s, drift)) EXCEPT
                        !.stage = "path", !.at = now + delay])
  BY DEF Send
<1>3. PICK time : time = AdvancedTime(s, drift)
  OBVIOUS
<1>4. PICK next : next = [Stamped(p, time) EXCEPT !.stage = "path", !.at = now + delay]
  OBVIOUS
<1>5. /\ p \in Packet /\ p.stage = "queue" /\ p.at = now /\ now \in Nat
      /\ s \in Servers /\ now + Rest(p) <= p.requested + MaxRoundTrip
  BY <1>1, DueFacts
<1>6. Advances(s, drift) /\ poff' = poff /\ packets' = (packets \ {p}) \cup {next}
  BY <1>2, <1>3, <1>4 DEF Advances, GoesOn
<1>7. time \in Int /\ delay \in Nat /\ now + delay \in Nat
  BY <1>3, <1>5, <1>6, AdvanceStep, DelayFacts DEF IInv
<1>8. CASE p.type = "NTP_REQ"
  <2>1. next = [p EXCEPT !.t0 = time, !.r0 = now, !.stage = "path", !.at = now + delay]
    BY <1>4, <1>5, <1>8 DEF Stamped, Packet
  <2>2. next \in Packet /\ next.requested = p.requested /\ next.at = now + delay
        /\ next.stage = "path" /\ next.type = p.type /\ next.client = p.client
        /\ next.t0 = time /\ next.r0 = now
    BY <2>1, <1>5, <1>7 DEF Packet
  <2>3. now <= next.at /\ next.at + Rest(next) <= next.requested + MaxRoundTrip
    BY <1>5, <2>2, DelayFacts DEF Rest, StageRest, TravelToLastLink, Packet
  <2>4. ASSUME Collecting PROVE InWindow(p.client, next.t0 - next.r0)'
    BY <1>3, <1>5, <1>6, <1>7, <1>8, <2>2, <2>4, AdvanceStep DEF IInv, Sender
  <2>5. TravelToLastLink(next.at - next.r0)
    BY <1>5, <2>2, DelayFacts DEF TravelToLastLink
  <2>6. Collecting => Stamped0(next)'
    BY <1>8, <2>2, <2>4, <2>5 DEF Stamped0, RequestStamps, TravelToLastLink
  <2> QED
    BY <1>5, <1>6, <2>2, <2>3, <2>6, PacketStep
<1>9. CASE p.type = "NTP_RESP"
  <2>1. next = [p EXCEPT !.t2 = time, !.r2 = now, !.stage = "path", !.at = now + delay]
    BY <1>4, <1>5, <1>9 DEF Stamped, Packet
  <2>2. next \in Packet /\ next.requested = p.requested /\ next.at = now + delay
        /\ next.stage = "path" /\ next.type = p.type
        /\ next.client = p.client /\ next.server = p.server
        /\ next.t0 = p.t0 /\ next.r0 = p.r0 /\ next.t1 = p.t1 /\ next.r1 = p.r1
        /\ next.t2 = time /\ next.r2 = now
    BY <2>1, <1>5, <1>7 DEF Packet
  <2>3. now <= next.at /\ next.at + Rest(next) <= next.requested + MaxRoundTrip
    BY <1>5, <2>2, DelayFacts DEF Rest, StageRest, TravelToLastLink, Packet
  <2>4. ASSUME Collecting PROVE InWindow(p.server, next.t2 - next.r2)'
    BY <1>3, <1>5, <1>6, <1>7, <1>9, <2>2, <2>4, AdvanceStep DEF IInv, Sender
  <2>5. TravelToLastLink(next.at - next.r2)
    BY <1>5, <2>2, DelayFacts DEF TravelToLastLink
  <2>6. Collecting /\ next.requested = round_start => Stamped0(next)'
    <3> SUFFICES ASSUME Collecting, p.requested = round_start PROVE ResponseStamps(next)'
      BY <1>9, <2>2 DEF Stamped0
    <3>1. ResponseStamps(p)'
      BY <1>5, <1>6, <1>9, Untouched DEF Stamped0
    <3> QED
      BY <3>1, <2>2, <2>4, <2>5 DEF ResponseStamps, TravelToLastLink, Travel
  <2> QED
    BY <1>5, <1>6, <2>2, <2>3, <2>6, PacketStep
<1> QED
  BY <1>5, <1>8, <1>9 DEF Packet

LEMMA ScheduleReceiveStep ==
  ASSUME IInv, NEW p \in packets, ScheduleReceive(p)
  PROVE  IInv'
<1> DEFINE s == Receiver(p)
<1>1. Due(p, "path")
  BY DEF ScheduleReceive
<1>2. PICK drift \in Drifts(s, Advance(s)) : AdvanceLocalTime(s, drift)
  BY DEF ScheduleReceive
<1>3. PICK next : next = [p EXCEPT !.stage = "link", !.at = now + last_link_delay]
  OBVIOUS
<1>4. /\ p \in Packet /\ p.stage = "path" /\ p.at = now /\ now \in Nat
      /\ s \in Servers /\ now + Rest(p) <= p.requested + MaxRoundTrip
  BY <1>1, DueFacts
<1>5. Advances(s, drift) /\ poff' = poff /\ packets' = (packets \ {p}) \cup {next}
  BY <1>2, <1>3 DEF Advances, GoesOn, ScheduleReceive
<1>6. now + last_link_delay \in Nat /\ last_link_delay \in Nat
  BY <1>4, DelayFacts
<1>7. next \in Packet /\ next.requested = p.requested /\ next.at = now + last_link_delay
      /\ next.stage = "link" /\ next.type = p.type
      /\ next.client = p.client /\ next.server = p.server
      /\ next.t0 = p.t0 /\ next.r0 = p.r0 /\ next.t1 = p.t1 /\ next.r1 = p.r1
      /\ next.t2 = p.t2 /\ next.r2 = p.r2
  BY <1>3, <1>4, <1>6 DEF Packet
<1>8. now <= next.at /\ next.at + Rest(next) <= next.requested + MaxRoundTrip
  BY <1>4, <1>6, <1>7, DelayFacts DEF Rest, StageRest, Packet
<1>9. Collecting /\ next.requested = round_start => Stamped0(next)'
  <2> SUFFICES ASSUME Collecting, p.requested = round_start PROVE Stamped0(next)'
    BY <1>7
  <2>1. Stamped0(p) /\ Stamped0(p)'
    BY <1>1, <1>4, <1>5, DueFacts, Untouched
  <2>2. CASE p.type = "NTP_REQ"
    BY <1>4, <1>6, <1>7, <2>1, <2>2, DelayFacts
       DEF Stamped0, RequestStamps, Travel, TravelToLastLink, Packet
  <2>3. CASE p.type # "NTP_REQ"
    BY <1>4, <1>6, <1>7, <2>1, <2>3, DelayFacts
       DEF Stamped0, ResponseStamps, Travel, TravelToLastLink, Packet
  <2> QED
    BY <2>2, <2>3
<1> QED
  BY <1>4, <1>5, <1>7, <1>8, <1>9, PacketStep

LEMMA ReceiveStep ==
  ASSUME IInv, NEW p \in packets, Receive(p)
  PROVE  IInv'
<1> DEFINE s == Receiver(p)
<1>1. Due(p, "link")
  BY DEF Receive
<1>2. PICK drift \in Drifts(s, Advance(s)), delay \in ProcessingDelays :
        /\ AdvanceLocalTime(s, drift)
        /\ GoesOn(p, [p EXCEPT !.stage = "processing", !.at = now + delay,
                               !.receive_time = AdvancedTime(s, drift),
                               !.r1 = IF p.type = "NTP_REQ" THEN now ELSE @,
                               !.r3 = now])
  BY DEF Receive
<1>3. PICK time : time = AdvancedTime(s, drift)
  OBVIOUS
<1>4. PICK r1 : r1 = IF p.type = "NTP_REQ" THEN now ELSE p.r1
  OBVIOUS
<1>5. PICK next : next = [p EXCEPT !.stage = "processing", !.at = now + delay,
                                   !.receive_time = time, !.r1 = r1, !.r3 = now]
  OBVIOUS
<1>6. /\ p \in Packet /\ p.stage = "link" /\ p.at = now /\ now \in Nat
      /\ s \in Servers /\ now + Rest(p) <= p.requested + MaxRoundTrip
  BY <1>1, DueFacts
<1>7. Advances(s, drift) /\ poff' = poff /\ packets' = (packets \ {p}) \cup {next}
  BY <1>2, <1>3, <1>4, <1>5 DEF Advances, GoesOn
<1>8. time \in Int /\ delay \in Nat /\ now + delay \in Nat /\ r1 \in Nat
  BY <1>3, <1>4, <1>6, <1>7, AdvanceStep, DelayFacts DEF IInv, Packet
<1>type. next \in Packet
  BY <1>5, <1>6, <1>8 DEF Packet
<1>9. next \in Packet /\ next.requested = p.requested /\ next.at = now + delay
      /\ next.stage = "processing" /\ next.type = p.type
      /\ next.client = p.client /\ next.server = p.server
      /\ next.t0 = p.t0 /\ next.r0 = p.r0 /\ next.t1 = p.t1 /\ next.r1 = r1
      /\ next.t2 = p.t2 /\ next.r2 = p.r2 /\ next.receive_time = time /\ next.r3 = now
  BY <1>type, <1>5, <1>6 DEF Packet
<1>10. now <= next.at /\ next.at + Rest(next) <= next.requested + MaxRoundTrip
  BY <1>2, <1>6, <1>8, <1>9, DelayFacts DEF Rest, StageRest, Packet
<1>11. ASSUME Collecting PROVE InWindow(s, next.receive_time - next.r3)'
  BY <1>3, <1>6, <1>7, <1>8, <1>9, <1>11, AdvanceStep DEF IInv
<1>12. Collecting /\ next.requested = round_start => Stamped0(next)'
  <2> SUFFICES ASSUME Collecting, p.requested = round_start PROVE Stamped0(next)'
    BY <1>9
  <2>1. Stamped0(p) /\ Stamped0(p)'
    BY <1>1, <1>6, <1>7, DueFacts, Untouched
  <2>2. CASE p.type = "NTP_REQ"
    BY <1>4, <1>6, <1>9, <1>11, <2>1, <2>2
       DEF Stamped0, RequestStamps, Travel, Receiver, Packet
  <2>3. CASE p.type # "NTP_REQ"
    BY <1>4, <1>6, <1>9, <1>11, <2>1, <2>3
       DEF Stamped0, ResponseStamps, Travel, Receiver, Packet
  <2> QED
    BY <2>2, <2>3
<1> QED
  BY <1>6, <1>7, <1>9, <1>10, <1>12, PacketStep

LEMMA ReceiveNtpReqStep ==
  ASSUME IInv, NEW p \in packets, ReceiveNtpReqFromPeer(p)
  PROVE  IInv'
<1> DEFINE s == Receiver(p)
<1>1. Due(p, "processing") /\ p.type = "NTP_REQ"
  BY DEF ReceiveNtpReqFromPeer
<1>2. PICK drift \in Drifts(s, Advance(s)), delay \in QueueDelays :
        /\ AdvanceLocalTime(s, drift)
        /\ GoesOn(p, [p EXCEPT !.type = "NTP_RESP", !.stage = "queue", !.at = now + delay,
                               !.t1 = p.receive_time, !.t2 = AdvancedTime(s, drift)])
  BY DEF ReceiveNtpReqFromPeer
<1>3. PICK time : time = AdvancedTime(s, drift)
  OBVIOUS
<1>4. PICK next :
        next = [p EXCEPT !.type = "NTP_RESP", !.stage = "queue", !.at = now + delay,
                         !.t1 = p.receive_time, !.t2 = time]
  OBVIOUS
<1>5. /\ p \in Packet /\ p.stage = "processing" /\ p.at = now /\ now \in Nat
      /\ s \in Servers /\ now + Rest(p) <= p.requested + MaxRoundTrip
  BY <1>1, DueFacts
<1>6. Advances(s, drift) /\ poff' = poff /\ packets' = (packets \ {p}) \cup {next}
  BY <1>2, <1>3, <1>4 DEF Advances, GoesOn
<1>7. time \in Int /\ delay \in Nat /\ now + delay \in Nat
  BY <1>3, <1>5, <1>6, AdvanceStep, DelayFacts DEF IInv
<1>8. next \in Packet /\ next.requested = p.requested /\ next.at = now + delay
      /\ next.stage = "queue" /\ next.type = "NTP_RESP"
      /\ next.client = p.client /\ next.server = p.server
      /\ next.t0 = p.t0 /\ next.r0 = p.r0 /\ next.t1 = p.receive_time /\ next.r1 = p.r1
  BY <1>4, <1>5, <1>7 DEF Packet
<1>9. now <= next.at /\ next.at + Rest(next) <= next.requested + MaxRoundTrip
  BY <1>1, <1>2, <1>5, <1>7, <1>8, DelayFacts DEF Rest, StageRest, Packet, Way
<1>10. Collecting /\ next.requested = round_start => Stamped0(next)'
  <2> SUFFICES ASSUME Collecting, p.requested = round_start PROVE Stamped0(next)'
    BY <1>8
  <2>1. Stamped0(p)'
    BY <1>5, <1>6, Untouched
  <2> QED
    BY <1>1, <1>5, <1>8, <2>1 DEF Stamped0, RequestStamps, ResponseStamps
<1> QED
  BY <1>5, <1>6, <1>8, <1>9, <1>10, PacketStep

\* The error of an offset, from those of the four times it is made of (x0 to x3)
\* and what the two ways of the path differ by.
LEMMA OffsetError ==
  ASSUME NEW D \in Nat, NEW W \in Nat, NEW J \in Nat, NEW A \in Nat, NEW B \in Nat,
         NEW x0 \in Int, NEW x1 \in Int, NEW x2 \in Int, NEW x3 \in Int,
         2 * D * Abs(x0) <= 2 * W + D * A, 2 * D * Abs(x3) <= 2 * W + D * A,
         2 * D * Abs(x1) <= 2 * W + D * B, 2 * D * Abs(x2) <= 2 * W + D * B,
         NEW way \in Int, NEW back \in Int, Abs(way - back) <= J,
         NEW off \in Int, NEW diff \in Int,
         NEW sum \in Int, sum = (way - back) + x1 + x2 - x0 - x3 + 2 * diff,
         2 * off - sum <= 1, sum - 2 * off <= 1
  PROVE  2 * D * Abs(off - diff) <= D * (J + 1 + A + B) + 4 * W
<1> DEFINE e == Abs(off - diff)
           a0 == Abs(x0)
           a1 == Abs(x1)
           a2 == Abs(x2)
           a3 == Abs(x3)
<1>1. e \in Nat /\ a0 \in Nat /\ a1 \in Nat /\ a2 \in Nat /\ a3 \in Nat
  BY AbsFacts
<1>2. 2 * e <= J + 1 + a0 + a1 + a2 + a3
  BY DEF Abs
<1> HIDE DEF e, a0, a1, a2, a3
<1>3. D * (2 * e) <= D * (J + 1 + a0 + a1 + a2 + a3)
  BY <1>1, <1>2, Monotone
<1> DEFINE p0 == D * a0
           p1 == D * a1
           p2 == D * a2
           p3 == D * a3
           pe == D * e
           pA == D * A
           pB == D * B
           pJ == D * (J + 1)
<1>4. /\ D * (J + 1 + a0 + a1 + a2 + a3) = pJ + p0 + p1 + p2 + p3
      /\ D * (J + 1 + A + B) = pJ + pA + pB
      /\ D * (2 * e) = 2 * pe /\ 2 * D * e = 2 * pe
      /\ pJ \in Int /\ pA \in Int /\ pB \in Int /\ pe \in Int
      /\ p0 \in Int /\ p1 \in Int /\ p2 \in Int /\ p3 \in Int
  BY <1>1
<1>5. /\ 2 * p0 <= 2 * W + pA /\ 2 * p3 <= 2 * W + pA
      /\ 2 * p1 <= 2 * W + pB /\ 2 * p2 <= 2 * W + pB
  <2>1. /\ 2 * D * a0 = 2 * p0 /\ 2 * D * a1 = 2 * p1
        /\ 2 * D * a2 = 2 * p2 /\ 2 * D * a3 = 2 * p3
    BY <1>1
  <2> QED
    BY <2>1 DEF a0, a1, a2, a3
<1> HIDE DEF p0, p1, p2, p3, pe, pA, pB, pJ
<1>6. 2 * D * e <= D * (J + 1 + A + B) + 4 * W
  BY <1>3, <1>4, <1>5
<1> QED
  BY <1>6 DEF e

LEMMA ReceiveNtpResStep ==
  ASSUME IInv, NEW p \in packets, ReceiveNtpResFromPeer(p)
  PROVE  IInv'
<1> DEFINE s == p.client
<1>1. Due(p, "processing") /\ p.type = "NTP_RESP"
  BY DEF ReceiveNtpResFromPeer
<1>2. PICK drift \in Drifts(s, Advance(s)) : AdvanceLocalTime(s, drift)
  BY DEF ReceiveNtpResFromPeer
<1>3. PICK o : o = [peer |-> p.server, path |-> p.path,
                    offset |-> MeasuredOffset(p), requested |-> p.requested]
  OBVIOUS
<1>4. /\ p \in Packet /\ p.stage = "processing" /\ p.at = now /\ now \in Nat
      /\ s \in Servers /\ now + Rest(p) <= p.requested + MaxRoundTrip
  BY <1>1, DueFacts DEF Packet
<1>5. /\ Advances(s, drift) /\ packets' = packets \ {p}
      /\ poff' = [poff EXCEPT ![s] = @ \cup {o}]
  BY <1>2, <1>3 DEF Advances, ReceiveNtpResFromPeer
<1>6. /\ now' = now /\ next_trigger' = next_trigger /\ continues' = continues
      /\ synchronization_round' = synchronization_round
      /\ round_start' = round_start /\ measured' = measured
  BY <1>5 DEF Advances, schedule
<1>7. PICK sum : sum = (p.t1 - p.t0) + (p.t2 - p.receive_time)
  OBVIOUS
<1>8. /\ sum \in Int /\ MeasuredOffset(p) \in Int
      /\ 2 * MeasuredOffset(p) - sum <= 1 /\ sum - 2 * MeasuredOffset(p) <= 1
  BY <1>4, <1>7, HalfFacts DEF MeasuredOffset, Packet
<1>9. /\ o \in Offset /\ o.peer = p.server /\ o.requested = p.requested
      /\ o.offset = MeasuredOffset(p)
  BY <1>3, <1>4, <1>8 DEF Offset, Packet
<1>10. \A c \in Servers : \A q \in poff'[c] : q \in poff[c] \/ (c = s /\ q = o)
  BY <1>4, <1>5 DEF IInv, TypeOK
<1>11. TypeOK'
  <2>1. poff' \in [Servers -> SUBSET Offset]
    BY <1>4, <1>5, <1>9 DEF IInv, TypeOK
  <2> QED
    BY <1>5, <1>6, <2>1, AdvanceStep DEF IInv, TypeOK
<1>12. Timing' /\ ClocksNear'
  BY <1>4, <1>5, AdvanceStep DEF IInv
<1>13. Rounds'
  BY <1>5, <1>6 DEF IInv, Rounds, PeriodsPassed, Collecting
<1>14. PacketTimes'
  BY <1>5, <1>6 DEF IInv, PacketTimes, OfThisRoundOrLast
<1>15. /\ now <= p.requested + MaxRoundTrip /\ OfThisRoundOrLast(p) /\ p.requested \in Nat
       /\ MaxRoundTrip \in Nat /\ round_start <= now
       /\ GlobalPeriod \in Nat /\ 0 < Window /\ Window < GlobalPeriod /\ Window \in Nat
       /\ MaxRoundTrip <= GlobalPeriod /\ round_start \in Nat
       /\ ~Collecting => now >= round_start + Window
  <2>1. Rest(p) = 0
    BY <1>1, <1>4 DEF Rest, StageRest
  <2>2. GlobalPeriod \in Nat /\ time_sync_period <= GlobalPeriod
    BY NtpAssumption DEF GlobalPeriod
  <2>3. OfThisRoundOrLast(p)
    BY DEF IInv, PacketTimes
  <2>4. ~Collecting => now >= round_start + Window
    BY DEF IInv, Rounds
  <2> QED
    BY <1>4, <2>1, <2>2, <2>3, <2>4, DelayFacts, NtpAssumption
       DEF IInv, Timing, TypeOK, Packet
<1>16. Late'
  <2>1. ~Collecting => o.requested = round_start /\ MaxRoundTrip >= Window
    BY <1>4, <1>9, <1>15 DEF OfThisRoundOrLast
  <2> QED
    BY <1>6, <1>10, <2>1 DEF IInv, Late, Collecting
<1>17. OffsetsRecent'
  <2>1. \/ o.requested = round_start
        \/ MaxRoundTrip >= Window /\ o.requested = round_start - GlobalPeriod
    BY <1>4, <1>9, <1>15 DEF OfThisRoundOrLast
  <2> QED
    BY <1>6, <1>10, <2>1 DEF IInv, OffsetsRecent, Collecting
<1>18. Stamps'
  BY <1>4, <1>5, <1>6, Untouched DEF IInv, Stamps, Collecting
<1>19. OffsetsAccurate'
  <2>1. ASSUME Collecting, o.requested = round_start PROVE OffsetAccurate(s, o)'
    <3> DEFINE mc == measured[s]
               ms == measured[p.server]
               x0 == (p.t0 - p.r0) - mc
               x1 == (p.t1 - p.r1) - ms
               x2 == (p.t2 - p.r2) - ms
               x3 == (p.receive_time - p.r3) - mc
               way == p.r1 - p.r0
               back == p.r3 - p.r2
               W == max_drift_per_day * Window
               A == advances'[s]
               B == advances'[p.server]
               J == MaxPathDelay - MinPathDelay
               off == MeasuredOffset(p)
               diff == ms - mc
    <3>1. ResponseStamps(p)' /\ ResponseStamps(p)
      BY <1>1, <1>4, <1>5, <1>9, <2>1, DueFacts, Untouched DEF Stamped0
    <3>2. /\ 2 * Day * Abs(x0) <= 2 * W + Day * A /\ 2 * Day * Abs(x3) <= 2 * W + Day * A
          /\ 2 * Day * Abs(x1) <= 2 * W + Day * B /\ 2 * Day * Abs(x2) <= 2 * W + Day * B
      BY <1>4, <1>6, <3>1 DEF ResponseStamps, InWindow
    <3>3. /\ Day \in Nat /\ W \in Nat /\ mc \in Int /\ ms \in Int /\ diff \in Int
          /\ A \in Nat /\ B \in Nat /\ p.server \in Servers
      BY <1>4, <1>11, NtpAssumption DEF IInv, TypeOK, Packet
    <3>4. /\ x0 \in Int /\ x1 \in Int /\ x2 \in Int /\ x3 \in Int
          /\ way \in Int /\ back \in Int
      BY <1>4, <3>3 DEF Packet
    <3>5. J \in Nat /\ Abs(way - back) <= J
      BY <1>4, <3>1, DelayFacts DEF ResponseStamps, Travel, Abs, Packet
    <3>6. sum = (way - back) + x1 + x2 - x0 - x3 + 2 * diff
      BY <1>4, <1>7, <3>3 DEF Packet
    <3>7. ErrorBound(s, p.server)' = Day * (J + 1 + A + B) + 4 * W
      BY DEF ErrorBound
    <3> HIDE DEF mc, ms, x0, x1, x2, x3, way, back, W, A, B, J, off
    <3>8. off \in Int /\ 2 * off - sum <= 1 /\ sum - 2 * off <= 1
      BY <1>8 DEF off
    <3>9. 2 * Day * Abs(off - diff) <= Day * (J + 1 + A + B) + 4 * W
      BY <1>8, <3>2, <3>3, <3>4, <3>5, <3>6, <3>8, OffsetError
    <3> QED
      BY <1>6, <1>9, <3>7, <3>9 DEF OffsetAccurate, off, diff, ms, mc
  <2>2. \A c \in Servers : \A q \in poff[c] :
          Collecting /\ q.requested = round_start => OffsetAccurate(c, q)'
    BY <1>4, <1>5, Untouched
  <2> QED
    BY <1>6, <1>10, <2>1, <2>2 DEF OffsetsAccurate, OffsetAccurate, Collecting
<1> QED
  BY <1>11, <1>12, <1>13, <1>14, <1>16, <1>17, <1>18, <1>19 DEF IInv

-----------------------------------------------------------------------------
(* The periods *)

LEMMA PeriodFacts ==
  /\ GlobalPeriod \in Nat /\ Window < time_sync_period /\ 0 < Window /\ Window \in Nat
  /\ time_sync_period \in Nat /\ time_sync_period <= GlobalPeriod
  /\ GlobalPeriod = g * time_sync_period /\ g \in Nat /\ g > 0
  /\ MaxRoundTrip <= GlobalPeriod
BY NtpAssumption DEF GlobalPeriod

\* All clocks are advanced and corrected.
LEMMA CorrectedClocks ==
  ASSUME IInv, NEW corrections \in SUBSET Int, AdvanceAndCorrect(corrections)
  PROVE  /\ local_time' \in [Servers -> Int]
         /\ real_time_of_last_time_advance' = [s \in Servers |-> now]
         /\ \A s \in Servers : Counted(s) \in Nat
<1>1. PICK drift \in AllDrifts, corr \in [Servers -> corrections] :
        /\ local_time' = [s \in Servers |-> AdvancedTime(s, drift[s]) + corr[s]]
        /\ real_time_of_last_time_advance' = [s \in Servers |-> now]
  BY DEF AdvanceAndCorrect
<1>2. ASSUME NEW s \in Servers
      PROVE  AdvancedTime(s, drift[s]) + corr[s] \in Int /\ Counted(s) \in Nat
  <2>1. Advance(s) \in Nat /\ drift[s] \in Drifts(s, Advance(s))
    BY DEF IInv, TypeOK, Timing, Advance, AllDrifts
  <2>2. drift[s] \in Int /\ corr[s] \in Int
    BY <2>1, DriftFacts
  <2> QED
    BY <2>1, <2>2 DEF IInv, TypeOK, AdvancedTime, Counted
<1> QED
  BY <1>1, <1>2

LEMMA ContinueStep ==
  ASSUME IInv, ContinueGlobalTimeSync
  PROVE  IInv'
<1>1. /\ now' = now /\ next_trigger' = next_trigger /\ packets' = packets
      /\ synchronization_round' = synchronization_round
      /\ round_start' = round_start /\ measured' = measured
      /\ advances' = [s \in Servers |-> Counted(s)]
      /\ poff' = [s \in Servers |-> {}]
  BY DEF ContinueGlobalTimeSync, Cleared
<1>2. /\ local_time' \in [Servers -> Int]
      /\ real_time_of_last_time_advance' = [s \in Servers |-> now]
      /\ \A s \in Servers : Counted(s) \in Nat
  BY CorrectedClocks, NtpAssumption DEF ContinueGlobalTimeSync
<1>3. now = round_start + Window /\ continues # {} /\ continues' = {}
  BY DEF ContinueGlobalTimeSync, IInv, Timing
<1>4. TypeOK'
  BY <1>1, <1>2, <1>3 DEF IInv, TypeOK
<1>5. Timing'
  BY <1>1, <1>2, <1>3 DEF IInv, Timing, TypeOK
<1>6. Rounds'
  BY <1>1, <1>3, PeriodFacts DEF IInv, Rounds, PeriodsPassed, Collecting, TypeOK
<1>7. PacketTimes'
  BY <1>1 DEF IInv, PacketTimes, OfThisRoundOrLast
<1>8. Late' /\ OffsetsRecent' /\ ClocksNear' /\ Stamps' /\ OffsetsAccurate'
  BY <1>1, <1>3 DEF Late, OffsetsRecent, ClocksNear, Stamps, OffsetsAccurate, Collecting
<1> QED
  BY <1>4, <1>5, <1>6, <1>7, <1>8 DEF IInv

\* When a round ends the offsets have been used, and no other is under way.
LEMMA TriggerFacts ==
  ASSUME IInv, TriggerDue
  PROVE  /\ ~Collecting
         /\ \/ /\ synchronization_round = 0 /\ packets = {}
               /\ \A s \in Servers : poff[s] = {}
            \/ now = round_start + PeriodsPassed * time_sync_period
         /\ PeriodsPassed \in Nat /\ PeriodsPassed > 0
         /\ time_sync_period <= PeriodsPassed * time_sync_period
         /\ PeriodsPassed * time_sync_period \in Nat
<1>1. /\ PeriodsPassed \in Nat /\ PeriodsPassed > 0
      /\ now \in Nat /\ round_start \in Nat
  BY PeriodFacts DEF PeriodsPassed, IInv, TypeOK
<1>2. /\ time_sync_period <= PeriodsPassed * time_sync_period
      /\ PeriodsPassed * time_sync_period \in Nat
  BY <1>1, PeriodFacts
<1>3. \/ /\ synchronization_round = 0 /\ packets = {} /\ ~Collecting
         /\ \A s \in Servers : poff[s] = {}
      \/ now = round_start + PeriodsPassed * time_sync_period
  BY DEF IInv, Rounds, TriggerDue, Collecting
<1>4. Collecting => now <= round_start + Window
  BY DEF IInv, Timing, Collecting
<1> QED
  BY <1>1, <1>2, <1>3, <1>4, PeriodFacts

LEMMA TriggerStep ==
  ASSUME IInv, TriggerCoreTimeSyncAlgo
  PROVE  IInv'
<1>1. /\ now' = now /\ next_trigger' = now + time_sync_period /\ poff' = poff
      /\ synchronization_round' = (synchronization_round + 1) % g
      /\ TriggerDue /\ now = next_trigger
  BY DEF TriggerCoreTimeSyncAlgo, TriggerDue
<1>2. /\ local_time' \in [Servers -> Int]
      /\ real_time_of_last_time_advance' = [s \in Servers |-> now]
      /\ \A s \in Servers : Counted(s) \in Nat
  BY CorrectedClocks, NtpAssumption DEF TriggerCoreTimeSyncAlgo
<1>3. /\ now \in Nat /\ round_start \in Nat /\ synchronization_round \in 0..(g - 1)
      /\ round_start <= now
  BY DEF IInv, TypeOK, Timing
<1>4. /\ synchronization_round' \in 0..(g - 1)
      /\ synchronization_round' =
           IF synchronization_round + 1 = g THEN 0 ELSE synchronization_round + 1
  BY <1>1, <1>3, PeriodFacts
<1>5. ~Collecting /\ continues = {}
  BY <1>1, TriggerFacts DEF Collecting
<1>6. CASE synchronization_round # 0
  <2>1. /\ packets' = packets /\ continues' = continues
        /\ round_start' = round_start /\ measured' = measured
        /\ advances' = [s \in Servers |-> Counted(s)]
    BY <1>6 DEF TriggerCoreTimeSyncAlgo
  <2>2. TypeOK'
    BY <1>1, <1>2, <1>3, <1>4, <2>1, PeriodFacts DEF IInv, TypeOK
  <2>3. Timing'
    BY <1>1, <1>2, <1>3, <1>5, <2>1, PeriodFacts DEF IInv, Timing
  <2>4. Rounds'
    <3>1. PeriodsPassed = synchronization_round /\ PeriodsPassed' = PeriodsPassed + 1
      BY <1>3, <1>4, <1>6, PeriodFacts DEF PeriodsPassed
    <3>2. now = round_start + PeriodsPassed * time_sync_period
          /\ PeriodsPassed \in Nat /\ time_sync_period <= PeriodsPassed * time_sync_period
      BY <1>1, <1>6, TriggerFacts
    <3>3. next_trigger' = round_start + PeriodsPassed' * time_sync_period
      BY <1>1, <1>3, <3>1, <3>2, PeriodFacts
    <3> QED
      BY <1>1, <1>3, <2>1, <3>2, <3>3, PeriodFacts DEF Rounds
  <2>5. PacketTimes' /\ Late'
    BY <1>1, <1>5, <2>1 DEF IInv, PacketTimes, OfThisRoundOrLast, Late, Collecting
  <2>6. OffsetsRecent' /\ ClocksNear' /\ Stamps' /\ OffsetsAccurate'
    BY <1>5, <2>1 DEF OffsetsRecent, ClocksNear, Stamps, OffsetsAccurate, Collecting
  <2> QED
    BY <2>2, <2>3, <2>4, <2>5, <2>6 DEF IInv
<1>7. CASE synchronization_round = 0
  <2>1. PICK delay \in [SelectedPaths -> QueueDelays] :
          packets' = packets \cup Requests(delay)
    BY <1>7 DEF TriggerCoreTimeSyncAlgo
  <2>2. /\ continues' = {now + Window} /\ round_start' = now
        /\ measured' = [s \in Servers |-> local_time'[s] - now]
        /\ advances' = [s \in Servers |-> 0]
    BY <1>5, <1>7 DEF TriggerCoreTimeSyncAlgo
  <2>3. \/ packets = {} /\ \A s \in Servers : poff[s] = {}
        \/ now = round_start + GlobalPeriod
    BY <1>1, <1>7, TriggerFacts, PeriodFacts DEF PeriodsPassed
  <2>4. ASSUME NEW p \in Requests(delay)
        PROVE  /\ p \in Packet /\ now <= p.at /\ p.requested = now
               /\ p.at + Rest(p) <= p.requested + MaxRoundTrip
               /\ p.stage = "queue" /\ p.type = "NTP_REQ"
    <3>1. PICK x \in SelectedPaths :
            p = [client |-> x[1], server |-> x[2], path |-> x[3],
                 type |-> "NTP_REQ", stage |-> "queue", at |-> now + delay[x],
                 t0 |-> local_time'[x[1]], t1 |-> 0, t2 |-> 0, receive_time |-> 0,
                 requested |-> now, r0 |-> now, r1 |-> 0, r2 |-> 0, r3 |-> 0]
      BY DEF Requests
    <3>2. x[1] \in Servers /\ x[2] \in Servers /\ x[3] \in STRING
      BY NtpAssumption
    <3>3. delay[x] \in Nat /\ delay[x] <= MaxQueueDelay /\ local_time'[x[1]] \in Int
      BY <1>2, <3>2, DelayFacts
    <3>4. p \in Packet
      BY <1>3, <3>1, <3>2, <3>3 DEF Packet
    <3>5. p.at = now + delay[x] /\ p.requested = now /\ p.stage = "queue"
          /\ p.type = "NTP_REQ"
      BY <3>1
    <3> QED
      BY <1>3, <3>3, <3>4, <3>5, DelayFacts DEF Rest, StageRest, Way
  <2>5. ASSUME NEW p \in packets
        PROVE  /\ p.requested = now - GlobalPeriod /\ p.requested # now
               /\ now <= p.at /\ p.at + Rest(p) <= p.requested + MaxRoundTrip
    <3>1. /\ p.requested \in Nat /\ p.at \in Nat
          /\ now <= p.at /\ p.at + Rest(p) <= p.requested + MaxRoundTrip
          /\ OfThisRoundOrLast(p) /\ p.type \in {"NTP_REQ", "NTP_RESP"}
      BY DEF IInv, PacketTimes, TypeOK, Packet
    <3>2. now = round_start + GlobalPeriod
      BY <2>3
    <3>3. Rest(p) \in Nat
      BY DelayFacts DEF Rest, StageRest
    <3> QED
      BY <1>3, <3>1, <3>2, <3>3, PeriodFacts, DelayFacts DEF OfThisRoundOrLast
  <2>6. ASSUME NEW s \in Servers, NEW o \in poff[s]
        PROVE  /\ o.requested = now - GlobalPeriod /\ MaxRoundTrip >= Window
               /\ o.requested # now
    <3>1. o.requested = round_start /\ MaxRoundTrip >= Window
      BY <1>5 DEF IInv, Late
    <3>2. now = round_start + GlobalPeriod
      BY <2>3
    <3> QED
      BY <1>3, <3>1, <3>2, PeriodFacts
  <2>7. TypeOK'
    BY <1>1, <1>2, <1>3, <1>4, <2>1, <2>2, <2>4, PeriodFacts DEF IInv, TypeOK
  <2>8. Timing'
    BY <1>1, <1>2, <1>3, <2>2, PeriodFacts DEF Timing
  <2>9. Rounds'
    <3>1. PeriodsPassed' = 1
      BY <1>4, <1>7 DEF PeriodsPassed
    <3> QED
      BY <1>1, <2>2, <3>1, PeriodFacts DEF Rounds, Collecting
  <2>10. PacketTimes'
    <3>1. \A q : Rest(q)' = Rest(q)
      BY DEF Rest, StageRest, Way
    <3> QED
      BY <1>1, <2>1, <2>2, <2>4, <2>5, <3>1 DEF PacketTimes, OfThisRoundOrLast
  <2>11. Late' /\ OffsetsRecent'
    BY <1>1, <2>2, <2>6 DEF Late, OffsetsRecent, Collecting
  <2>12. ClocksNear'
    <3> SUFFICES ASSUME NEW s \in Servers
                 PROVE  Near(s, local_time[s] - now, now)'
      BY <1>1, <1>2, <1>3, <2>2 DEF ClocksNear
    <3>1. local_time'[s] - now \in Int /\ measured'[s] = local_time'[s] - now
          /\ advances'[s] = 0
      BY <1>2, <1>3, <2>2
    <3>2. Abs((local_time'[s] - now) - measured'[s]) = 0
      BY <3>1 DEF Abs
    <3>3. now' - round_start' = 0
      BY <1>1, <1>3, <2>2
    <3> QED
      BY <1>1, <3>1, <3>2, <3>3, NtpAssumption DEF Near
  <2>13. Stamps'
    BY <2>1, <2>2, <2>4, <2>5 DEF Stamps, Stamped0, RequestStamps
  <2>14. OffsetsAccurate'
    BY <1>1, <2>2, <2>6 DEF OffsetsAccurate
  <2> QED
    BY <2>7, <2>8, <2>9, <2>10, <2>11, <2>12, <2>13, <2>14 DEF IInv
<1> QED
  BY <1>6, <1>7

LEMMA NextEventStep ==
  ASSUME IInv, NextEvent
  PROVE  IInv'
<1>1. /\ next_trigger' = next_trigger /\ continues' = continues /\ packets' = packets
      /\ synchronization_round' = synchronization_round /\ poff' = poff
      /\ round_start' = round_start /\ measured' = measured /\ advances' = advances
      /\ local_time' = local_time
      /\ real_time_of_last_time_advance' = real_time_of_last_time_advance
  BY DEF NextEvent, schedule, clocks
<1>2. now' \in Events /\ now < now' /\ \A t \in Events : now' <= t
  BY DEF NextEvent
<1>3. now' \in Nat /\ now \in Nat
  <2>1. \A p \in packets : p.at \in Nat
    BY DEF IInv, TypeOK, Packet
  <2> QED
    BY <1>2, <2>1, NtpAssumption DEF IInv, TypeOK, Events
<1>4. /\ \A t \in continues : now' <= t
      /\ \A p \in packets : now' <= p.at
      /\ next_trigger < last_event => now' <= next_trigger
  BY <1>2 DEF Events
<1>5. TypeOK'
  BY <1>1, <1>3 DEF IInv, TypeOK
<1>6. Timing'
  BY <1>1, <1>2, <1>3, <1>4 DEF IInv, Timing, TypeOK
<1>7. Rounds'
  BY <1>1, <1>2, <1>3, PeriodFacts DEF IInv, Rounds, PeriodsPassed, Collecting, TypeOK
<1>8. PacketTimes'
  BY <1>1, <1>4 DEF IInv, PacketTimes, OfThisRoundOrLast
<1>9. Late' /\ OffsetsRecent'
  BY <1>1 DEF IInv, Late, OffsetsRecent, Collecting
<1>10. ClocksNear'
  BY <1>1 DEF IInv, ClocksNear, Near, Collecting
<1>11. Stamps'
  <2>1. \A q : Stamped0(q)' = Stamped0(q)
    BY <1>1 DEF Stamped0, RequestStamps, ResponseStamps, InWindow
  <2> QED
    BY <1>1, <2>1 DEF IInv, Stamps, Collecting
<1>12. OffsetsAccurate'
  BY <1>1 DEF IInv, OffsetsAccurate, ErrorBound, Collecting
<1> QED
  BY <1>5, <1>6, <1>7, <1>8, <1>9, <1>10, <1>11, <1>12 DEF IInv

LEMMA StutterStep ==
  ASSUME IInv, UNCHANGED vars
  PROVE  IInv'
<1>1. /\ now' = now /\ next_trigger' = next_trigger /\ continues' = continues
      /\ packets' = packets /\ synchronization_round' = synchronization_round
      /\ poff' = poff /\ round_start' = round_start /\ measured' = measured
      /\ advances' = advances /\ local_time' = local_time
      /\ real_time_of_last_time_advance' = real_time_of_last_time_advance
  BY DEF vars, schedule, clocks
<1>2. TypeOK' /\ Timing' /\ Rounds' /\ PacketTimes' /\ Late' /\ OffsetsRecent'
  BY <1>1 DEF IInv, TypeOK, Timing, Rounds, PeriodsPassed, PacketTimes,
              OfThisRoundOrLast, Late, OffsetsRecent, Collecting
<1>3. ClocksNear'
  BY <1>1 DEF IInv, ClocksNear, Near, Collecting
<1>4. Stamps'
  <2>1. \A q : Stamped0(q)' = Stamped0(q)
    BY <1>1 DEF Stamped0, RequestStamps, ResponseStamps, InWindow
  <2> QED
    BY <1>1, <2>1 DEF IInv, Stamps, Collecting
<1>5. OffsetsAccurate'
  BY <1>1 DEF IInv, OffsetsAccurate, ErrorBound, Collecting
<1> QED
  BY <1>2, <1>3, <1>4, <1>5 DEF IInv

LEMMA InitInvariant ==
  ASSUME Init
  PROVE  IInv
<1>1. TypeOK
  <2>1. local_time \in [Servers -> Int]
    BY NtpAssumption DEF Init
  <2>2. synchronization_round \in 0..(g - 1)
    BY PeriodFacts DEF Init
  <2> QED
    BY <2>1, <2>2 DEF Init, TypeOK
<1>2. Timing /\ Rounds /\ PacketTimes
  BY DEF Init, Timing, Rounds, PacketTimes
<1>3. Late /\ OffsetsRecent /\ ClocksNear /\ Stamps /\ OffsetsAccurate
  BY DEF Init, Late, OffsetsRecent, ClocksNear, Stamps, OffsetsAccurate, Collecting
<1> QED
  BY <1>1, <1>2, <1>3 DEF IInv

-----------------------------------------------------------------------------
(* Theorems *)

\* The invariant is inductive: no handler, in whatever order the events of the
\* servers and of their packets come, breaks it.
THEOREM Invariant == Spec => []IInv
<1>1. Init => IInv
  BY InitInvariant
<1>2. IInv /\ [Next]_vars => IInv'
  <2> SUFFICES ASSUME IInv, [Next]_vars PROVE IInv'
    OBVIOUS
  <2>1. CASE TriggerCoreTimeSyncAlgo
    BY <2>1, TriggerStep
  <2>2. CASE ContinueGlobalTimeSync
    BY <2>2, ContinueStep
  <2>3. ASSUME NEW p \in packets,
               \/ Send(p) \/ ScheduleReceive(p) \/ Receive(p)
               \/ ReceiveNtpReqFromPeer(p) \/ ReceiveNtpResFromPeer(p)
        PROVE  IInv'
    BY <2>3, SendStep, ScheduleReceiveStep, ReceiveStep, ReceiveNtpReqStep,
       ReceiveNtpResStep
  <2>4. ASSUME NEW s \in Servers, OtherEvent(s)
        PROVE  IInv'
    BY <2>4, OtherEventStep
  <2>5. CASE NextEvent
    BY <2>5, NextEventStep
  <2>6. CASE UNCHANGED vars
    BY <2>6, StutterStep
  <2> QED
    BY <2>1, <2>2, <2>3, <2>4, <2>5, <2>6 DEF Next
<1> QED
  BY <1>1, <1>2, PTL DEF Spec

\* The times, the packets and the offsets are of their types throughout.
THEOREM TypeCorrect == Spec => []TypeOK
<1>1. IInv => TypeOK
  BY DEF IInv
<1> QED
  BY <1>1, Invariant, PTL

\* An offset differs from that of the clocks by no more than the drift in the
\* window, the rounding at every advance, and half of what the ways of the path
\* differ by: whatever the servers, their queues and their clocks.
THEOREM MeasuresAccurately == Spec => []OffsetsAccurate
<1>1. IInv => OffsetsAccurate
  BY DEF IInv
<1> QED
  BY <1>1, Invariant, PTL

\* No offset is used more than one global synchronisation after its own, and
\* none outside its own if the answers take less than two seconds.
THEOREM NeverTooLate == Spec => []OffsetsRecent
<1>1. IInv => OffsetsRecent
  BY DEF IInv
<1> QED
  BY <1>1, Invariant, PTL

=============================================================================
