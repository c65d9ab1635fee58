----------------------------- MODULE AppReports -----------------------------
(***************************************************************************)
(* The feedback of one path of one application: the sender numbers its     *)
(* packets and remembers those in flight (apps/polaris.cc), the receiving  *)
(* host opens a connection for the path, collects what arrives in a report *)
(* and sends it when a frame is complete, when the report is old, or when  *)
(* the periodic check finds it due (scion-host.cc).  The host has a clock  *)
(* of its own, which its events bring up to date: packets that come, that  *)
(* are sent and that leave, and the timers of the interface by which the   *)
(* reports leave (scion-capable-node.cc).                                  *)
(*                                                                         *)
(* Packets overtake each other in the processing queues and are dropped in *)
(* full transmission queues (a dropped packet is one that never arrives);  *)
(* reports overtake each other but are never dropped.  Of a report only    *)
(* its packets, its time stamp, the arrival of its newest packet and the   *)
(* time at which it leaves the host are kept.  All packets of a report     *)
(* that has not been sent belong to one frame, the frame of the newest.    *)
(***************************************************************************)
EXTENDS Integers, FiniteSets

CONSTANTS
  max_report_interval,   \* 25 ms
  connection_timeout,    \* 1000 ms
  collection_period,     \* 1000 ms
  MaxQueueing,           \* bound of the time a packet waits to leave the host
  MaxOther,              \* bound: packets the host sends for other connections
  MaxSeq,                \* bound: packets the sender numbers
  MaxFrame,              \* bound: frames the sender begins
  MaxTime                \* bound of the clock

ASSUME ReportsAssumption ==
  /\ max_report_interval \in Nat \ {0}
  /\ connection_timeout \in Nat \ {0}
  /\ collection_period \in Nat /\ MaxQueueing \in Nat \ {0} /\ MaxOther \in Nat
  /\ MaxSeq \in Nat /\ MaxFrame \in Nat /\ MaxTime \in Nat

VARIABLES
  now,               \* Simulator::Now()
  \* the sender
  sequence_number,   \* of the next packet, on whatever path
  frame_no,
  is_active,         \* the path is the sender's active_path
  in_flight,         \* in_flight_packets of the path
  \* the network
  data,              \* packets on their way: [seq, frame]
  responses,         \* reports on their way: [packets, timestamp, newest, departure]
  \* the receiving host
  local_time,        \* its clock, set by AdvanceLocalTime
  sends,             \* times of its pending Send events
  timers,            \* times of the pending UpdateInterfaceEstimation events
  last_estimate,     \* last_update of the interface by which the reports leave
  traffic,           \* current_throughput_bytes of that interface is not 0
  other_packets,     \* packets sent for other connections so far
  connected,         \* connection_infos holds the connection
  first_frame,       \* ConnectionInfo::frame_no
  last_update,
  report,            \* numbers of the packets of the current report
  report_frame,      \* frame of the newest packet of the report
  time_created,      \* of the current report
  checks,            \* times of the pending CheckConnectionTimeout events
  \* history, read by properties only
  opened,            \* time the connection was opened
  accepted,          \* packets added to a report so far
  reported,          \* packets of the reports the sender has processed
  received, lost     \* the answers given to the congestion controller

sender == <<sequence_number, frame_no, is_active>>
answers == <<reported, received, lost>>
connection == <<connected, first_frame, last_update, report, report_frame,
                time_created, checks, opened, accepted>>
estimation == <<timers, last_estimate, traffic>>
interface == <<sends, estimation, other_packets>>
vars == <<now, sender, in_flight, data, responses, local_time, interface, connection,
          answers>>

Numbers == 0 .. MaxSeq
Data == [seq : Numbers, frame : Nat]
Response == [packets : SUBSET Numbers, timestamp : Nat, newest : Nat, departure : Nat]

TypeOK ==
  /\ now \in Nat /\ local_time \in Nat
  /\ sends \subseteq Nat /\ timers \subseteq Nat
  /\ last_estimate \in Nat /\ traffic \in BOOLEAN /\ other_packets \in Nat
  /\ sequence_number \in Numbers /\ frame_no \in Nat /\ is_active \in BOOLEAN
  /\ in_flight \subseteq Numbers
  /\ data \subseteq Data /\ responses \subseteq Response
  /\ connected \in BOOLEAN
  /\ first_frame \in Nat /\ report_frame \in Nat
  /\ last_update \in Nat /\ time_created \in Nat /\ opened \in Nat
  /\ report \subseteq Numbers /\ accepted \subseteq Numbers
  /\ checks \subseteq Nat
  /\ reported \subseteq Numbers /\ received \subseteq Numbers /\ lost \subseteq Numbers

-----------------------------------------------------------------------------
(* The sender *)

\* ScheduleSend, as far as packets tell: the frame number goes up.
BeginFrame ==
  /\ frame_no < MaxFrame
  /\ frame_no' = frame_no + 1
  /\ UNCHANGED <<now, sequence_number, is_active, in_flight, data, responses, local_time,
                 interface, connection, answers>>

\* The packet carries the number the frame counter has when it is sent.
AppData == [seq |-> sequence_number, frame |-> frame_no]

\* SendPacket on this path: only packets on the active path are tracked.
SendPacket ==
  /\ sequence_number < MaxSeq
  /\ sequence_number' = sequence_number + 1
  /\ data' = data \cup {AppData}
  /\ in_flight' = IF is_active THEN in_flight \cup {sequence_number} ELSE in_flight
  /\ UNCHANGED <<now, frame_no, is_active, responses, local_time, interface, connection,
                 answers>>

\* SendPacket on another path: all paths draw on one sequence_number.
SendPacketElsewhere ==
  /\ sequence_number < MaxSeq
  /\ sequence_number' = sequence_number + 1
  /\ UNCHANGED <<now, frame_no, is_active, in_flight, data, responses, local_time,
                 interface, connection, answers>>

\* SwitchToPath away from this path, or to it: what was in flight on the new
\* path is forgotten.
SwitchToPath ==
  /\ is_active' = ~is_active
  /\ in_flight' = IF is_active THEN in_flight ELSE {}
  /\ UNCHANGED <<now, sequence_number, frame_no, data, responses, local_time,
                 interface, connection, answers>>

\* Mutant: the packet with the highest number stays in flight.
AnswerBelow(packets) ==
  LET upto == {s \in in_flight : \E r \in packets : s <= r} IN
  /\ in_flight' = {s \in in_flight : \A r \in packets : r <= s}
  /\ received' = received \cup (upto \cap packets)
  /\ lost' = lost \cup (upto \ packets)

\* Every packet in flight up to the highest number of the report is answered
\* and no longer in flight; those not in the report count as lost.
AnswerInFlight(packets) ==
  LET upto == {s \in in_flight : \E r \in packets : s <= r} IN
  /\ in_flight' = in_flight \ upto
  /\ received' = received \cup (upto \cap packets)
  /\ lost' = lost \cup (upto \ packets)

\* A report that has left the host.
HasLeft(r) == r.departure <= now /\ r.departure \notin sends

ReceiveAppResponse(r) ==
  /\ r \in responses /\ HasLeft(r)
  /\ responses' = responses \ {r}
  /\ reported' = reported \cup r.packets
  /\ AnswerInFlight(r.packets)
  /\ UNCHANGED <<now, sender, data, local_time, interface, connection>>

-----------------------------------------------------------------------------
(* The clock of the host and the interface by which its reports leave *)

AdvanceLocalTime == local_time' = now

\* UpdateInterfaceEstimation: when more than a period has passed, a new one begins,
\* and if there was traffic in the old one, a timer is set for its end.
UpdateInterfaceEstimation(pending, more_traffic) ==
  LET due == now - last_estimate > collection_period IN
  /\ AdvanceLocalTime
  /\ last_estimate' = IF due THEN now ELSE last_estimate
  /\ timers' = pending \cup IF due /\ traffic THEN {now + collection_period + 1} ELSE {}
  /\ traffic' = (more_traffic \/ (traffic /\ ~due))

EstimationTimer ==
  /\ now \in timers
  /\ UpdateInterfaceEstimation(timers \ {now}, FALSE)
  /\ UNCHANGED <<now, sender, in_flight, data, responses, sends, other_packets, connection,
                 answers>>

\* The times at which a packet that is sent now may leave: the transmission takes
\* some time even if the queue is empty.
Departures == now + 1 .. now + MaxQueueing

ScheduleForSend(departure) ==
  /\ UpdateInterfaceEstimation(timers, TRUE)
  /\ sends' = sends \cup {departure}

\* Send: a packet, a report or another one, leaves the transmission queue.
Send ==
  /\ now \in sends
  /\ sends' = sends \ {now}
  /\ AdvanceLocalTime
  /\ UNCHANGED <<now, sender, in_flight, data, responses, estimation, other_packets,
                 connection, answers>>

\* ScheduleForSend when the queue is full; reports are never dropped.
DropPacket == UpdateInterfaceEstimation(timers, TRUE) /\ UNCHANGED sends

\* The host sends a packet of another path or application.
SendOtherPacket ==
  /\ other_packets < MaxOther
  /\ other_packets' = other_packets + 1
  /\ DropPacket \/ \E departure \in Departures : ScheduleForSend(departure)
  /\ UNCHANGED <<now, sender, in_flight, data, responses, connection, answers>>

\* The host receives a packet of another path or application, or a packet leaves by
\* another interface of it.
OtherPacketAtHost ==
  /\ local_time # now
  /\ AdvanceLocalTime
  /\ UNCHANGED <<now, sender, in_flight, data, responses, interface, connection, answers>>

-----------------------------------------------------------------------------
(* The receiving host *)

\* The report leaves after the packets that wait in the queue.
ScheduleReport(packets, stamp, newest) ==
  \E departure \in Departures :
    /\ responses' = responses \cup
         {[packets |-> packets, timestamp |-> stamp, newest |-> newest,
           departure |-> departure]}
    /\ ScheduleForSend(departure)

\* Mutant: the report is not replaced after it was sent.
SendAppRespKeepingReport(packets, stamp, newest) ==
  /\ ScheduleReport(packets, stamp, newest)
  /\ report' = packets
  /\ time_created' = now

\* Mutant: the report is stamped with the time it was created.
SendAppRespStampedEarly(packets, stamp, newest) ==
  /\ ScheduleReport(packets, time_created, newest)
  /\ report' = {}
  /\ time_created' = now

\* SendAppResp: the report is stamped with the host's clock, newest is the
\* arrival of its newest packet.  A fresh report takes its place.
SendAppResp(packets, stamp, newest) ==
  /\ ScheduleReport(packets, stamp, newest)
  /\ report' = {}
  /\ time_created' = now

\* The current report, or that of the connection being opened.
Packets == IF connected THEN report ELSE {}
Age == IF connected THEN now - time_created ELSE 0

\* IsFrameComplete after packet d has been added.
IsFrameComplete(d) == Packets # {} /\ d.frame # report_frame

OpenConnection(d) ==
  IF connected
    THEN UNCHANGED <<connected, first_frame, checks, opened>>
    ELSE /\ connected' = TRUE
         /\ first_frame' = d.frame
         /\ checks' = checks \cup {now + connection_timeout}
         /\ opened' = now

\* ReceiveAppData: a packet of a frame before the one the connection was
\* opened with is ignored.
ReceiveAppData(d) ==
  /\ d \in data
  /\ data' = data \ {d}
  /\ AdvanceLocalTime
  /\ OpenConnection(d)
  /\ IF connected /\ d.frame < first_frame
       THEN UNCHANGED <<last_update, report, report_frame, time_created, accepted,
                        responses, sends, estimation>>
       ELSE /\ last_update' = now
            /\ accepted' = accepted \cup {d.seq}
            /\ report_frame' = d.frame
            /\ IF IsFrameComplete(d) \/ Age > max_report_interval
                 THEN SendAppResp(Packets \cup {d.seq}, now, now)
                 ELSE /\ report' = Packets \cup {d.seq}
                      /\ time_created' = IF connected THEN time_created ELSE now
                      /\ UNCHANGED <<responses, sends, estimation>>
  /\ UNCHANGED <<now, sender, in_flight, other_packets, answers>>

\* A report that is sent for its age, before the connection is looked at.
ReportIsOld == report # {} /\ Age > max_report_interval

\* The clock of the host when the check reads it: sending the report has
\* advanced it, the check itself does not.
ClockOfCheck == IF ReportIsOld THEN now ELSE local_time

\* Mutant: the time since the connection was opened counts.
OpenTooLong == ClockOfCheck - opened > connection_timeout

\* The connection has seen no packet for connection_timeout, by the clock of
\* the host.
TimedOut == ClockOfCheck - last_update > connection_timeout

\* Mutant: the final report is sent even if it is empty.
ReportDueOrFinal == TimedOut \/ ReportIsOld

\* A report that is old, or the last one before the connection is closed.
ReportDue == report # {} /\ (ReportIsOld \/ TimedOut)

\* Mutant: the check is scheduled again after the connection was closed.
ScheduleCheckAlways == checks' = (checks \ {now}) \cup {now + max_report_interval}

\* Mutant: the check comes again only after connection_timeout.
ScheduleCheckLate ==
  checks' = (checks \ {now}) \cup IF connected' THEN {now + connection_timeout} ELSE {}

ScheduleCheck ==
  checks' = (checks \ {now}) \cup IF connected' THEN {now + max_report_interval} ELSE {}

CheckConnectionTimeout ==
  /\ now \in checks
  /\ connected' = (connected /\ ~TimedOut)
  /\ ScheduleCheck
  /\ IF connected /\ ReportDue
       THEN SendAppResp(report, local_time, last_update)
       ELSE UNCHANGED <<responses, report, time_created, local_time, sends, estimation>>
  /\ UNCHANGED <<now, sender, in_flight, data, other_packets, first_frame, last_update,
                 report_frame, opened, accepted, answers>>

-----------------------------------------------------------------------------
\* The simulator's clock stops at the time of every pending event of the host.
Tick ==
  /\ now < MaxTime
  /\ \A t \in checks \cup sends \cup timers : now < t
  /\ now' = now + 1
  /\ UNCHANGED <<sender, in_flight, data, responses, local_time, interface, connection,
                 answers>>

Init ==
  /\ now = 0 /\ local_time = 0
  /\ sends = {} /\ timers = {}
  /\ last_estimate = 0 /\ traffic = FALSE /\ other_packets = 0
  /\ sequence_number = 0 /\ frame_no = 0 /\ is_active \in BOOLEAN
  /\ in_flight = {} /\ data = {} /\ responses = {}
  /\ connected = FALSE
  /\ first_frame = 0 /\ report_frame = 0
  /\ last_update = 0 /\ time_created = 0 /\ opened = 0
  /\ report = {} /\ accepted = {} /\ checks = {}
  /\ reported = {} /\ received = {} /\ lost = {}

Next ==
  \/ Tick
  \/ BeginFrame
  \/ SendPacket
  \/ SendPacketElsewhere
  \/ SwitchToPath
  \/ \E r \in responses : ReceiveAppResponse(r)
  \/ \E d \in data : ReceiveAppData(d)
  \/ CheckConnectionTimeout
  \/ EstimationTimer
  \/ Send
  \/ SendOtherPacket
  \/ OtherPacketAtHost

Spec == Init /\ [][Next]_vars

-----------------------------------------------------------------------------
(* Properties *)

\* ReceiveAppResponse reads the last packet of a report before it tests for
\* an empty report, and SendAppResp divides by the number of packets: no
\* report is sent empty.
ReportsNeverEmpty == \A r \in responses : r.packets # {}

\* Every accepted packet is in exactly one report, the current one, one under
\* way, or one the sender has processed (SendAppResp replaces the report).
EachPacketReportedOnce ==
  /\ accepted = report \cup reported \cup UNION {r.packets : r \in responses}
  /\ report \cap reported = {}
  /\ \A r \in responses :
       /\ r.packets \cap (report \cup reported) = {}
       /\ \A q \in responses : q # r => q.packets \cap r.packets = {}

\* The reports SendAppResp makes partition what ReceiveAppData has accepted: none is
\* empty, and no packet is missing or in two of them.
ReportsPartitionPackets == ReportsNeverEmpty /\ EachPacketReportedOnce

\* An open connection has exactly one pending check, a closed one none: a
\* path that comes back to life is not checked by two chains of events
\* (ReceiveAppData, CheckConnectionTimeout).
OneCheckPerConnection ==
  IF connected THEN \E t \in checks : checks = {t} /\ now <= t
               ELSE checks = {}

\* No packet waits in a report for longer than twice max_report_interval
\* after the report was begun; only the first report may have to wait for the
\* first check (CheckConnectionTimeout).
ReportedInTime ==
  connected /\ report # {} =>
    \/ now <= time_created + 2 * max_report_interval
    \/ now <= opened + connection_timeout

\* The sender adds the delay of the newest packet and the age of the report
\* to a round-trip time: the report is not stamped before that packet arrived
\* nor after the present, though the host's clock may be behind.
StampCoversPackets == \A r \in responses : r.newest <= r.timestamp /\ r.timestamp <= now

\* However far the host's clock is behind, a connection is closed only if no
\* packet was accepted for connection_timeout, and with nothing left to
\* report (CheckConnectionTimeout).
ClosedOnlyWhenQuiet ==
  [][connected /\ ~connected' =>
       /\ now - last_update > connection_timeout
       /\ report' = {}]_vars

\* The sender's bookkeeping and the receiver's reports together keep the
\* promise made to the congestion controller: no packet is answered twice or
\* after it was forgotten (ReceiveAppResponse, SwitchToPath).
Feedback == INSTANCE PacketFeedback WITH arrived <- accepted
FeedbackSpec == Feedback!Spec

\* scion-host.h: connection_timeout is the time after which a connection is considered
\* dead.  The check comes every max_report_interval; and the clock it reads may
\* wait for two timers of the interface, which follow each other while packets leave.
DeadConnectionIsClosed ==
  connected =>
    now <= last_update + connection_timeout + max_report_interval
             + 2 * (collection_period + 1)
=============================================================================
