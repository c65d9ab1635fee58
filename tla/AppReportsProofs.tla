-------------------------- MODULE AppReportsProofs --------------------------
(***************************************************************************)
(* Theorems about AppReports, for every interval, timeout and bound.       *)
(*                                                                         *)
(* The inductive invariant is IInv: the types, the ages of packet numbers  *)
(* (Numbered), the disjointness of reports, which needs that none is empty *)
(* (two equal reports would be one), and the position of the next check    *)
(* relative to the age of the current report (ChecksInTime).               *)
(***************************************************************************)
EXTENDS AppReports, TLAPS

\* Every number in use is below the next one, and a packet that is still on
\* its way has not been accepted and is alone with its number.
Numbered ==
  /\ \A s \in in_flight \cup accepted \cup received \cup lost : s < sequence_number
  /\ \A d \in data : d.seq < sequence_number /\ d.seq \notin accepted
  /\ \A d, e \in data : d.seq = e.seq => d = e

\* The next check comes within max_report_interval, and before the current
\* report is twice as old as that; the first check is the exception.
ChecksInTime ==
  connected =>
    \A t \in checks :
      \/ t = opened + connection_timeout
      \/ /\ t <= now + max_report_interval
         /\ report # {} => t <= time_created + 2 * max_report_interval

\* The clocks of the host and of the connection are not ahead of the present.
ClocksBehind ==
  /\ local_time <= now
  /\ connected => last_update <= local_time /\ time_created <= now

\* A connection that is closed leaves no packet unreported.
NothingLeftBehind == ~connected => report = {}

IInv ==
  /\ TypeOK
  /\ Numbered
  /\ ReportsNeverEmpty
  /\ EachPacketReportedOnce
  /\ NothingLeftBehind
  /\ OneCheckPerConnection
  /\ ChecksInTime
  /\ ClocksBehind
  /\ StampCoversPackets

-----------------------------------------------------------------------------
\* Init establishes the invariant.
LEMMA InitIInv == Init => IInv
<1> SUFFICES ASSUME Init PROVE IInv
  OBVIOUS
<1>1. TypeOK
  <2>1. 0 \in Numbers /\ 0 \in Nat
    BY ReportsAssumption DEF Numbers
  <2> QED
    BY <2>1 DEF Init, TypeOK
<1>2. Numbered /\ ReportsNeverEmpty /\ EachPacketReportedOnce /\ NothingLeftBehind
  BY DEF Init, Numbered, ReportsNeverEmpty, EachPacketReportedOnce, NothingLeftBehind
<1>3. OneCheckPerConnection /\ ChecksInTime /\ ClocksBehind /\ StampCoversPackets
  BY DEF Init, OneCheckPerConnection, ChecksInTime, ClocksBehind, StampCoversPackets
<1> QED
  BY <1>1, <1>2, <1>3 DEF IInv

\* The kinds of steps at the receiving host, spelled out once.  A report that is sent
\* joins those under way, and sending it advances the clock.
LEMMA ReportSent ==
  ASSUME NEW packets, NEW stamp, NEW newest, SendAppResp(packets, stamp, newest)
  PROVE  /\ \E departure \in Departures :
              responses' = responses \cup
                {[packets |-> packets, timestamp |-> stamp, newest |-> newest,
                  departure |-> departure]}
         /\ report' = {} /\ time_created' = now /\ local_time' = now
  BY DEF SendAppResp, ScheduleReport, ScheduleForSend, UpdateInterfaceEstimation,
         AdvanceLocalTime

\* Whatever else happens at the host advances its clock and changes nothing but
\* that and the interface.
LEMMA ClockStep ==
  ASSUME EstimationTimer \/ Send \/ SendOtherPacket \/ OtherPacketAtHost
  PROVE  /\ local_time' = now
         /\ UNCHANGED <<now, sender, in_flight, data, responses, connection, answers>>
  BY DEF EstimationTimer, Send, SendOtherPacket, OtherPacketAtHost, DropPacket,
         ScheduleForSend, UpdateInterfaceEstimation, AdvanceLocalTime

\* The clock of the host and its interface keep their types.
LEMMA InterfaceStep ==
  ASSUME TypeOK, [Next]_vars
  PROVE  /\ local_time' \in Nat /\ sends' \subseteq Nat /\ timers' \subseteq Nat
         /\ last_estimate' \in Nat /\ traffic' \in BOOLEAN /\ other_packets' \in Nat
<1> USE ReportsAssumption
<1> DEFINE Goal == /\ local_time' \in Nat /\ sends' \subseteq Nat /\ timers' \subseteq Nat
                   /\ last_estimate' \in Nat /\ traffic' \in BOOLEAN
                   /\ other_packets' \in Nat
<1>0. /\ now \in Nat /\ local_time \in Nat /\ sends \subseteq Nat /\ timers \subseteq Nat
      /\ last_estimate \in Nat /\ traffic \in BOOLEAN /\ other_packets \in Nat
      /\ Departures \subseteq Nat /\ now + collection_period + 1 \in Nat
  BY DEF TypeOK, Departures
<1>u. ASSUME UNCHANGED <<sends, estimation, other_packets>>, local_time' \in {local_time, now}
      PROVE  Goal
  BY <1>0, <1>u DEF estimation
<1>e. ASSUME NEW pending \in SUBSET timers, NEW more \in BOOLEAN,
             UpdateInterfaceEstimation(pending, more)
      PROVE  /\ local_time' \in Nat /\ timers' \subseteq Nat /\ last_estimate' \in Nat
             /\ traffic' \in BOOLEAN
  <2>1. /\ local_time' = now /\ last_estimate' \in {now, last_estimate}
        /\ timers' \subseteq timers \cup {now + collection_period + 1}
        /\ traffic' \in BOOLEAN
    BY <1>0, <1>e DEF UpdateInterfaceEstimation, AdvanceLocalTime
  <2> QED
    BY <1>0, <2>1
<1>s. ASSUME NEW departure \in Departures, ScheduleForSend(departure)
      PROVE  /\ local_time' \in Nat /\ timers' \subseteq Nat /\ last_estimate' \in Nat
             /\ traffic' \in BOOLEAN /\ sends' \subseteq Nat
  <2>1. UpdateInterfaceEstimation(timers, TRUE) /\ sends' = sends \cup {departure}
    BY <1>s DEF ScheduleForSend
  <2> QED
    BY <1>0, <1>e, <2>1
<1>r. ASSUME NEW P, NEW stamp, NEW newest, SendAppResp(P, stamp, newest),
             other_packets' = other_packets
      PROVE  Goal
  <2>1. PICK departure \in Departures : ScheduleForSend(departure)
    BY <1>r DEF SendAppResp, ScheduleReport
  <2> QED
    BY <1>0, <1>r, <1>s, <2>1
<1>1. CASE EstimationTimer
  <2>1. /\ UpdateInterfaceEstimation(timers \ {now}, FALSE)
        /\ UNCHANGED <<sends, other_packets>>
    BY <1>1 DEF EstimationTimer
  <2> QED
    BY <1>0, <1>e, <2>1
<1>2. CASE Send
  BY <1>0, <1>2 DEF Send, AdvanceLocalTime, estimation
<1>3. CASE SendOtherPacket
  <2>1. other_packets' \in Nat
    BY <1>0, <1>3 DEF SendOtherPacket
  <2>2. CASE DropPacket
    BY <1>0, <1>e, <2>1, <2>2 DEF DropPacket
  <2>3. CASE \E departure \in Departures : ScheduleForSend(departure)
    BY <1>s, <2>1, <2>3
  <2> QED
    BY <1>3, <2>2, <2>3 DEF SendOtherPacket
<1>4. CASE OtherPacketAtHost
  BY <1>4, <1>u DEF OtherPacketAtHost, AdvanceLocalTime, interface
<1>5. ASSUME NEW d \in data, ReceiveAppData(d) PROVE Goal
  <2>1. local_time' = now /\ other_packets' = other_packets
    BY <1>5 DEF ReceiveAppData, AdvanceLocalTime
  <2>2. \/ UNCHANGED <<sends, estimation>>
        \/ SendAppResp(Packets \cup {d.seq}, now, now)
    BY <1>5 DEF ReceiveAppData
  <2> QED
    BY <1>r, <1>u, <2>1, <2>2
<1>6. CASE CheckConnectionTimeout
  <2>1. other_packets' = other_packets
    BY <1>6 DEF CheckConnectionTimeout
  <2>2. \/ UNCHANGED <<local_time, sends, estimation>>
        \/ SendAppResp(report, local_time, last_update)
    BY <1>6 DEF CheckConnectionTimeout
  <2> QED
    BY <1>r, <1>u, <2>1, <2>2
<1>7. CASE Tick \/ BeginFrame \/ SendPacket \/ SendPacketElsewhere \/ SwitchToPath
           \/ (\E r \in responses : ReceiveAppResponse(r)) \/ UNCHANGED vars
  <2>1. UNCHANGED <<local_time, sends, estimation, other_packets>>
    BY <1>7 DEF Tick, BeginFrame, SendPacket, SendPacketElsewhere, SwitchToPath,
                ReceiveAppResponse, vars, interface
  <2> QED
    BY <1>u, <2>1
<1> QED
  BY <1>1, <1>2, <1>3, <1>4, <1>5, <1>6, <1>7 DEF Next

\* A data packet is ignored, added to the current report, or it
\* completes the report.
LEMMA DataStep ==
  ASSUME NEW d \in data, ReceiveAppData(d)
  PROVE  /\ data' = data \ {d} /\ local_time' = now /\ now' = now
         /\ UNCHANGED <<sender, in_flight, answers>>
         /\ OpenConnection(d)
         /\ \/ /\ connected
               /\ UNCHANGED <<last_update, report, report_frame, time_created, accepted,
                              responses>>
            \/ /\ last_update' = now /\ accepted' = accepted \cup {d.seq}
               /\ report_frame' = d.frame
               /\ SendAppResp(Packets \cup {d.seq}, now, now)
            \/ /\ last_update' = now /\ accepted' = accepted \cup {d.seq}
               /\ report_frame' = d.frame
               /\ report' = Packets \cup {d.seq}
               /\ ~(Age > max_report_interval)
               /\ time_created' = IF connected THEN time_created ELSE now
               /\ responses' = responses
  BY DEF ReceiveAppData, AdvanceLocalTime, sender, answers

\* A check sends the report that is due, or leaves the host as it is.
LEMMA CheckStep ==
  ASSUME CheckConnectionTimeout
  PROVE  /\ now \in checks
         /\ connected' = (connected /\ ~TimedOut)
         /\ ScheduleCheck
         /\ UNCHANGED <<now, sender, in_flight, data, first_frame, last_update,
                         report_frame, opened, accepted, answers>>
         /\ \/ /\ connected /\ ReportDue /\ local_time' = now
               /\ SendAppResp(report, local_time, last_update)
            \/ /\ ~(connected /\ ReportDue)
               /\ UNCHANGED <<responses, report, time_created, local_time>>
  BY ReportSent DEF CheckConnectionTimeout

-----------------------------------------------------------------------------
\* Every step keeps the types.
LEMMA TypeStep == TypeOK /\ [Next]_vars => TypeOK'
<1> SUFFICES ASSUME TypeOK, [Next]_vars PROVE TypeOK'
  OBVIOUS
<1> USE ReportsAssumption
<1>i. /\ local_time' \in Nat /\ sends' \subseteq Nat /\ timers' \subseteq Nat
      /\ last_estimate' \in Nat /\ traffic' \in BOOLEAN /\ other_packets' \in Nat
  BY InterfaceStep
<1>0. /\ now \in Nat /\ local_time \in Nat
      /\ sequence_number \in Numbers /\ frame_no \in Nat /\ is_active \in BOOLEAN
      /\ in_flight \subseteq Numbers
      /\ data \subseteq Data /\ responses \subseteq Response
      /\ connected \in BOOLEAN
      /\ first_frame \in Nat /\ report_frame \in Nat
      /\ last_update \in Nat /\ time_created \in Nat /\ opened \in Nat
      /\ report \subseteq Numbers /\ accepted \subseteq Numbers
      /\ checks \subseteq Nat
      /\ reported \subseteq Numbers /\ received \subseteq Numbers /\ lost \subseteq Numbers
  BY DEF TypeOK
<1>s. ASSUME NEW packets \in SUBSET Numbers, NEW stamp \in Nat, NEW newest \in Nat,
             SendAppResp(packets, stamp, newest)
      PROVE  responses' \subseteq Response /\ report' \subseteq Numbers /\ time_created' \in Nat
  <2>1. PICK departure \in Departures :
          responses' = responses \cup
            {[packets |-> packets, timestamp |-> stamp, newest |-> newest,
              departure |-> departure]}
    BY <1>s, ReportSent
  <2>2. [packets |-> packets, timestamp |-> stamp, newest |-> newest,
         departure |-> departure] \in Response
    BY <1>0 DEF Response, Departures
  <2>3. report' = {} /\ time_created' = now
    BY <1>s, ReportSent
  <2> QED
    BY <1>0, <2>1, <2>2, <2>3
<1>1. CASE Tick
  BY <1>0, <1>i, <1>1 DEF Tick, TypeOK, sender, connection, answers
<1>2. CASE BeginFrame
  BY <1>0, <1>i, <1>2 DEF BeginFrame, TypeOK, connection, answers
<1>3. CASE SendPacket
  <2>1. sequence_number' \in Numbers
    BY <1>0, <1>3 DEF SendPacket, Numbers
  <2>2. AppData \in Data
    BY <1>0 DEF AppData, Data
  <2> QED
    BY <1>0, <1>i, <1>3, <2>1, <2>2 DEF SendPacket, TypeOK, connection, answers
<1>4. CASE SendPacketElsewhere
  <2>1. sequence_number' \in Numbers
    BY <1>0, <1>4 DEF SendPacketElsewhere, Numbers
  <2> QED
    BY <1>0, <1>i, <1>4, <2>1 DEF SendPacketElsewhere, TypeOK, connection, answers
<1>5. CASE SwitchToPath
  BY <1>0, <1>i, <1>5 DEF SwitchToPath, TypeOK, connection, answers
<1>7. ASSUME NEW r \in responses, ReceiveAppResponse(r) PROVE TypeOK'
  <2>1. r.packets \subseteq Numbers
    BY <1>0 DEF Response
  <2> QED
    BY <1>0, <1>i, <1>7, <2>1 DEF ReceiveAppResponse, AnswerInFlight, TypeOK, sender, connection
<1>8. ASSUME NEW d \in data, ReceiveAppData(d) PROVE TypeOK'
  <2>1. d.seq \in Numbers /\ d.frame \in Nat
    BY <1>0 DEF Data
  <2>2. Packets \cup {d.seq} \subseteq Numbers
    BY <1>0, <2>1 DEF Packets
  <2>3. /\ connected' \in BOOLEAN /\ first_frame' \in Nat
        /\ checks' \subseteq Nat /\ opened' \in Nat
    <3>1. OpenConnection(d)
      BY <1>8, DataStep
    <3>2. now + connection_timeout \in Nat
      BY <1>0
    <3>3. CASE connected
      BY <1>0, <3>1, <3>3 DEF OpenConnection
    <3>4. CASE ~connected
      BY <1>0, <2>1, <3>1, <3>2, <3>4 DEF OpenConnection
    <3> QED
      BY <3>3, <3>4
  <2>4. /\ last_update' \in Nat /\ accepted' \subseteq Numbers /\ report_frame' \in Nat
        /\ responses' \subseteq Response /\ report' \subseteq Numbers /\ time_created' \in Nat
    <3>1. CASE SendAppResp(Packets \cup {d.seq}, now, now)
      BY <1>0, <1>8, <2>1, <2>2, <3>1, <1>s, DataStep
    <3>2. CASE ~SendAppResp(Packets \cup {d.seq}, now, now)
      BY <1>0, <1>8, <2>1, <2>2, <3>2, DataStep
    <3> QED
      BY <3>1, <3>2
  <2>5. /\ data' \subseteq Data /\ now' = now
        /\ UNCHANGED <<sender, in_flight, answers>>
    BY <1>0, <1>8, DataStep
  <2> QED
    BY <1>0, <1>i, <2>3, <2>4, <2>5 DEF TypeOK, sender, answers
<1>9. CASE CheckConnectionTimeout
  <2>1. checks' \subseteq Nat /\ connected' \in BOOLEAN
    <3>1. ScheduleCheck /\ connected' = (connected /\ ~TimedOut)
      BY <1>9, CheckStep
    <3>2. connected' \in BOOLEAN
      BY <1>0, <3>1, Zenon
    <3>3. now + max_report_interval \in Nat
      BY <1>0
    <3>4. checks' \subseteq checks \cup {now + max_report_interval}
      BY <3>1 DEF ScheduleCheck
    <3> QED
      BY <1>0, <3>2, <3>3, <3>4
  <2>2. responses' \subseteq Response /\ report' \subseteq Numbers /\ time_created' \in Nat
    BY <1>0, <1>9, <1>s, CheckStep
  <2> QED
    BY <1>0, <1>i, <1>9, <2>1, <2>2, CheckStep DEF TypeOK, sender, answers
<1>10. CASE EstimationTimer \/ Send \/ SendOtherPacket \/ OtherPacketAtHost
  BY <1>0, <1>i, <1>10, ClockStep DEF TypeOK, sender, connection, answers
<1>11. CASE UNCHANGED vars
  BY <1>0, <1>i, <1>11 DEF vars, TypeOK, sender, connection, answers
<1> QED
  BY <1>1, <1>2, <1>3, <1>4, <1>5, <1>7, <1>8, <1>9, <1>10, <1>11 DEF Next

-----------------------------------------------------------------------------
\* Every step keeps the order of the packet numbers.
LEMMA NumberedStep ==
  TypeOK /\ EachPacketReportedOnce /\ Numbered /\ [Next]_vars => Numbered'
<1> SUFFICES ASSUME TypeOK, EachPacketReportedOnce, Numbered, [Next]_vars PROVE Numbered'
  OBVIOUS
<1>0. /\ sequence_number \in Nat
      /\ \A d \in data : d.seq \in Nat
      /\ \A s \in in_flight \cup accepted \cup received \cup lost :
           s \in Nat /\ s < sequence_number
      /\ \A d \in data : d.seq < sequence_number /\ d.seq \notin accepted
      /\ \A d, e \in data : d.seq = e.seq => d = e
  BY ReportsAssumption DEF TypeOK, Numbered, Numbers, Data
<1>1. CASE Tick
  BY <1>0, <1>1 DEF Tick, Numbered, sender, connection, answers
<1>2. CASE BeginFrame
  BY <1>0, <1>2 DEF BeginFrame, Numbered, connection, answers
<1>3. CASE SendPacket
  <2>1. /\ sequence_number' = sequence_number + 1
        /\ data' = data \cup {AppData}
        /\ in_flight' \subseteq in_flight \cup {sequence_number}
        /\ UNCHANGED <<accepted, received, lost>>
    BY <1>3 DEF SendPacket, connection, answers
  <2>2. AppData.seq = sequence_number /\ sequence_number < sequence_number + 1
    BY <1>0 DEF AppData
  <2>3. \A s : s \in Nat /\ s < sequence_number => s < sequence_number + 1 /\ s # sequence_number
    BY <1>0
  <2>4. sequence_number \notin accepted
    BY <1>0
  <2>5. \A s \in (in_flight \cup accepted \cup received \cup lost)' : s < sequence_number'
    BY <1>0, <2>1, <2>2, <2>3
  <2>6. \A d \in data' : d.seq < sequence_number' /\ d.seq \notin accepted'
    BY <1>0, <2>1, <2>2, <2>3, <2>4
  <2>7. \A d, e \in data' : d.seq = e.seq => d = e
    BY <1>0, <2>1, <2>2, <2>3
  <2> QED
    BY <2>5, <2>6, <2>7 DEF Numbered
<1>4. CASE SendPacketElsewhere
  <2>1. \A s : s \in Nat /\ s < sequence_number => s < sequence_number + 1
    BY <1>0
  <2> QED
    BY <1>0, <1>4, <2>1 DEF SendPacketElsewhere, Numbered, connection, answers
<1>5. CASE SwitchToPath
  BY <1>0, <1>5 DEF SwitchToPath, Numbered, connection, answers
<1>7. ASSUME NEW r \in responses, ReceiveAppResponse(r) PROVE Numbered'
  BY <1>0, <1>7 DEF ReceiveAppResponse, AnswerInFlight, Numbered, sender, connection
<1>8. ASSUME NEW d \in data, ReceiveAppData(d) PROVE Numbered'
  <2>1. /\ data' = data \ {d}
        /\ accepted' \subseteq accepted \cup {d.seq}
        /\ UNCHANGED <<sequence_number, in_flight, received, lost>>
    BY <1>8, DataStep DEF sender, answers
  <2>2. \A e \in data' : e.seq \notin accepted'
    BY <1>0, <2>1
  <2> QED
    BY <1>0, <2>1, <2>2 DEF Numbered
<1>9. CASE CheckConnectionTimeout
  BY <1>0, <1>9, CheckStep DEF Numbered, sender, answers
<1>10. CASE EstimationTimer \/ Send \/ SendOtherPacket \/ OtherPacketAtHost
  BY <1>0, <1>10, ClockStep DEF Numbered, sender, connection, answers
<1>11. CASE UNCHANGED vars
  BY <1>0, <1>11 DEF vars, Numbered, sender, connection, answers
<1> QED
  BY <1>1, <1>2, <1>3, <1>4, <1>5, <1>7, <1>8, <1>9, <1>10, <1>11 DEF Next

-----------------------------------------------------------------------------
\* The packets of a set of reports, element by element.
LEMMA UnionPackets ==
  ASSUME NEW R, NEW x
  PROVE  x \in UNION {r.packets : r \in R} <=> \E r \in R : x \in r.packets
  OBVIOUS

\* The current report and new packets P leave the host as a report: it is
\* not empty, and apart from all others.
LEMMA ReportLeaves ==
  ASSUME ReportsNeverEmpty, EachPacketReportedOnce,
         NEW P, NEW stamp, NEW newest,
         P # {}, report \subseteq P,
         \A x \in P : x \in report \/ x \notin accepted,
         SendAppResp(P, stamp, newest),
         accepted' = accepted \cup P, reported' = reported
  PROVE  ReportsNeverEmpty' /\ EachPacketReportedOnce'
<1>0. PICK departure \in Departures :
        responses' = responses \cup
          {[packets |-> P, timestamp |-> stamp, newest |-> newest, departure |-> departure]}
  BY ReportSent
<1> DEFINE new == [packets |-> P, timestamp |-> stamp, newest |-> newest,
                   departure |-> departure]
<1>1. responses' = responses \cup {new} /\ report' = {} /\ new.packets = P
  BY <1>0, ReportSent
<1> HIDE DEF new
<1>2. /\ \A x : x \in accepted <=> \/ x \in report \/ x \in reported
                                  \/ \E r \in responses : x \in r.packets
      /\ report \cap reported = {}
      /\ \A r \in responses :
           /\ r.packets \cap (report \cup reported) = {}
           /\ \A q \in responses : q # r => q.packets \cap r.packets = {}
  BY UnionPackets DEF EachPacketReportedOnce
<1>3. P \cap reported = {} /\ \A r \in responses : P \cap r.packets = {}
  BY <1>2
<1>4. \A x : x \in accepted' <=> \/ x \in report' \/ x \in reported'
                               \/ \E r \in responses' : x \in r.packets
  BY <1>1, <1>2
<1>5. accepted' = report' \cup reported' \cup UNION {r.packets : r \in responses'}
  BY <1>4, UnionPackets
<1>6. \A r \in responses' :
        /\ r.packets \cap (report' \cup reported') = {}
        /\ \A q \in responses' : q # r => q.packets \cap r.packets = {}
  BY <1>1, <1>2, <1>3
<1>7. ReportsNeverEmpty'
  BY <1>1 DEF ReportsNeverEmpty
<1> QED
  BY <1>1, <1>5, <1>6, <1>7 DEF EachPacketReportedOnce

\* Every step keeps the reports apart, complete and not empty.
LEMMA ReportsStep ==
  ASSUME TypeOK, Numbered, ReportsNeverEmpty, EachPacketReportedOnce, NothingLeftBehind,
         [Next]_vars
  PROVE  ReportsNeverEmpty' /\ EachPacketReportedOnce' /\ NothingLeftBehind'
<1> DEFINE Goal == ReportsNeverEmpty' /\ EachPacketReportedOnce' /\ NothingLeftBehind'
<1>0. connected \in BOOLEAN /\ Packets = report
  BY DEF TypeOK, Packets, NothingLeftBehind
<1>u. ASSUME UNCHANGED <<responses, report, accepted, reported, connected>> PROVE Goal
  BY <1>u DEF ReportsNeverEmpty, EachPacketReportedOnce, NothingLeftBehind
<1>1. CASE Tick \/ BeginFrame \/ SendPacket \/ SendPacketElsewhere \/ SwitchToPath
           \/ UNCHANGED vars
  BY <1>1, <1>u DEF Tick, BeginFrame, SendPacket, SendPacketElsewhere, SwitchToPath,
                    vars, connection, answers
<1>2. CASE EstimationTimer \/ Send \/ SendOtherPacket \/ OtherPacketAtHost
  BY <1>2, <1>u, ClockStep DEF connection, answers
<1>3. ASSUME NEW r \in responses, ReceiveAppResponse(r) PROVE Goal
  <2>1. /\ responses' = responses \ {r} /\ reported' = reported \cup r.packets
        /\ UNCHANGED <<report, accepted, connected>>
    BY <1>3 DEF ReceiveAppResponse, connection
  <2>2. ReportsNeverEmpty'
    BY <2>1 DEF ReportsNeverEmpty
  <2>3. \A x : (\E q \in responses : x \in q.packets)
               <=> x \in r.packets \/ (\E q \in responses' : x \in q.packets)
    BY <2>1
  <2>4. reported' \cup UNION {q.packets : q \in responses'}
          = reported \cup UNION {q.packets : q \in responses}
    BY <2>1, <2>3, UnionPackets
  <2>5. accepted' = report' \cup reported' \cup UNION {q.packets : q \in responses'}
    BY <2>1, <2>4 DEF EachPacketReportedOnce
  <2>6. /\ report' \cap reported' = {}
        /\ \A q \in responses' :
             /\ q.packets \cap (report' \cup reported') = {}
             /\ \A t \in responses' : t # q => t.packets \cap q.packets = {}
    BY <2>1 DEF EachPacketReportedOnce
  <2> QED
    BY <2>1, <2>2, <2>5, <2>6 DEF EachPacketReportedOnce, NothingLeftBehind
<1>4. ASSUME NEW d \in data, ReceiveAppData(d) PROVE Goal
  <2>1. d.seq \notin accepted /\ reported' = reported
    BY <1>4, DataStep DEF Numbered, answers
  <2>2. connected' = TRUE
    BY <1>0, <1>4, DataStep DEF OpenConnection
  <2>3. NothingLeftBehind'
    BY <2>2 DEF NothingLeftBehind
  <2>4. CASE connected /\ UNCHANGED <<report, accepted, responses>>
    BY <1>u, <2>1, <2>2, <2>4
  <2>5. CASE accepted' = accepted \cup {d.seq} /\ SendAppResp(Packets \cup {d.seq}, now, now)
    <3>1. accepted' = accepted \cup (report \cup {d.seq})
      BY <2>5 DEF EachPacketReportedOnce
    <3>2. SendAppResp(report \cup {d.seq}, now, now)
      BY <1>0, <2>5
    <3>3. report \cup {d.seq} # {} /\ \A x \in report \cup {d.seq} : x \in report \/ x \notin accepted
      BY <2>1
    <3> QED
      BY <2>1, <2>3, <3>1, <3>2, <3>3, ReportLeaves
  <2>6. CASE /\ accepted' = accepted \cup {d.seq}
             /\ report' = Packets \cup {d.seq} /\ responses' = responses
    <3>1. report' = report \cup {d.seq}
      BY <1>0, <2>6
    <3>2. ReportsNeverEmpty'
      BY <2>6 DEF ReportsNeverEmpty
    <3>3. d.seq \notin reported /\ \A q \in responses : d.seq \notin q.packets
      BY <2>1, UnionPackets DEF EachPacketReportedOnce
    <3> QED
      BY <2>1, <2>3, <2>6, <3>1, <3>2, <3>3 DEF EachPacketReportedOnce
  <2> QED
    BY <1>4, <2>4, <2>5, <2>6, DataStep
<1>5. CASE CheckConnectionTimeout
  <2>1. connected' = (connected /\ ~TimedOut) /\ UNCHANGED <<accepted, reported>>
    BY <1>5, CheckStep DEF answers
  <2>2. CASE connected /\ ReportDue /\ SendAppResp(report, local_time, last_update)
    <3>1. report # {} /\ report \subseteq accepted /\ report' = {}
      BY <2>2, ReportSent DEF ReportDue, EachPacketReportedOnce
    <3>2. accepted' = accepted \cup report
      BY <2>1, <3>1
    <3>3. ReportsNeverEmpty' /\ EachPacketReportedOnce'
      BY <2>1, <2>2, <3>1, <3>2, ReportLeaves
    <3> QED
      BY <3>1, <3>3 DEF NothingLeftBehind
  <2>3. CASE ~(connected /\ ReportDue) /\ UNCHANGED <<responses, report>>
    <3>1. NothingLeftBehind'
      BY <1>0, <2>1, <2>3 DEF NothingLeftBehind, ReportDue
    <3> QED
      BY <2>1, <2>3, <3>1 DEF ReportsNeverEmpty, EachPacketReportedOnce
  <2> QED
    BY <1>5, <2>2, <2>3, CheckStep
<1> QED
  BY <1>1, <1>2, <1>3, <1>4, <1>5 DEF Next

-----------------------------------------------------------------------------
\* Every step keeps the next check where it has to be.
LEMMA ChecksStep ==
  ASSUME TypeOK, OneCheckPerConnection, ChecksInTime, ClocksBehind, [Next]_vars
  PROVE  OneCheckPerConnection' /\ ChecksInTime'
<1> USE ReportsAssumption
<1> DEFINE Goal == OneCheckPerConnection' /\ ChecksInTime'
<1>0. /\ now \in Nat /\ opened \in Nat /\ time_created \in Nat
      /\ connected \in BOOLEAN /\ checks \subseteq Nat
  BY DEF TypeOK
<1>1. CASE Tick
  <2>1. now' = now + 1 /\ (\A t \in checks : now < t) /\ UNCHANGED connection
    BY <1>1 DEF Tick
  <2>2. \A t \in checks : now + 1 <= t
    BY <1>0, <2>1
  <2>3. OneCheckPerConnection'
    BY <2>1, <2>2 DEF OneCheckPerConnection, connection
  <2>4. \A t \in Nat : t <= now + max_report_interval => t <= (now + 1) + max_report_interval
    BY <1>0
  <2>5. ChecksInTime'
    BY <1>0, <2>1, <2>4 DEF ChecksInTime, connection
  <2> QED
    BY <2>3, <2>5
<1>2. CASE UNCHANGED <<now, connection>>
  BY <1>2 DEF OneCheckPerConnection, ChecksInTime, connection
<1>3. ASSUME NEW d \in data, ReceiveAppData(d) PROVE Goal
  <2>1. now' = now /\ OpenConnection(d)
    BY <1>3, DataStep
  <2>2. CASE ~connected
    <3>1. connected' = TRUE /\ opened' = now /\ checks' = {now + connection_timeout}
      BY <2>1, <2>2 DEF OpenConnection, OneCheckPerConnection
    <3>2. now <= now + connection_timeout
      BY <1>0
    <3> QED
      BY <2>1, <3>1, <3>2 DEF OneCheckPerConnection, ChecksInTime
  <2>3. CASE connected
    <3>1. UNCHANGED <<now, connected, checks, opened>>
      BY <2>1, <2>3 DEF OpenConnection
    <3>2. OneCheckPerConnection'
      BY <3>1 DEF OneCheckPerConnection
    <3>3. CASE UNCHANGED <<report, time_created>>
      BY <3>1, <3>2, <3>3 DEF ChecksInTime
    <3>4. CASE report' = {}
      BY <3>1, <3>2, <3>4 DEF ChecksInTime
    <3>5. CASE ~(Age > max_report_interval) /\ time_created' = time_created
      <4>1. now <= time_created + max_report_interval
        BY <1>0, <2>3, <3>5 DEF Age
      <4>2. \A t \in Nat : t <= now + max_report_interval
                            => t <= time_created + 2 * max_report_interval
        BY <1>0, <4>1
      <4>3. \A t \in checks : \/ t = opened + connection_timeout
                              \/ t <= now + max_report_interval
        BY <2>3 DEF ChecksInTime
      <4> QED
        BY <1>0, <3>1, <3>2, <3>5, <4>2, <4>3 DEF ChecksInTime
    <3> QED
      BY <1>3, <2>3, <3>3, <3>4, <3>5, DataStep, ReportSent
  <2> QED
    BY <1>0, <2>2, <2>3
<1>4. CASE CheckConnectionTimeout
  <2>1. /\ now \in checks /\ ScheduleCheck /\ now' = now /\ opened' = opened
        /\ connected' = (connected /\ ~TimedOut)
    BY <1>4, CheckStep
  <2>2. checks = {now} /\ connected
    BY <1>0, <2>1 DEF OneCheckPerConnection
  <2>3. CASE ~connected'
    BY <2>1, <2>2, <2>3 DEF ScheduleCheck, OneCheckPerConnection, ChecksInTime
  <2>4. CASE connected'
    <3>1. checks' = {now + max_report_interval}
      BY <2>1, <2>2, <2>4 DEF ScheduleCheck
    <3>2. now <= now + max_report_interval
      BY <1>0
    <3>3. OneCheckPerConnection'
      BY <2>1, <2>4, <3>1, <3>2 DEF OneCheckPerConnection
    <3>4. report' # {} => now + max_report_interval <= time_created' + 2 * max_report_interval
      <4>1. SUFFICES ASSUME report' # {}
                     PROVE now + max_report_interval <= time_created' + 2 * max_report_interval
        OBVIOUS
      <4>2. ~ReportDue /\ report # {} /\ time_created' = time_created
        BY <1>4, <2>2, <4>1, CheckStep, ReportSent
      <4>3. ~(now - time_created > max_report_interval)
        BY <2>2, <4>2 DEF ReportDue, ReportIsOld, Age
      <4> QED
        BY <1>0, <4>2, <4>3
    <3>5. ChecksInTime'
      BY <1>0, <2>1, <3>1, <3>4 DEF ChecksInTime
    <3> QED
      BY <3>3, <3>5
  <2> QED
    BY <2>3, <2>4
<1>5. CASE ~Tick /\ ~CheckConnectionTimeout /\ (\A d \in data : ~ReceiveAppData(d))
  <2>1. UNCHANGED <<now, connection>>
    BY <1>5, ClockStep DEF Next, vars, BeginFrame, SendPacket, SendPacketElsewhere,
                           SwitchToPath, ReceiveAppResponse
  <2> QED
    BY <1>2, <2>1
<1> QED
  BY <1>1, <1>3, <1>4, <1>5

\* Every step keeps the clocks in order.
LEMMA ClocksStep ==
  ASSUME TypeOK, ClocksBehind, StampCoversPackets, [Next]_vars
  PROVE  ClocksBehind' /\ StampCoversPackets'
<1> DEFINE Goal == ClocksBehind' /\ StampCoversPackets'
<1>0. /\ now \in Nat /\ local_time \in Nat /\ last_update \in Nat /\ time_created \in Nat
      /\ connected \in BOOLEAN
      /\ \A r \in responses : r.newest \in Nat /\ r.timestamp \in Nat
  BY DEF TypeOK, Response
<1>s. ASSUME NEW P, NEW stamp, NEW newest, SendAppResp(P, stamp, newest), now' = now,
             newest <= stamp, stamp <= now
      PROVE  StampCoversPackets' /\ time_created' = now
  BY <1>s, ReportSent DEF StampCoversPackets
<1>1. CASE Tick
  <2>1. now' = now + 1 /\ UNCHANGED <<responses, local_time, connection>>
    BY <1>1 DEF Tick
  <2>2. \A t \in Nat : t <= now => t <= now + 1
    BY <1>0
  <2> QED
    BY <1>0, <2>1, <2>2 DEF ClocksBehind, StampCoversPackets, connection
<1>2. ASSUME NEW d \in data, ReceiveAppData(d) PROVE Goal
  <2>1. now' = now /\ local_time' = now
    BY <1>2, DataStep
  <2>2. CASE connected /\ UNCHANGED <<last_update, responses, time_created>>
    BY <1>0, <2>1, <2>2 DEF ClocksBehind, StampCoversPackets
  <2>3. CASE last_update' = now /\ SendAppResp(Packets \cup {d.seq}, now, now)
    <3>1. now <= now
      BY <1>0
    <3>2. StampCoversPackets' /\ time_created' = now
      BY <1>s, <2>1, <2>3, <3>1
    <3> QED
      BY <2>1, <2>3, <3>1, <3>2 DEF ClocksBehind
  <2>4. CASE /\ last_update' = now /\ responses' = responses
             /\ time_created' = IF connected THEN time_created ELSE now
    BY <1>0, <2>1, <2>4 DEF ClocksBehind, StampCoversPackets
  <2> QED
    BY <1>2, <2>2, <2>3, <2>4, DataStep
<1>3. CASE CheckConnectionTimeout
  <2>1. /\ now' = now /\ local_time' \in {now, local_time} /\ last_update' = last_update
        /\ connected' = (connected /\ ~TimedOut)
    BY <1>3, CheckStep
  <2>2. CASE connected /\ SendAppResp(report, local_time, last_update)
    <3>1. StampCoversPackets' /\ time_created' = now
      BY <1>s, <2>1, <2>2 DEF ClocksBehind
    <3> QED
      BY <1>0, <2>1, <2>2, <3>1 DEF ClocksBehind
  <2>3. CASE UNCHANGED <<responses, time_created>>
    BY <1>0, <2>1, <2>3 DEF ClocksBehind, StampCoversPackets
  <2> QED
    BY <1>3, <2>2, <2>3, CheckStep
<1>4. CASE EstimationTimer \/ Send \/ SendOtherPacket \/ OtherPacketAtHost
  <2>1. local_time' = now /\ now' = now /\ UNCHANGED <<responses, connection>>
    BY <1>4, ClockStep
  <2>2. now <= now /\ (connected => last_update <= now)
    BY <1>0 DEF ClocksBehind
  <2> QED
    BY <2>1, <2>2 DEF ClocksBehind, StampCoversPackets, connection
<1>6. CASE responses' \subseteq responses /\ UNCHANGED <<now, local_time, connection>>
  BY <1>6 DEF ClocksBehind, StampCoversPackets, connection
<1>7. CASE BeginFrame \/ SendPacket \/ SendPacketElsewhere \/ SwitchToPath \/ UNCHANGED vars
           \/ \E r \in responses : ReceiveAppResponse(r)
  BY <1>6, <1>7 DEF BeginFrame, SendPacket, SendPacketElsewhere, SwitchToPath, vars,
                    ReceiveAppResponse
<1> QED
  BY <1>1, <1>2, <1>3, <1>4, <1>7 DEF Next

-----------------------------------------------------------------------------
\* The invariant is inductive.
LEMMA NextIInv == IInv /\ [Next]_vars => IInv'
  BY TypeStep, NumberedStep, ReportsStep, ChecksStep, ClocksStep DEF IInv

LEMMA Invariance == Spec => []IInv
  BY InitIInv, NextIInv, PTL DEF Spec

\* Every variable keeps its type.
THEOREM TypeCorrect == Spec => []TypeOK
<1>1. IInv => TypeOK
  BY DEF IInv
<1> QED
  BY <1>1, Invariance, PTL

\* Whatever is lost, overtaken, closed and opened again, every packet the host
\* accepts is in exactly one report, and the sender never sees an empty one, whose
\* last packet it would read.
THEOREM PacketsReportedOnce == Spec => []ReportsPartitionPackets
<1>1. IInv => ReportsPartitionPackets
  BY DEF IInv, ReportsPartitionPackets
<1> QED
  BY <1>1, Invariance, PTL

\* An open connection has one chain of checks, a closed one none.
THEOREM OneCheck == Spec => []OneCheckPerConnection
<1>1. IInv => OneCheckPerConnection
  BY DEF IInv
<1> QED
  BY <1>1, Invariance, PTL

\* No packet waits for longer than two intervals after its report was begun,
\* except for the first check: the pending check is due by then.
THEOREM PacketsReportedInTime == Spec => []ReportedInTime
<1>1. IInv => ReportedInTime
  <2> SUFFICES ASSUME IInv, connected, report # {} PROVE
        \/ now <= time_created + 2 * max_report_interval
        \/ now <= opened + connection_timeout
    BY DEF ReportedInTime
  <2>1. PICK t \in checks : now <= t
    BY DEF IInv, OneCheckPerConnection
  <2>2. now \in Nat /\ t \in Nat /\ time_created \in Nat /\ opened \in Nat
    BY DEF IInv, TypeOK
  <2>3. \/ t = opened + connection_timeout
        \/ t <= time_created + 2 * max_report_interval
    BY DEF IInv, ChecksInTime
  <2> QED
    BY <2>1, <2>2, <2>3, ReportsAssumption
<1> QED
  BY <1>1, Invariance, PTL

\* Reports are stamped between the arrival of their newest packet and the present.
THEOREM ReportsStamped == Spec => []StampCoversPackets
<1>1. IInv => StampCoversPackets
  BY DEF IInv
<1> QED
  BY <1>1, Invariance, PTL

\* A connection is closed only after connection_timeout without a packet, and
\* leaves nothing to report, though the host's clock may be behind.
THEOREM ClosedWhenQuiet == Spec => ClosedOnlyWhenQuiet
<1>1. IInv /\ [Next]_vars =>
        [connected /\ ~connected' =>
           /\ now - last_update > connection_timeout
           /\ report' = {}]_vars
  <2> SUFFICES ASSUME IInv, [Next]_vars, connected, ~connected'
               PROVE  now - last_update > connection_timeout /\ report' = {}
    OBVIOUS
  <2>1. CheckConnectionTimeout
    BY DataStep, ClockStep DEF Next, vars, Tick, BeginFrame, SendPacket, SendPacketElsewhere,
           SwitchToPath, ReceiveAppResponse, connection, OpenConnection
  <2>2. TimedOut
    BY <2>1, CheckStep
  <2>3. /\ now \in Nat /\ local_time \in Nat /\ last_update \in Nat
        /\ local_time <= now
    BY DEF IInv, TypeOK, ClocksBehind
  <2>4. now - last_update > connection_timeout
    BY <2>2, <2>3, ReportsAssumption DEF TimedOut, ClockOfCheck
  <2>5. report' = {}
    BY <2>1, <2>2, CheckStep, ReportSent DEF ReportDue
  <2> QED
    BY <2>4, <2>5
<1> QED
  BY <1>1, Invariance, PTL DEF Spec, ClosedOnlyWhenQuiet

-----------------------------------------------------------------------------
\* The sender and the host together implement the feedback the congestion
\* controller relies on: every step is one of PacketFeedback or changes
\* nothing there.
LEMMA FeedbackInit == Init => Feedback!Init
  BY DEF Init, Feedback!Init

LEMMA FeedbackStep == IInv /\ [Next]_vars => [Feedback!Next]_(Feedback!vars)
<1> SUFFICES ASSUME IInv, [Next]_vars PROVE Feedback!Next \/ UNCHANGED Feedback!vars
  OBVIOUS
<1> DEFINE Goal == Feedback!Next \/ UNCHANGED Feedback!vars
<1>u. ASSUME UNCHANGED <<in_flight, accepted, received, lost>> PROVE Goal
  BY <1>u DEF Feedback!vars
<1>1. CASE SendPacket
  <2>1. sequence_number \in Numbers
    BY DEF IInv, TypeOK
  <2>2. \A s \in in_flight \cup accepted \cup received \cup lost : s < sequence_number
    BY DEF IInv, Numbered
  <2>3. UNCHANGED <<accepted, received, lost>>
    BY <1>1 DEF SendPacket, connection, answers
  <2>4. CASE is_active
    <3>1. in_flight' = in_flight \cup {sequence_number}
      BY <1>1, <2>4 DEF SendPacket
    <3>2. Feedback!Send(sequence_number)
      BY <2>2, <2>3, <3>1 DEF Feedback!Send
    <3> QED
      BY <2>1, <3>2 DEF Feedback!Next
  <2>5. CASE ~is_active
    BY <1>1, <1>u, <2>3, <2>5 DEF SendPacket
  <2> QED
    BY <2>4, <2>5
<1>2. CASE SwitchToPath
  <2>1. (in_flight' = in_flight \/ in_flight' = {}) /\ UNCHANGED <<accepted, received, lost>>
    BY <1>2 DEF SwitchToPath, connection, answers
  <2>2. CASE in_flight' = {}
    BY <2>1, <2>2 DEF Feedback!Forget, Feedback!Next
  <2> QED
    BY <1>u, <2>1, <2>2
<1>3. ASSUME NEW d \in data, ReceiveAppData(d) PROVE Goal
  <2>1. UNCHANGED <<in_flight, received, lost>>
        /\ (accepted' = accepted \/ accepted' = accepted \cup {d.seq})
    BY <1>3, DataStep DEF answers
  <2>2. d.seq \in Numbers /\ d.seq \notin accepted
    BY DEF IInv, TypeOK, Numbered, Data
  <2>3. CASE accepted' = accepted \cup {d.seq}
    BY <2>1, <2>2, <2>3 DEF Feedback!Arrive, Feedback!Next
  <2> QED
    BY <1>u, <2>1, <2>3
<1>4. ASSUME NEW r \in responses, ReceiveAppResponse(r) PROVE Goal
  <2>1. r.packets \subseteq accepted
    BY UnionPackets DEF IInv, EachPacketReportedOnce
  <2>2. AnswerInFlight(r.packets) /\ UNCHANGED accepted
    BY <1>4 DEF ReceiveAppResponse, connection
  <2>3. Feedback!Answer(r.packets)
    BY <2>1, <2>2 DEF AnswerInFlight, Feedback!Answer
  <2> QED
    BY <2>1, <2>3 DEF Feedback!Next
<1>5. CASE CheckConnectionTimeout
  BY <1>5, <1>u, CheckStep DEF answers
<1>6. CASE Tick \/ BeginFrame \/ SendPacketElsewhere \/ UNCHANGED vars
  BY <1>6, <1>u DEF Tick, BeginFrame, SendPacketElsewhere, vars, connection, answers
<1>7. CASE EstimationTimer \/ Send \/ SendOtherPacket \/ OtherPacketAtHost
  BY <1>7, <1>u, ClockStep DEF connection, answers
<1> QED
  BY <1>1, <1>2, <1>3, <1>4, <1>5, <1>6, <1>7 DEF Next

\* No packet is answered twice or after it was forgotten, and none that did
\* not arrive is answered as received.
THEOREM ImplementsFeedback == Spec => FeedbackSpec
<1>1. Init => Feedback!Init
  BY FeedbackInit
<1>2. IInv /\ [Next]_vars => [Feedback!Next]_(Feedback!vars)
  BY FeedbackStep
<1> QED
  BY <1>1, <1>2, Invariance, PTL DEF Spec, FeedbackSpec, Feedback!Spec
=============================================================================
