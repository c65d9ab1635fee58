----------------------------- MODULE NtpExchange -----------------------------
(***************************************************************************)
(* How the time servers measure their offsets to each other                *)
(* (time-server.cc): in every g-th period each server sends NTP requests   *)
(* to the others, takes what comes back as offsets, and after the two      *)
(* seconds of NTP_REQ_GLOBAL_SYNC_DIFF corrects its clock by them and      *)
(* forgets them.  The module justifies the measurement_error of TimeSync,  *)
(* and leaves open by how much a clock is corrected, which TimeSync says.  *)
(*                                                                         *)
(* Time is counted in time steps and jumps from event to event.  A clock   *)
(* is advanced only when its server handles an event, and its drift is     *)
(* then rounded to whole time steps.  A packet waits in the queue of its   *)
(* sender, is stamped and travels, is announced to the node at the far     *)
(* end of the last link, received there, and handled after a processing    *)
(* delay.                                                                  *)
(***************************************************************************)
EXTENDS Integers, FiniteSets

CONSTANTS
  Servers,             \* set_of_all_core_ases
  SelectedPaths,       \* set_of_selected_paths: <<server, peer, path>>
  alg_v,               \* "V1", "V2", "V3" or "V4"
  g,                   \* periods per global synchronisation
  time_sync_period, last_event,
  Window,              \* NTP_REQ_GLOBAL_SYNC_DIFF
  max_drift_per_day, Day,
  jitter_in_drift,
  constant_drift_per_day,   \* of each server
  InitialDrifts,       \* errors of the clocks after ResetTime
  LocalCorrections,    \* what CorrectLocalTime may add in TriggerCoreTimeSyncAlgo
  GlobalCorrections,   \* and in ContinueGlobalTimeSync
  QueueDelays, MaxQueueDelay,           \* before a server sends a packet
  PathDelays, MinPathDelay, MaxPathDelay,  \* up to the last link
  last_link_delay,
  ProcessingDelays, MaxProcessingDelay, \* of a server
  OtherEvents          \* times at which a server may handle something else

\* The longest time from the making of a request to the use of its answer.
MaxRoundTrip ==
  2 * (MaxQueueDelay + MaxPathDelay + last_link_delay + MaxProcessingDelay)

GlobalPeriod == g * time_sync_period

\* Two seconds are less than a period, and no packet is under way from one
\* global synchronisation until after the next.
ASSUME NtpAssumption ==
  /\ SelectedPaths \subseteq Servers \X Servers \X STRING
  /\ \A x \in SelectedPaths : x[1] # x[2]
  /\ alg_v \in {"V1", "V2", "V3", "V4"}
  /\ g \in Nat \ {0}
  /\ time_sync_period \in Nat /\ last_event \in Nat /\ Window \in Nat
  /\ 0 < Window /\ Window < time_sync_period
  /\ max_drift_per_day \in Nat /\ Day \in Nat \ {0}
  /\ jitter_in_drift \in BOOLEAN
  /\ constant_drift_per_day \in [Servers -> (-max_drift_per_day)..max_drift_per_day]
  /\ InitialDrifts \subseteq Int
  /\ LocalCorrections \subseteq Int /\ GlobalCorrections \subseteq Int
  /\ MaxQueueDelay \in Nat /\ QueueDelays \subseteq 0..MaxQueueDelay
  /\ MinPathDelay \in Nat /\ MaxPathDelay \in Nat
  /\ PathDelays \subseteq MinPathDelay..MaxPathDelay
  /\ last_link_delay \in Nat
  /\ MaxProcessingDelay \in Nat /\ ProcessingDelays \subseteq 0..MaxProcessingDelay
  /\ OtherEvents \subseteq Nat
  /\ MaxRoundTrip <= GlobalPeriod

VARIABLES
  now,                            \* Simulator::Now()
  next_trigger,                   \* time of the next TriggerCoreTimeSyncAlgo
  continues,                      \* times of the pending ContinueGlobalTimeSync
  synchronization_round,
  local_time,                     \* per server
  real_time_of_last_time_advance, \* per server
  packets,                        \* the NTP packets under way
  poff,                           \* per server, the offsets with their peers
  \* history, read by properties only
  round_start,                    \* when the last requests were made
  measured,                       \* the errors of the clocks at that time
  advances                        \* how often each clock was advanced since

clocks == <<local_time, real_time_of_last_time_advance, advances>>
schedule == <<next_trigger, continues, synchronization_round, round_start, measured>>
vars == <<now, schedule, clocks, packets, poff>>

\* requested and r0 to r3 are history: when the request was made, and the true
\* times at which t0, t1, t2 and the time of receipt were read off the clocks.
Packet ==
  [client : Servers, server : Servers, path : STRING,
   type : {"NTP_REQ", "NTP_RESP"},
   stage : {"queue", "path", "link", "processing"}, at : Nat,
   t0 : Int, t1 : Int, t2 : Int, receive_time : Int,
   requested : Nat, r0 : Nat, r1 : Nat, r2 : Nat, r3 : Nat]

Offset == [peer : Servers, path : STRING, offset : Int, requested : Nat]

TypeOK ==
  /\ now \in Nat /\ next_trigger \in Nat /\ continues \subseteq Nat
  /\ synchronization_round \in 0..(g - 1)
  /\ local_time \in [Servers -> Int]
  /\ real_time_of_last_time_advance \in [Servers -> Nat]
  /\ packets \subseteq Packet
  /\ poff \in [Servers -> SUBSET Offset]
  /\ round_start \in Nat
  /\ measured \in [Servers -> Int]
  /\ advances \in [Servers -> Nat]

-----------------------------------------------------------------------------
(* The clocks *)

Abs(x) == IF x < 0 THEN -x ELSE x

\* x / y as std::round rounds it, for x not negative.
Rounded(x, y) == (2 * x + y) \div (2 * y)

\* GetDrift: any drift up to GetMaxDrift, or a constant one of the server.
Drifts(s, duration) ==
  LET drift == Rounded(Abs(constant_drift_per_day[s]) * duration, Day)
      max_drift == Rounded(max_drift_per_day * duration, Day)
  IN  IF jitter_in_drift THEN (-max_drift)..max_drift
        ELSE {IF constant_drift_per_day[s] < 0 THEN -drift ELSE drift}

Advance(s) == now - real_time_of_last_time_advance[s]

\* The number of advances with this one, if it is one.
Counted(s) == IF Advance(s) = 0 THEN advances[s] ELSE advances[s] + 1

\* AdvanceLocalTime of server s, which leaves it with the given drift.
AdvancedTime(s, drift) == local_time[s] + Advance(s) + drift
AdvanceLocalTime(s, drift) ==
  /\ drift \in Drifts(s, Advance(s))
  /\ local_time' = [local_time EXCEPT ![s] = AdvancedTime(s, drift)]
  /\ real_time_of_last_time_advance' = [real_time_of_last_time_advance EXCEPT ![s] = now]
  /\ advances' = [advances EXCEPT ![s] = Counted(s)]

\* The drifts with which all servers may advance their clocks.
AllDrifts ==
  {drift \in [Servers -> UNION {Drifts(s, Advance(s)) : s \in Servers}] :
     \A s \in Servers : drift[s] \in Drifts(s, Advance(s))}

\* All servers advance their clocks and correct them (CorrectLocalTime).
AdvanceAndCorrect(corrections) ==
  \E drift \in AllDrifts, corr \in [Servers -> corrections] :
    /\ local_time' = [s \in Servers |-> AdvancedTime(s, drift[s]) + corr[s]]
    /\ real_time_of_last_time_advance' = [s \in Servers |-> now]

-----------------------------------------------------------------------------
(* The periods *)

\* Triggers and continues are scheduled before the packets they meet.
TriggerDue == now = next_trigger /\ now < last_event

CorrectsLocally == alg_v = "V4" \/ synchronization_round # 0

Requests(delay) ==
  {[client |-> x[1], server |-> x[2], path |-> x[3],
    type |-> "NTP_REQ", stage |-> "queue", at |-> now + delay[x],
    t0 |-> local_time'[x[1]], t1 |-> 0, t2 |-> 0, receive_time |-> 0,
    requested |-> now, r0 |-> now, r1 |-> 0, r2 |-> 0, r3 |-> 0] : x \in SelectedPaths}

\* TriggerCoreTimeSyncAlgo of all servers, which comes at the same time for
\* all.  In the first of g periods SendNtpReqToPeers follows, and two seconds
\* later ContinueGlobalTimeSync.
TriggerCoreTimeSyncAlgo ==
  /\ TriggerDue
  /\ next_trigger' = now + time_sync_period
  /\ AdvanceAndCorrect(IF CorrectsLocally THEN LocalCorrections ELSE {0})
  /\ IF synchronization_round = 0
       THEN /\ \E delay \in [SelectedPaths -> QueueDelays] :
                 packets' = packets \cup Requests(delay)
            /\ continues' = continues \cup {now + Window}
            /\ round_start' = now
            /\ measured' = [s \in Servers |-> local_time'[s] - now]
            /\ advances' = [s \in Servers |-> 0]
       ELSE /\ UNCHANGED <<packets, continues, round_start, measured>>
            /\ advances' = [s \in Servers |-> Counted(s)]
  /\ synchronization_round' = (synchronization_round + 1) % g
  /\ UNCHANGED <<now, poff>>

\* Mutant: the offsets are not forgotten.
Kept == poff

\* poff.clear ()
Cleared == [s \in Servers |-> {}]

\* ContinueGlobalTimeSync of all servers.
ContinueGlobalTimeSync ==
  /\ ~TriggerDue
  /\ now \in continues
  /\ continues' = continues \ {now}
  /\ AdvanceAndCorrect(GlobalCorrections)
  /\ advances' = [s \in Servers |-> Counted(s)]
  /\ poff' = Cleared
  /\ UNCHANGED <<now, next_trigger, synchronization_round, packets, round_start, measured>>

-----------------------------------------------------------------------------
(* The packets *)

Sender(p) == IF p.type = "NTP_REQ" THEN p.client ELSE p.server
Receiver(p) == IF p.type = "NTP_REQ" THEN p.server ELSE p.client

Due(p, stage) == ~TriggerDue /\ p \in packets /\ p.stage = stage /\ p.at = now

\* The packet goes on to its next stage.
GoesOn(p, next) ==
  /\ packets' = (packets \ {p}) \cup {next}
  /\ UNCHANGED <<now, schedule, poff>>

\* Mutant: answers leave with the time at which they were made.
StampedRequestsOnly(p, time) ==
  IF p.type = "NTP_REQ" THEN [p EXCEPT !.t0 = time, !.r0 = now]
                        ELSE [p EXCEPT !.r2 = now]

\* ModifyPktUponSend
Stamped(p, time) ==
  IF p.type = "NTP_REQ" THEN [p EXCEPT !.t0 = time, !.r0 = now]
                        ELSE [p EXCEPT !.t2 = time, !.r2 = now]

Send(p) ==
  LET s == Sender(p) IN
  /\ Due(p, "queue")
  /\ \E drift \in Drifts(s, Advance(s)), delay \in PathDelays :
       /\ AdvanceLocalTime(s, drift)
       /\ GoesOn(p, [Stamped(p, AdvancedTime(s, drift)) EXCEPT
                       !.stage = "path", !.at = now + delay])

\* ScheduleReceive, which the node before the server calls.
ScheduleReceive(p) ==
  LET s == Receiver(p) IN
  /\ Due(p, "path")
  /\ \E drift \in Drifts(s, Advance(s)) : AdvanceLocalTime(s, drift)
  /\ GoesOn(p, [p EXCEPT !.stage = "link", !.at = now + last_link_delay])

\* Receive: the time of receipt is read before the packet is processed.
Receive(p) ==
  LET s == Receiver(p) IN
  /\ Due(p, "link")
  /\ \E drift \in Drifts(s, Advance(s)), delay \in ProcessingDelays :
       /\ AdvanceLocalTime(s, drift)
       /\ GoesOn(p, [p EXCEPT !.stage = "processing", !.at = now + delay,
                              !.receive_time = AdvancedTime(s, drift),
                              !.r1 = IF p.type = "NTP_REQ" THEN now ELSE @,
                              !.r3 = now])

\* ReceiveNtpReqFromPeer: the packet becomes the answer and is returned.
ReceiveNtpReqFromPeer(p) ==
  LET s == Receiver(p) IN
  /\ Due(p, "processing") /\ p.type = "NTP_REQ"
  /\ \E drift \in Drifts(s, Advance(s)), delay \in QueueDelays :
       /\ AdvanceLocalTime(s, drift)
       /\ GoesOn(p, [p EXCEPT !.type = "NTP_RESP", !.stage = "queue", !.at = now + delay,
                              !.t1 = p.receive_time, !.t2 = AdvancedTime(s, drift)])

\* Division of integers by 2, towards 0.
Half(x) == IF x < 0 THEN -((-x) \div 2) ELSE x \div 2

MeasuredOffset(p) == Half((p.t1 - p.t0) + (p.t2 - p.receive_time))

\* ReceiveNtpResFromPeer: whenever it comes.
ReceiveNtpResFromPeer(p) ==
  /\ Due(p, "processing") /\ p.type = "NTP_RESP"
  /\ \E drift \in Drifts(p.client, Advance(p.client)) : AdvanceLocalTime(p.client, drift)
  /\ poff' = [poff EXCEPT ![p.client] = @ \cup
                {[peer |-> p.server, path |-> p.path,
                  offset |-> MeasuredOffset(p), requested |-> p.requested]}]
  /\ packets' = packets \ {p}
  /\ UNCHANGED <<now, schedule>>

\* Any other event of a server, a snapshot, a timer of its interface or another
\* packet: its clock is advanced (AdvanceLocalTime is called by all of them).
OtherEvent(s) ==
  /\ now \in OtherEvents
  /\ \E drift \in Drifts(s, Advance(s)) : AdvanceLocalTime(s, drift)
  /\ UNCHANGED <<now, schedule, packets, poff>>

-----------------------------------------------------------------------------
\* The times of the pending events.
Events ==
  {p.at : p \in packets} \cup continues \cup {t \in OtherEvents : now < t}
    \cup (IF next_trigger < last_event THEN {next_trigger} ELSE {})

\* The simulator goes on to the next event.
NextEvent ==
  /\ \A t \in Events : now < t
  /\ now' \in Events
  /\ \A t \in Events : now' <= t
  /\ UNCHANGED <<schedule, clocks, packets, poff>>

\* After ResetTime, at the time of the first trigger.
Init ==
  /\ now = 0 /\ next_trigger = 0 /\ continues = {}
  /\ synchronization_round = 0
  /\ local_time \in [Servers -> InitialDrifts]
  /\ real_time_of_last_time_advance = [s \in Servers |-> 0]
  /\ packets = {}
  /\ poff = [s \in Servers |-> {}]
  /\ round_start = 0
  /\ measured = [s \in Servers |-> 0]
  /\ advances = [s \in Servers |-> 0]

Next ==
  \/ TriggerCoreTimeSyncAlgo
  \/ ContinueGlobalTimeSync
  \/ \E p \in packets :
       \/ Send(p)
       \/ ScheduleReceive(p)
       \/ Receive(p)
       \/ ReceiveNtpReqFromPeer(p)
       \/ ReceiveNtpResFromPeer(p)
  \/ \E s \in Servers : OtherEvent(s)
  \/ NextEvent

Spec == Init /\ [][Next]_vars

-----------------------------------------------------------------------------
(* Properties *)

\* ContinueGlobalTimeSync is yet to come in this round.
Collecting == continues # {}

\* Twice the largest error of an offset, times Day: half of what the two ways
\* of the path differ by, the division by 2, the drift of both clocks in the
\* window, and half a time step for every time a clock was advanced.
ErrorBound(s, p) ==
  Day * ((MaxPathDelay - MinPathDelay) + 1 + advances[s] + advances[p])
  + 4 * (max_drift_per_day * Window)

\* An offset measured in this round is, up to that error, the difference of the
\* clocks when the requests were made, however long the packets wait in the
\* queues of the servers and for their processors: it is this error that
\* TimeSync calls measurement_error.
OffsetsAccurate ==
  Collecting =>
    \A s \in Servers : \A o \in poff[s] :
      o.requested = round_start =>
        2 * Day * Abs(o.offset - (measured[o.peer] - measured[s])) <= ErrorBound(s, o.peer)

\* The offsets a server corrects its clock by were measured in this round; or
\* in the round before, if an answer may take longer than the two seconds: it
\* is then counted a whole round late, but never twice and never later.
OffsetsRecent ==
  Collecting =>
    \A s \in Servers : \A o \in poff[s] :
      \/ o.requested = round_start
      \/ MaxRoundTrip >= Window /\ o.requested = round_start - GlobalPeriod
=============================================================================
