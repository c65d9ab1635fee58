-------------------------- MODULE EgressInterface --------------------------
(***************************************************************************)
(* One outgoing interface of a SCION node (scion-capable-node.cc): the     *)
(* byte counter that stands for its transmission queue, the Send events it *)
(* schedules, and the estimate of the number of flows that probes read     *)
(* (border-router.cc).                                                     *)
(*                                                                         *)
(* The program keeps no queue of packets.  It keeps a number of bytes,     *)
(* lowers it by what must have left since it last looked, and derives the  *)
(* departure time of a packet from it.  Nor does it run a periodic timer:  *)
(* the estimate is brought up to date by packets and by a timer that one   *)
(* update sets for the next.                                               *)
(***************************************************************************)
EXTENDS Integers, FiniteSets

CONSTANTS
  Apps,                   \* applications whose data may pass
  Sizes,                  \* sizes of packets, in bytes
  MaxPackets,             \* bound of the number of packets
  LastArrival,            \* bound of the time at which packets arrive
  transmission_delay,     \* time to transmit one byte
  max_queue_length,       \* in bytes
  collection_period

ASSUME InterfaceAssumption ==
  /\ IsFiniteSet(Apps)
  /\ Sizes \subseteq Nat \ {0}
  /\ MaxPackets \in Nat /\ LastArrival \in Nat
  /\ transmission_delay \in Nat \ {0}
  /\ max_queue_length \in Nat
  /\ collection_period \in Nat

VARIABLES
  now,                    \* Simulator::Now(), and local_time of a node whose clock is exact
  queue_length,           \* transmission_queues_lengths
  queue_last_updated,     \* transmission_queues_size_last_updated
  sending,                \* pending Send events: packet number, time, size
  throughput_bytes,       \* current_throughput_bytes
  loss_bytes,             \* current_loss_bytes
  arrived_packets, lost_packets,
  estimated_num_flows,
  last_update,            \* time of the last update of the estimate
  app_id_last_seen,       \* the applications remembered, with a time each
  timers,                 \* times of the pending UpdateInterfaceEstimation events
  \* history
  packets,                \* number of packets so far
  last_sent,              \* time of the last Send
  counted,                \* the applications the estimate counts
  active_since            \* per application: start of the present run of packets

queue == <<queue_length, queue_last_updated>>
counters == <<throughput_bytes, loss_bytes, arrived_packets, lost_packets>>
estimate == <<estimated_num_flows, last_update, counted>>
vars == <<now, queue, sending, counters, estimate, app_id_last_seen, timers, packets,
          last_sent, active_since>>

SendEvents == [id : Nat, at : Nat, size : Nat \ {0}]

TypeOK ==
  /\ now \in Nat
  /\ queue_length \in Nat /\ queue_last_updated \in Nat
  /\ sending \subseteq SendEvents
  /\ throughput_bytes \in Nat /\ loss_bytes \in Nat
  /\ arrived_packets \in Nat /\ lost_packets \in Nat
  /\ estimated_num_flows \in Nat
  /\ last_update \in Nat
  /\ DOMAIN app_id_last_seen \subseteq Apps
  /\ app_id_last_seen \in [DOMAIN app_id_last_seen -> Nat]
  /\ timers \subseteq Nat
  /\ packets \in Nat
  /\ last_sent \in Nat
  /\ counted \subseteq Apps
  /\ active_since \in [Apps -> Nat]

-----------------------------------------------------------------------------
(* The estimate *)

\* Mutant: nothing is removed.
RemainingAll == DOMAIN app_id_last_seen

\* Mutant: an application seen exactly one period ago is removed.
RemainingStrict ==
  {a \in DOMAIN app_id_last_seen : now - app_id_last_seen[a] < collection_period}

\* The applications that remain after the old ones have been removed.
Remaining ==
  {a \in DOMAIN app_id_last_seen : now - app_id_last_seen[a] <= collection_period}

\* Mutant: the estimate is updated when exactly one period has passed.
UpdateDueEarly == now - last_update >= collection_period

UpdateDue == now - last_update > collection_period

\* UpdateInterfaceEstimation, except for the counters and for
\* app_id_last_seen, which its callers may change further.
UpdateEstimate ==
  IF UpdateDue
    THEN /\ estimated_num_flows' = Cardinality(Remaining)
         /\ counted' = Remaining
         /\ last_update' = now
    ELSE UNCHANGED estimate

\* Mutant: the timer is only set while the estimate is not 0.
NextTimerForFlows ==
  IF UpdateDue /\ estimated_num_flows > 0 THEN {now + collection_period + 1} ELSE {}

\* The timer an update sets for the next one, if there was any traffic.
NextTimer ==
  IF UpdateDue /\ throughput_bytes > 0 THEN {now + collection_period + 1} ELSE {}

\* The counters and the applications remembered after the update.
Counters ==
  IF UpdateDue
    THEN [throughput |-> 0, loss |-> 0, arrived |-> 0, lost |-> 0]
    ELSE [throughput |-> throughput_bytes, loss |-> loss_bytes,
          arrived |-> arrived_packets, lost |-> lost_packets]

LastSeen ==
  IF UpdateDue
    THEN [a \in Remaining |-> app_id_last_seen[a]]
    ELSE app_id_last_seen

\* UpdateInterfaceEstimation as the event a former update has scheduled.
EstimationTimer ==
  /\ now \in timers
  /\ timers' = (timers \ {now}) \cup NextTimer
  /\ UpdateEstimate
  /\ throughput_bytes' = Counters.throughput /\ loss_bytes' = Counters.loss
  /\ arrived_packets' = Counters.arrived /\ lost_packets' = Counters.lost
  /\ app_id_last_seen' = LastSeen
  /\ UNCHANGED <<now, queue, sending, packets, last_sent, active_since>>

\* The number of flows UpdatePolarisProbe divides the bandwidth by.
ProbeNumFlows == estimated_num_flows + 1

\* The queueing delay it adds to the probe: the counter as the last packet
\* has left it.
ProbeQueueingDelay == transmission_delay * queue_length

-----------------------------------------------------------------------------
(* The queue *)

\* Mutant: the difference is not kept from becoming negative.
DrainedUnclipped == queue_length - (now - queue_last_updated) \div transmission_delay

\* Mutant: the bytes transmitted are rounded up.
DrainedRoundedUp ==
  LET transmitted == (now - queue_last_updated + transmission_delay - 1) \div transmission_delay
  IN  IF queue_length > transmitted THEN queue_length - transmitted ELSE 0

\* The length of the queue less what has been transmitted since the last update.
Drained ==
  LET transmitted == (now - queue_last_updated) \div transmission_delay
  IN  IF queue_length > transmitted THEN queue_length - transmitted ELSE 0

\* Only application data is ever dropped.
Drops(data, size) == data /\ Drained + size > max_queue_length

\* What ScheduleForSend does for every packet: update the estimate, count it.
Count(size, lost) ==
  /\ now <= LastArrival /\ packets < MaxPackets
  /\ packets' = packets + 1
  /\ UpdateEstimate
  /\ timers' = timers \cup NextTimer
  /\ throughput_bytes' = Counters.throughput + size
  /\ arrived_packets' = Counters.arrived + 1
  /\ loss_bytes' = Counters.loss + IF lost THEN size ELSE 0
  /\ lost_packets' = Counters.lost + IF lost THEN 1 ELSE 0
  /\ queue_last_updated' = now
  /\ UNCHANGED <<now, last_sent>>

\* The packet is dropped: the queue is drained all the same.
DropPacket(size) ==
  /\ Count(size, TRUE)
  /\ queue_length' = Drained
  /\ UNCHANGED sending

\* The packet leaves when all the bytes before it and its own have left.
SchedulePacket(size) ==
  /\ Count(size, FALSE)
  /\ queue_length' = Drained + size
  /\ sending' = sending \cup
       {[id |-> packets, at |-> now + transmission_delay * (Drained + size), size |-> size]}

\* app_id_last_seen and the history of an application's activity after one
\* of its packets.
See(app) ==
  /\ app_id_last_seen' =
       [a \in DOMAIN LastSeen \cup {app} |-> IF a = app THEN now ELSE LastSeen[a]]
  /\ active_since' =
       IF app \in DOMAIN app_id_last_seen
          /\ now - app_id_last_seen[app] <= collection_period
         THEN active_since
         ELSE [active_since EXCEPT ![app] = now]

\* ScheduleForSend for a packet of an application's data.
ScheduleDataForSend(app, size) ==
  /\ IF Drops(TRUE, size) THEN DropPacket(size) ELSE SchedulePacket(size)
  /\ See(app)

\* ScheduleForSend for any other packet: a probe, a report, a path request.
ScheduleOtherForSend(size) ==
  /\ IF Drops(FALSE, size) THEN DropPacket(size) ELSE SchedulePacket(size)
  /\ app_id_last_seen' = LastSeen
  /\ UNCHANGED active_since

\* Send: the packet goes to the remote node.
Send(e) ==
  /\ e \in sending /\ e.at = now
  /\ sending' = sending \ {e}
  /\ last_sent' = now
  /\ UNCHANGED <<now, queue, counters, estimate, app_id_last_seen, timers, packets,
                 active_since>>

\* The simulator's clock goes on while packets may arrive or an event is
\* pending, and does not pass a pending event.
Tick ==
  /\ now < LastArrival \/ sending # {} \/ timers # {}
  /\ \A e \in sending : e.at # now
  /\ now \notin timers
  /\ now' = now + 1
  /\ UNCHANGED <<queue, sending, counters, estimate, app_id_last_seen, timers, packets,
                 last_sent, active_since>>

-----------------------------------------------------------------------------
Init ==
  /\ now = 0
  /\ queue_length = 0 /\ queue_last_updated = 0
  /\ sending = {}
  /\ throughput_bytes = 0 /\ loss_bytes = 0
  /\ arrived_packets = 0 /\ lost_packets = 0
  /\ estimated_num_flows = 0 /\ last_update = 0
  /\ app_id_last_seen = [a \in {} |-> 0]
  /\ timers = {}
  /\ packets = 0 /\ last_sent = 0 /\ counted = {}
  /\ active_since = [a \in Apps |-> 0]

Next ==
  \/ Tick
  \/ EstimationTimer
  \/ \E app \in Apps, size \in Sizes : ScheduleDataForSend(app, size)
  \/ \E size \in Sizes : ScheduleOtherForSend(size)
  \/ \E e \in sending : Send(e)

Spec == Init /\ [][Next]_vars

\* The simulator runs until no event is left.
FairSpec == Spec /\ WF_vars(Next)

-----------------------------------------------------------------------------
(* Properties *)

\* Although the queue is only a number, packets leave in the order in which
\* they came, each at least its own transmission time after the one before.
DepartureSpacing ==
  [][\A e \in sending \ sending' :
       /\ \A f \in sending' : e.id < f.id
       /\ now - last_sent >= transmission_delay * e.size]_vars

\* A flow whose packets have been no more than a period apart for more than
\* a period is counted, as long as the interface remembers it.
SteadyFlowsAreCounted ==
  \A a \in DOMAIN app_id_last_seen :
    app_id_last_seen[a] - active_since[a] > collection_period => a \in counted

\* And no probe ever counts a flow for much longer than it lasts, even when
\* no packet comes any more: the timers see to it.
CountedFlowsAreRecent ==
  ProbeNumFlows - 1 <=
    Cardinality({a \in DOMAIN app_id_last_seen :
                   now - app_id_last_seen[a] <= 2 * collection_period + 1})

\* A probe reads the counter without draining it, and so may report a queue
\* that has left since; but it never reports a delay shorter than the time
\* that some packet in the queue still has to wait.
ProbesSeeTheWholeQueue ==
  \A e \in sending : e.at - now <= ProbeQueueingDelay

\* The timers of successive updates do not pile up: one at most lies ahead,
\* and while a flow is counted there is one that will update the estimate.
TimersInv ==
  /\ \A t \in timers : now <= t
  /\ \A t \in timers : t > now => t = last_update + collection_period + 1
  /\ estimated_num_flows > 0 => last_update + collection_period + 1 \in timers

\* A period's losses are among its arrivals.
LossesAmongArrivals ==
  /\ loss_bytes <= throughput_bytes /\ lost_packets <= arrived_packets
  /\ lost_packets = arrived_packets => loss_bytes = throughput_bytes

\* Every packet that was not dropped leaves, and when the traffic has
\* stopped the interface forgets all its flows and sets no more timers.
Quiesces ==
  <>[](sending = {} /\ timers = {} /\ estimated_num_flows = 0)
=============================================================================
