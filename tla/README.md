# Polaris_Sim: a verification development

Polaris_Sim is a fork of ns-3.30.1 with a SCION control and data plane
(`src/SCION`) and, on top of it, Polaris: video senders that watch the fair
share of all their paths through SCMP probes and move between paths. This
directory models the program's own logic in TLA+, checks the models with TLC
and proves their most important properties with TLAPS. Paths below are relative
to `src/src/SCION/model` unless they start with `src/`.

Contents

1. Inventory of the system
2. Plan
3. The modules and the code
4. What the runs check
5. Findings
6. What is proved
7. What is only model-checked
8. What is not modelled
9. Observations

## 1. Inventory of the system

The program is one process driven by the event queue of ns-3
(`src/src/core/model/default-simulator-impl.cc`): an event runs to its end, then
the event with the next time stamp (and, at equal times, the one scheduled
first) runs. "Concurrency" is therefore the order in which events of different
nodes and applications are taken; only the beacon servers (over the neighbours
of an AS) and the time servers also use threads (`omp parallel for`), over objects
that the threads do not share. There is no persistent state that a node recovers from, and nothing
crashes: the failures are dropped packets, references that are switched off and
applications that are stopped (`user-defined-events.cc` names events that take links
down and up, but their handlers are empty).

| component | source | state it keeps | operations | interacts with |
|---|---|---|---|---|
| Polaris sender | `apps/polaris.cc`, `apps/path-state.cc` | per path: last report, last probe and echo, share, latency, candidacy; the active and the previous path; the transition; the target rate | `StartAppTraffic`, `Update` (probe, reconsider the path), `ScheduleSend` (a frame), `ReceiveProbeResponse`, `ReceiveScmp`, `ReceiveAppResponse`, `ScheduleControllerProcessInterval`, `StopAppTraffic` | packets through its host; calls into the congestion controller |
| egress interface | `scion-capable-node.cc`, `border-router.cc` | a byte counter per interface that stands for its queue; counters of a period; the applications seen lately; an estimate of the flows | `ScheduleForSend`, `Send`, `Drop`, `UpdateInterfaceEstimation`, `UpdatePolarisProbe` | every packet of every application passes; probes carry what they read back to the senders |
| application feedback | `scion-host.cc`, `apps/polaris.cc` | at the receiver a connection per path with a report in the making; at the sender the packets in flight | `SendPacket`, `ReceiveAppData`, `CheckConnectionTimeout`, `SendAppResp`, `ReceiveAppResponse` | packets both ways; callbacks the host schedules for itself |
| beacon servers, path servers | `beaconing/beacon-server.cc`, `beaconing/baseline.cc`, `path-server.cc` | a container of beacons per AS, counts of valid beacons per origin; registered segments | once per period `DisseminateBeacons`, `InitiateBeacons`, then `RegisterToLocalPathServer`, `UpdateStatePeriodic` | direct calls into the server of the neighbour |
| time servers | `time-server.cc` | a clock per core AS, its reference, offsets to the other ASes, selected paths | `TriggerCoreTimeSyncAlgo`, `ContinueGlobalTimeSync`, NTP requests and answers, selection of paths | NTP packets; user-defined events switch the references |
| packet forwarding | `border-router.cc`, `scion-capable-node.cc` | the packets that exist, each in the memory of its creator; the path and the hop pointer in the packet | `CreateScionPacket`, `SendScionPacket`, `ProcessReceivedPacket` of the border router, `ReturnScionPacket`, `Drop`, `DestroyScionPacket` | packets |
| path lookup | `scion-host.cc`, `path-server.cc`, `apps/app.cc` | registered segments; the cache of segments of a host; the paths of an application | `RegisterCorePathSegment`, `RequestForPathSegments` until there is a path, `ProcessLocalHostRequestForPath`, `ReceiveRegisteredPathSegments`, `StartApplication` | packets; the answer holds a pointer into the path server |
| jitter buffer, metrics | `apps/connection-metrics.cc` | packets that wait, packets played lately, the loss | `BufferPackets`, `EmitFromBuffer`, `UpdateStatistics` | called by the sender when a report comes and every `metrics_interval` |
| background traffic | `apps/general-traffic-app.cc` | on/off schedule | start, send, pause | packets |
| other applications | `apps/app.cc`, `apps/video-conference-app.cc`, `apps/tcp-app.cc` | scores of paths | choose paths, send | packets |
| congestion controller | `webrtc-cc/*` | floating-point estimators | target rates from feedback | called by the sender |
| scenario and output | `pre-simulation-setup.cc`, `user-defined-events.cc`, `scion-as.cc`, `schedule-periodic-events.cc`, `post-simulation-evaluations.cc` | - | build the topology, schedule everything, print results | construct all of the above |

### The behaviours that are hard, and what makes each part correct

**Polaris sender.** Updates every 0.25 s, frames, reports, controller updates,
congestion alerts and echoes arrive in any order, and all of them read what the
others wrote. A transition between two paths lasts several seconds of frames in
which the share of each path is computed from the curve, the old rate and the
target. Correct means: a transition is never disturbed or left open, the two
paths together lose no rate, a path is chosen only after being a candidate
without a break, switches do not flap even when the time between them is not
checked (an unusable path), and no path stays without probes.

**Egress interface.** There is no queue and no periodic timer: both are
simulated by numbers that are brought up to date when somebody looks. The
departure time of a packet is computed on arrival from a lazily drained
counter; the flow estimate is updated by packets or by a timer that one update
sets for the next. Correct means: packets leave in order, at the speed of the
link; a probe never reports a shorter queue than the one that is there; a
steady flow is counted and an ended one is forgotten even if no packet comes any
more; timers neither pile up nor die while they are needed.

**Application feedback.** A host's clock advances when a packet comes, is sent or
leaves and when an estimation timer of an interface fires, but not in the check of a
connection, which reads it: a check that sends a report has advanced it before it
asks for the timeout, any other check reads an old clock. Data packets and reports
overtake each other; connections are closed and opened again; the sender leaves
a path and comes back with packets of the first visit still under way. Correct
means: every packet is in exactly one report, in time, and the controller hears
of every packet at most once.

**Beaconing.** ASes run one after the other inside a period and call into each
other's stores, so the order of the ASes must not matter; `next_` fields separate
what was received in this period from what may be sent. Counts of valid beacons
are kept by increments in three places and decide what is stored. Correct means:
stored paths are loop-free segments, a beacon travels one link per period, the
counts are exact, nothing that expires before the next update is used, and the
path server knows what the AS uses.

**Time servers.** Up to a third of the servers may have a malicious reference;
the correction discards the f lowest and highest offsets and is limited.
Correct means: no few clocks pull the others, clocks whose references are right
stay (and become) accurate, also when paths or references are missing.

**Forwarding and path lookup.** A packet moves its own pointer along a path that may
have to be read backwards twice over (a reversed segment, a returned packet), and
only assertions notice when it is off. It lives in the memory of the node that
created it, and the handler of some other node has to destroy it, whichever is
the last. A host without a path asks again every 300 ms, whether answers are
under way or not, and an answer is a pointer to what the path server knows by the
time it is read. Correct means: no assertion fails on any path, no packet is
destroyed early or left behind, an application has each path once and only
paths that lead to its destination, what is sent in reply comes back to it, and
it starts when there is a path.

**Jitter buffer.** Reports come from two paths in any order, and every packet of
them is inserted, refused or played by what has been played already. Correct
means: what is played is in order, nothing waits or is refused without need, and
the loss over a window that cuts through packets out of order is the number of
packets missing.

**NTP exchange.** A clock is advanced only when its server handles an event, and its
drift is rounded each time; a packet is stamped when it leaves the queue and again
when it arrives, before it is processed; an answer may come after the two seconds
when the offsets are used. Correct means: an offset is that of the clocks at the start
of the round up to a known error, however long queues and processors are, and none
is used later than the next time.

The other **beaconing policies** have the hazard of replacing beacons
(`beaconing/beacon-server.cc` 435), which is listed in `PROJECT.json` without a
property.

## 2. Plan

The order is that of importance for what the program is for: the sender first,
then what it hears (interface, reports), then the control plane.

| step | module | composes / abstract specification | status |
|---|---|---|---|
| 1 | `PolarisSender` | network and controller as environment | modelled, checked, proved |
| 2 | `EgressInterface` | - | modelled, checked, proved |
| 3 | `AppReports` | composes sender bookkeeping, network, receiving host; implements `PacketFeedback` | modelled, checked, proved, refinement proved |
| 4 | `TimeSync` | all time servers | modelled, checked, proved |
| 5 | `Beaconing` | all beacon servers and path servers of a topology | modelled, checked, proved |
| 6 | `JitterBuffer` | sequential, driven by the reports of two paths | modelled, checked, proved |
| 7 | `Forwarding` | the part of the next module that is about packets: packets follow their paths | modelled, proved with 8 |
| 8 | `Network` | composes path servers, hosts, applications and `Forwarding` | modelled, checked, proved; liveness checked |
| 9 | `NtpExchange` | requests and answers of `time-server.cc`, late answers; shows that the measured offset has the error `TimeSync` assumes | modelled, checked, proved |
| 10 | `Beaconing` with `DeleteBeacon` | `beacon-server.cc` 405-457, for the policies that replace beacons | not done |

Background traffic (`general-traffic-app.cc`) was planned and given up: no run of
this commit reaches it (section 8).

## 3. The modules and the code

`PROJECT.json` maps each definition to its lines; this is the reading guide. In
all modules history variables (marked in the declarations) are read by
properties only, never by a guard.

### PolarisSender (`apps/polaris.cc`, `apps/path-state.cc`)

State: the fields of `Polaris` and of `PathState` with their names; `next_update`
and `next_send` are the pending events of the two chains `Update` and
`ScheduleSend`; `in_flight_probes` are the probes under way, identified like in
the program by path and time.

| action | code |
|---|---|
| `Init` | `StartAppTraffic` with the first probes |
| `Update` | `Update`: `SendProbes` (with `FindProbeCandidates`: `ProbeSets`), then `UpdatePathCandidates`, which either returns (`KeepsPath`), stays (`StayOnPath`) or calls `SwitchToPath` |
| `ScheduleSend` | the frame: nothing of the path state outside a transition; `SendOnBothPaths` inside; `EndPathTransition` at its end |
| `ReceiveProbeResponse`, `ReceiveEmptyProbeResponse` | the echo with and without a result |
| `ReceiveCongestionAlert` | `ReceiveScmp` |
| `ReceiveAppResponse`, `ScheduleControllerProcessInterval` | both end in `OnNetworkControlUpdate` |
| `StopAppTraffic` | the same |
| `Tick` | the clock; it does not pass a pending event |

Abstractions. Rates and shares are natural numbers; the code's are floating
point, of which only the order, the margin and the curve matter here. The ramp is
any function of time into 0..1 (`Ramp`/`RampScale`), which covers the three
curves. The WebRTC controller is the environment: every update carries no rate
or any of `Rates`. `PathState::loss` is never assigned, so the tests on it are left
out. A report may come on any path data was sent on, however long ago
(`used_paths`). Lost probes are
probes that are still answered (possibly without a result) within `MaxProbeRtt`:
probes are never dropped by the interfaces of this program, which only drop
application data.

### EgressInterface (`scion-capable-node.cc`, `border-router.cc` 165-200)

State: one entry of each of the vectors that `ScionCapableNode` indexes by
interface, with their names; `sending` and `timers` are the scheduled `Send` and
`UpdateInterfaceEstimation` events.

| action | code |
|---|---|
| `ScheduleDataForSend`, `ScheduleOtherForSend` | `ScheduleForSend`: update the estimate (`UpdateEstimate`), drain (`Drained`), then `DropPacket` (the branch that calls `Drop`) or `SchedulePacket` |
| `Send` | `Send`: the packet goes to the remote node |
| `EstimationTimer` | `UpdateInterfaceEstimation` as an event |
| `ProbeNumFlows`, `ProbeQueueingDelay` | what `UpdatePolarisProbe` reads |

Abstractions. Logs of throughput and losses per period are left out; the
transmission delay is positive (with `only_propagation_delay` the code sets it to
0 and the drain divides by it). `now` stands for `Simulator::Now ()` and for the node's
`local_time`, which every operation of the module has just set to it; this is exact
for hosts and border routers, not for a time server, whose own `AdvanceLocalTime`
lets its clock drift. The propagation delay only shifts arrivals at
the remote node.

### AppReports, PacketFeedback (`scion-host.cc` 540-720, `apps/polaris.cc` 540-660)

One path of one application. `data` and `responses` are the network: data packets
overtake each other in processing queues and may never arrive, reports overtake
each other. `checks` is the set of pending `CheckConnectionTimeout` events (a
set suffices because of `OneCheckPerConnection`). `local_time` is the clock of the
receiving host. Every event that reads or sets it is in the module: packets that
come, `sends` (the times of pending `Send` events) and `timers` (pending events of
`UpdateInterfaceEstimation`) of the interface by which the reports leave, with what
decides whether a timer is set (`last_estimate`, `traffic`).

| action | code |
|---|---|
| `BeginFrame`, `SendPacket`, `SendPacketElsewhere` | `ScheduleSend`/`SendPacket` on this path, or on another with the same `sequence_number` |
| `SwitchToPath` | leaving the path, or coming back to it (clears `in_flight_packets`) |
| `ReceiveAppData` | opens the connection, ignores packets of earlier frames, adds the packet, sends the report if the frame is complete or the report is old |
| `CheckConnectionTimeout` | sends the report that is old, then asks for the timeout with the clock this may have advanced (`ClockOfCheck`), closes the connection or comes again |
| `SendAppResp`, `ScheduleReport` | `SendAppResp` with `SendScionPacket`, `ScheduleForSend`, `UpdateInterfaceEstimation` and `AdvanceLocalTime`: parts of the two actions above |
| `EstimationTimer` | `UpdateInterfaceEstimation` as an event |
| `Send` | a packet leaves the host; `HasLeft` reports may arrive at the sender |
| `SendOtherPacket` | the host sends a packet for another connection by the same interface (or drops it: `DropPacket`) |
| `OtherPacketAtHost` | a packet of another connection comes, or leaves by another interface |
| `ReceiveAppResponse` | answers everything in flight up to the highest number |

`PacketFeedback` is the abstract specification: numbers are sent in order, arrive
at most once, are answered at most once and in order, and only what arrived is
answered as received. `AppReports` implements it under `arrived <- accepted`
(`FeedbackSpec`, checked and proved).

Abstractions. A packet leaves the host between one unit and `MaxQueueing` units after
it was scheduled; the order in the queue, which is the subject of `EgressInterface`,
is left open. `collection_period + 1` is the code's period and one time step.

### Beaconing (`beaconing/beacon-server.cc`, `beaconing/baseline.cc`, `path-server.cc`)

`store` is `push_based_beacon_container`, by path; a path is a sequence of links,
which is what the beacon's key (AS and egress interface of every hop) says.
`valid_count` and `next_count` are the two maps of counts, `segments` what the path
server has registered, `wire` the beacons of one call of `GenerateBeaconAndSend`.

| action | code |
|---|---|
| `Disseminate` | `DisseminateBeacons` of the baseline, one beacon to one neighbour over all parallel links |
| `Initiate` | `InitiateBeacons` of a core AS |
| `ReceiveBeacon` | `ReceiveBeacon`, `ImportPolicy`, `AlgSpecificImportPolicy`, `InsertBeacon` |
| `NextAs` | the event of the next AS |
| `RegisterToLocalPathServer` | the same, 100 ms later |
| `UpdateStatePeriodic` | `UpdateBeaconState` for every beacon, one time step later |
| `UpdateStateBeforeBeaconing` | the begin of the next period |

Abstractions. The threads over the neighbours of an AS touch different servers
and are taken in the neighbours' order; the order of beacons of one origin and
one length is free (the code's containers are unordered). The two initiation
events (core neighbours, customers) are one action. All topologies of this
commit have core ASes only (the reader makes every link a core link,
`pre-simulation-setup.cc` 374); the customer half of the code is modelled all the
same. Times are `uint16_t` minutes; the assumption `last_beaconing +
expiration_period < 2^16` keeps them from wrapping, as every configuration does.

### TimeSync (`time-server.cc`, `user-defined-events.cc`)

A clock is its error. `phase` says which event is next: the trigger all servers
run at one instant, the two seconds of an exchange, the continuation of each
server, the rest of the period.

| action | code |
|---|---|
| `TriggerCoreTimeSyncAlgo` | local correction, and in round 0 the requests |
| `ExchangePasses` | the two seconds in which requests and answers travel |
| `ContinueGlobalTimeSync` | the same of one server: offsets, trimming, cut-off, limit, `CorrectLocalTime` |
| `PeriodPasses` | `AdvanceLocalTime` until the next trigger |
| `TimeReferencesChange` | `TimeReferencesDown`, `TimeReferencesUp` |

Abstractions. A measured offset is the difference of the clocks at the trigger
plus an error of at most `measurement_error`; the messages are in `NtpExchange`.
`AdvanceLocalTime` rounds at every call; the drift of a period stands for the
calls of that period together with their rounding. Paths are selected by a
greedy choice over real-valued scores; only which pairs of servers have a path
is kept (`Pathless`).

### NtpExchange (`time-server.cc`, `scion-capable-node.cc`)

Time is counted in time steps and jumps to the next event (`Events`). `local_time`,
`real_time_of_last_time_advance` and `poff` have their names from the code;
`next_trigger` and `continues` are the pending events of the synchronisation,
`packets` those of the packets: a packet is in the queue of its sender, on the path,
on the last link or waiting for the processor, and `at` is when it goes on.
`round_start`, `measured`, `advances` and the fields `requested` and `r0` to `r3` of a
packet are history.

| action | code |
|---|---|
| `TriggerCoreTimeSyncAlgo` | the same of all servers: correct the clocks, in round 0 `SendNtpReqToPeers` |
| `ContinueGlobalTimeSync` | two seconds later: correct the clocks by the offsets and forget these |
| `Send` | `ScionCapableNode::Send` with `ModifyPktUponSend` (`Stamped`) |
| `ScheduleReceive`, `Receive` | the same; `Receive` reads the time of receipt |
| `ReceiveNtpReqFromPeer`, `ReceiveNtpResFromPeer` | the same, with what `ProcessReceivedPacket` does before |
| `OtherEvent` | anything else that advances a clock: snapshots, timers, other packets |
| `NextEvent` | the simulator goes on to the next event |

Every action of a server begins with `AdvanceLocalTime`, with any drift that
`GetDrift` may return. Abstractions. By how much a clock is corrected is left open
(any of `LocalCorrections`, `GlobalCorrections`): that is what `TimeSync` is about. The
delays of queues, paths and processors are any in their ranges, independent of each
other. The selected paths are fixed, and the offsets of a server a set where the code
has multisets, since the properties speak of each offset. Packets and
`ContinueGlobalTimeSync` at the same instant come in any order.

### JitterBuffer (`apps/connection-metrics.cc`, `apps/polaris.cc` 230-262, 551-562)

`jitter_buffer` and `delivered_packets` are the two vectors, `loss` the fraction
(its numerator and denominator), `metrics_due` the pending `RecordMetrics`.
`unreported` and `played` are history: the packets no report has told of, and those
played since `delivered_packets` was last cleared.

| action | code |
|---|---|
| `ReceiveAppResponse` | `BufferPackets`: `EmitFromBuffer` (`Delivered`, `Waiting`), refuse what is `TooLate`, append the others, sort if two neighbours are out of order (`SortedIfNeeded`) |
| `RecordMetrics` | the event: `UpdateStatistics` (emit, cut the window: `InWindow`, compute the loss: `LossOf`) |
| `StopAppTraffic` | the same; reports still come afterwards |
| `Tick` | the clock; it does not pass a pending event |

Abstractions. A packet is its sequence number and time of arrival. A report is a set
of packets not reported before, in any order: that every accepted packet is in
one report is `EachPacketReportedOnce` of `AppReports`. Latency, jitter and byte
counts are not modelled.

### Forwarding, Network (`border-router.cc`, `scion-capable-node.cc`, `scion-host.cc`, `path-server.cc`)

`on_the_flight_packets` are the packets that exist in the map of that name of some
node; a packet carries its number, so that one set stands for all the maps.
`scheduled` are the packets on their way to a node, with what the node needs to know
of the interface they come in by (`received_from_local_as`). Every interface of an
AS has a border router of its own (`pre-simulation-setup.cc` 470), and all nodes
of an AS are connected (`ConnectInternalNodes`), so that a node is found by its AS
and interface or address. `registered_core_segments`, `cached_core_path_segments`
and `connection_infos` have their names from the code; `app_paths` are the `paths` of
the applications.

| action | code |
|---|---|
| `ForwardPacket`, `DropPacket` | `BorderRouter::ProcessReceivedPacket`, and the branch of `ScheduleForSend` that drops |
| `Register`, `Expire` | `RegisterCorePathSegment`; the time of expiry passes, which `ReceiveRegisteredPathSegments` compares |
| `AnswerRequest` | `PathServer::ProcessReceivedPacket`: an answer per destination, then the request is destroyed |
| `ReceiveAnswer` | `ReceiveRegisteredPathSegments` and `CachePathSegment` |
| `StartApplication`, `RequestForPathSegments` | the two branches of `StartApplication`, with the path of a configuration (`apps/app.cc` 70) |
| `SendAppPacket` | a probe or data on any path of the application |
| `EchoProbe`, `ReceiveReply`, `ReceiveAppData` | the branches of `ScionHost::ProcessReceivedPacket`; a probe is returned, everything else destroyed |
| `CheckConnectionTimeout` | a report at any time, or the end of the connection |

`Exchange` is what handlers have in common: done with the packet that came,
`DestroyScionPacket` for some, `CreateScionPacket` and `SendScionPacket` for others.

Abstractions. A node takes its packets in any order, those of one link as well:
queues and delays are in `EgressInterface`, and what is shown for any order holds
for theirs. The numbers of packets are given again when they are free, which the
code's counter does after 2^32 packets. A packet that is dropped by the host that
sends it is none. A path is one segment: `SearchAllInCachedSegments` only builds
such paths, the topologies being core only, so that the switch of segments in
`border-router.cc` 78-105 is not modelled. What the applications do with answers is in
the modules above: here they send and report what they like.

### MC modules

`MCPolarisSender`, `MCTimeSync`, `MCNtpExchange`, `MCBeaconing` and `MCNetwork` give values to constants that a
cfg cannot write (a ramp, the offsets, the topology) and define the symmetries.
`EgressInterface`, `AppReports` and `JitterBuffer` are run directly.

## 4. What the runs check

A property is preceded in its module by a comment that says what it means; for
every property of a passing run `PROJECT.json` lists a mutant, a plausible bug in
one definition (the operators marked "Mutant" in the modules), which makes the run
fail. The type invariants of all modules are proved (section 6) and need no run.

| run | module | size | question and result |
|---|---|---|---|
| `PolarisShift` | `MCPolarisSender` | 2 paths, clock 2..7, an alert at 4, shares {2,8}, path shifting | Are transitions well formed, do they end in time, keep the rate and stay undisturbed? Holds: `TransitionInv`, `ShiftKeepsRate`, `TransitionUndisturbed`. |
| `PolarisSwitch` | `MCPolarisSender` | 3 paths, clock 2..6 (one switch and what could follow it too early), echoes up to 1 late, stop at 5, no shifting | Does a sender move only to a path that was a candidate without a break, never twice within the candidacy time, and is every path probed? Holds: `SwitchAfterContinuousCandidacy`, `SwitchesApart`, `NoPathUnprobed`. |
| `PolarisShiftAssert` | `MCPolarisSender` | 2 paths, clock 2..8 | The assertion of `ScheduleSend` on the target rate: violated (finding 1). |
| `EgressInterface` | `EgressInterface` | 4 packets of 2 applications or of none, of 1 or 2 bytes, until time 6; 2 per byte, queue of 3, period 2 | The byte counter is a queue, the estimate neither blind nor stuck, and all comes to rest. Holds: 4 invariants, `DepartureSpacing`, `Quiesces`. |
| `AppReports` | `AppReports` | 3 packets of 2 frames and one other packet, clock 0..5, interval 1, timeout 2, period 1 | Every accepted packet reported once and in time, stamped soundly, connections closed only when quiet, `PacketFeedback` implemented. Holds. |
| `ReportsDeadConnection` | `AppReports` | 2 packets of 2 frames and one other packet, clock 0..10, interval 1, timeout 2, period 2 | Is a dead connection closed, at the latest two timers of the interface after it should be? Violated (finding 2). |
| `Beaconing` | `MCBeaconing` | 7 ASes, 5 periods, beacons live 3, store 2, send 1 | Paths are segments and travel one link per period, counts are exact, validity, registration, reach. Holds: 6 invariants and `NeverOlder`. |
| `TimeSyncV4` | `MCTimeSync` | V4, 4 servers, one malicious reference, one server that may lack paths to two others, g = 2, clocks right or off by three drifts | Clocks that are right stay so over any number of rounds, and those with right references come to it. Holds: `ClocksStayAccurate`, `BecomesAccurate`. |
| `TimeSyncV3` | `MCTimeSync` | V3, g = 2, two changes of the references | No few clocks pull another one. Holds: `FewClocksCannotPull`. |
| `NtpExchange` | `MCNtpExchange` | 2 servers, a path, g = 2, period 60, window 50, 3 rounds, round trips of 10 to 98, any drift of up to 1 in 40 | Is every offset as accurate as its bound says, and none used late? Holds: `OffsetsAccurate`, `OffsetsRecent`. |
| `JitterBuffer` | `JitterBuffer` | 4 packets in reports of up to 2, clock 1..9, window 2, tracking 4, reports up to 3 late | Is what is played in order, refused only when late, held no longer than need be, and the loss right? Holds: `PlayedInOrder`, `BufferedAtMost`, `LateIsReallyLate`, `LossIsRight`. |
| `Network` | `MCNetwork` | 3 ASes in a triangle, a host that has an application to another, 2 registered paths and one of the configuration, 5 packets | Do assertions, memory, caches and replies hold up, does all traffic end, does the application start? Holds: `AssertionsHold`, `ExistsWhileUnderWay`, `AppPathsLeadThere`, `RepliesReachTheirApp`, `TrafficEnds`, `AppsStart`. |

### The bounds and why they are enough

- **Polaris sender.** One unit of time stands for an update interval (0.25 s). The
  other intervals are scaled down but keep their order (candidacy below the
  minimum interval between switches, transition and alert timeout of the same
  magnitude). A run is long enough for a candidacy, a switch, the
  whole transition, its end and the next candidacy (`PolarisShift`), or for a
  switch after a full candidacy and any update after it that could lead to a second
  one too early (`PolarisSwitch`). A second switch that keeps the candidacy time comes
  at 8 at the earliest, which is too long for three paths (more than 20 million states);
  the theorems `SwitchesAreApart` and `SwitchesAfterContinuousCandidacy` cover any
  number. Two paths
  suffice for transitions, which concern two; the
  competition for probes needs three. Congestion alerts come at one time: one is
  enough to make the active path unusable and so to skip the minimum
  interval. The theorems cover all other values.
- **Egress interface.** A queue of three bytes with packets of two drops the
  second one that comes early; four packets until time 6 with a period of two
  let a flow be steady, stop, be forgotten and return; a delay of two per
  byte makes the rounding in the drain matter. There is no bound on the clock:
  it goes on until no event is left.
- **AppReports.** Three packets in two frames are the least for a report of two
  packets, a packet of an earlier frame that is overtaken by a later one, and a
  further report; five units let a connection time out and be opened again. With a
  period of one a timer is set and fires within them. A packet takes one unit to leave
  (the code's transmission delay is positive), so that the clock of the host is set
  after a report was made and before the next check. In `ReportsDeadConnection` ten units
  pass the bound on a packet of the first two.
- **Beaconing.** Three parallel links and a store of two exceed the limits of the
  store (for paths longer than one link) and of dissemination; the numbers of the
  ASes go up and down along the chains, so that a neighbour runs both before
  and after its sender in a period; a chain as long as a beacon lives makes a
  beacon expire on its way; five periods let the beacons of the first period
  expire and be renewed. `last_beaconing` 5 (1,050,000 states) passes as well.
- **TimeSync.** Four servers are the least with f = 1. The malicious offset (-40)
  is far out of any correction's reach; the clocks that start wrong (-6) are on the other
  side of the real time. `MaxError` (100) is never reached in
  `TimeSyncV4`, so the bound does not cut behaviours there; in `TimeSyncV3` it
  is 3, which is more than the drift between two synchronisations. The drift within the
  two seconds is 0 in the runs and any in the proofs.
- **NtpExchange.** A wait of 30 in a queue or of 10 for a processor, or none, lets an
  answer come within the window (50) or up to 48 after it, but before the second next
  round (120). A clock drifts by one in 40, so that in the window it makes more than
  one step and every advance rounds. Three rounds let the offsets of one be used in
  the next and not in the one after; an event of another kind at 25 advances a clock
  between stamps. Two servers and one path suffice, as the properties speak of one
  offset at a time.
- **JitterBuffer.** Four packets let one overtake two others, be refused, and leave
  a gap. Reports are up to 3 late, more than the window of 2 and less than the
  tracking window of 4, so that a packet may be overdue when it comes; nine units
  are long enough for a silence to clear the record and for packets after it.
- **Network.** The triangle has a path of two ASes, which has no AS to pass through,
  and one of three, which has, in both directions; the configured path is the first
  one not reversed. Segments may be registered and expire at any time. A host sends its three
  requests while at most one packet of an earlier lookup is under way
  (`MaxLookups`), so that answers of two rounds meet. One packet of applications
  at a time (`MaxTraffic`) suffices for the safety properties, since no handler
  looks at two; five numbers (`Ids`) are what these bounds need. The theorems
  have none of these bounds.

### Symmetry

The runs of the sender permute the paths, `Beaconing` the three parallel links.
Only safety properties are checked under symmetry.

### Deadlock

`CHECK_DEADLOCK FALSE` is set where a behaviour ends because the program does or a
clock bound is reached: the sender and the reports at `MaxTime`, the interface
when no event is left (`Quiesces` checks that this is a proper end), the jitter
buffer at `MaxTime`, the NTP exchange after `last_event`, `Beaconing`
after `last_beaconing`, and `TimeSyncV3`, where clocks at `MaxError` may have no
drift left that keeps them in bounds. `TimeSyncV4` and `Network` never stop and check
deadlock.

### Fairness

Four liveness properties are checked. `Quiesces` and `BecomesAccurate` are checked
under `WF_vars(Next)`. This is what the simulator does: it takes the next event as
long as there is one. No action is assumed to be taken when another one could be,
so that for `Quiesces` the packets may come or not, and for `BecomesAccurate` the
drift and the errors may be the worst in every period.

`TrafficEnds` and `AppsStart` need more, because `Network` has no clock: a packet that
is scheduled is taken some time (`WF` of `Take`, for packets of lookups and of
applications), and a host without a path comes back to `StartApplication`
(`WF` of its two branches), since both are events with a delay of their own that
the simulator reaches. Segments may be registered and expire without any fairness:
`AppsStart` only speaks of a time from which on there is a path. A request whose host
waits for room (`MaxLookups`) is not enabled, which the fairness does not
override; the packets it waits for are taken.

Everything else that must happen in time is stated as a bound (`ReportedInTime`,
`NoPathUnprobed`, `ReachedInTime`, `TransitionInv`, `BufferedAtMost`) and needs no
fairness.

## 5. Findings

1. `apps/polaris.cc` 416: in every frame of a transition the code asserts that
   the target rate exceeds the rate before it. `UpdatePathCandidates` compares
   shares only while the active path is usable (line 820), so a sender whose path
   has died moves to any fresh path, also one with a smaller share, and the next
   frame aborts the simulation (`PolarisShiftAssert`).
2. `scion-host.cc` 639: `connection_timeout` is, by `scion-host.h` 82, the time
   after which a connection is considered dead. The check compares the last packet
   with `local_time`, which other events of the host set, and which the check itself only
   sets when it has a report to send. A steady flow is closed one or two
   periods of the interface late, because its timers go on until a period without
   traffic. But when the last packet completes a frame, its report is sent at once,
   leaves a moment later and takes the clock with it; every later check has nothing to
   send and compares that moment with a second. If no timer is pending
   either, and nothing else comes to the host, the connection and its chain of
   checks stay for ever. No timer is pending when the traffic began less than
   `collection_period` before (in the first second, as in the run, or after a period
   without traffic, whose first packet sets none). With a longer clock TLC also finds the
   case of a single frame, which the first check reports: its last packet, which came
   some moments after the first, is not yet older than `connection_timeout`, and the clock that the
   report advances is not advanced again (`ReportsDeadConnection`). `AppReports`
   shows that no connection is closed too early and that no packet remains unreported
   because of it.

## 6. What is proved

All theorems hold for every value of the constants that satisfies the named
assumption of the module, and are proved to the last leaf by TLAPS. Each proof
module states its inductive invariant `IInv` first, has one lemma per action (or
group of actions), and derives the theorems from `Spec => []IInv`.

**`PolarisSenderProofs`**, under `SenderAssumption` (rates are natural numbers,
intervals are positive, the ramp lies between 0 and 1, the paths are finitely many).
`IInv` is `TypeOK`,
`TransitionInv`, `TimingInv` and `ShiftKeepsRate`: that a transition ends in time
needs that neither pending event lies in the past nor more than an interval ahead
(`TimingInv`), and that the rate is kept needs that nobody but a frame writes the
shares, hence that no second switch starts in a transition. Theorems:
`TypeCorrect`, `TransitionsWellFormed`, `ShiftingKeepsRate`,
`TransitionsUndisturbed`. A second invariant relates candidacy to the last update
that found a path not eligible: a candidate has been so since
`is_candidate_since`. From it follow `SwitchesAfterContinuousCandidacy` and
`SwitchesAreApart`; the latter needs no comparison with the last switch in the
code, since a switch resets all candidacies. A third one, `ProbingInv`, is for
`EveryPathIsProbed` and counts: `Ahead(p)` are the paths last probed no later than
`p`. An update that passes `p` over although it is due probes at least one of them
(`OldestIsProbed`), which leaves `Ahead(p)` for as long as `p` waits, so that what `p`
still has to wait falls by one interval with every such update. The theorem
assumes more than one path: with a single path `FindProbeCandidates` has no
candidate at all.

**`EgressInterfaceProofs`**, under `InterfaceAssumption` (finitely many
applications, positive transmission delay). `IInv` adds to the stated invariants
`PastInv` (what is remembered lies in the past), `EstimateInv` (the estimate is the
cardinality of a set of applications seen shortly before; data since the last
update shows in the counter, so that the next update sets a timer) and `QueueInv`
(the counter never falls behind the packets under way: the last one leaves when
the counter says the queue is empty, `Front`). The drain rounds down, which keeps
`Front` from decreasing; with rounding up the proof and the run fail. Theorems: all
safety properties of the run, among them `DeparturesSpaced`.

**`AppReportsProofs`**, under `ReportsAssumption` (positive intervals). `IInv` adds
`Numbered` (a packet under way has a number of its own that was not accepted),
`ChecksInTime` (where the next check lies relative to the age of the report) and
`ClocksBehind` (the host's clock is behind, the connection's behind the host's): the
theorems hold for whatever events set the clock (`ClockStep`), as long as they set it to the
present. `ReportSent` and `InterfaceStep` say what making a report and the events of the
interface change.
Theorems: all properties of the run; `ImplementsFeedback` is the refinement, from
`IInv` and one step per action.

**`BeaconingProofs`**, under `BeaconingAssumption` (a finite set of links, egress
interfaces that identify links, core links between core ASes only,
beacons that outlive a period, times within 16 bits). The properties are not
inductive: `IInv` adds `Upstream` (a beacon on the wire or new in a store relates
to the one it extends in the store of the AS before), `ReceivedOnce` (no
path is received twice in a period, on which exact counts depend because reception
counts every beacon that is not valid) and `SentThisPeriod` (what is new in a
store has been advertised by the AS before it). Theorems: `StoresSegments`,
`TravelsOneLink`, `CountsAreExact`, `StaysValid`, `RegistersValid`, `KnowsNoOlder`, for
every topology. `ReachesInTime` needs a second invariant, `ReachInv`, about where the
beacons come from and how far they have come: `Tracing` (whatever is on the wire
or stored has left a valid path of its origin at every AS it has been through, so that
the loops that dissemination avoids leave nobody out), `Arriving` (in the middle of a
period, what the ASes that have run were to pass over a link has arrived or
lies on the wire) and `Progress` (after k periods the pairs within k links have a valid
path). `Within` is a recursive function, of
which the provers know nothing but its `CHOOSE`; that it satisfies its equation
(`WithinStep`) is proved by giving a solution that is not recursive: the
pairs joined by a walk of at most k links (`Walked`).

**`JitterBufferProofs`**, under `JitterBufferAssumption` (windows and delays are
natural numbers). That packets are played in order is inductive only with `Reported`
(what is in a buffer is not reported again, so that no number comes twice) and
`LastWaited` (the last packet played had waited its time: later ones are refused
by its number). `Deadline` says by when the next `RecordMetrics` takes a packet along,
`PlayedBefore` that what was played and is not kept lies before what is kept. That the
difference of two numbers counts the gaps is a lemma on cardinalities
(`LossOfCounts`). Theorems: all properties of the run.

**`NetworkProofs`**, with the lemmas on `Forwarding`, under `ForwardingAssumption` (segments are
walks along links that come to no AS twice, which is what `StoresSegments` proves of
beacons) and `NetworkAssumption`, for any topology, any number of hosts,
applications, segments and packets. `IInv` adds to the properties `Travelling`: a
packet is inside its first or last AS, or at a border router of its path, on the
side that its pointer says; and `Roles`: who sends what to whom, on which path. A
border router keeps `Travelling` (`ForwardedTravels`) by the equations of links,
whether the segment is gone forwards or backwards; a returned packet starts
where it arrived. Theorems: all safety properties of the run. Two more are the safety
core of `TrafficEnds`: `NodesAhead` counts the nodes that a packet has still to come
to, two border routers for every hop and, for a probe, the way back; whoever takes a packet
and does not end it brings this number down by exactly one (`PacketsComeCloser`), and it
is a natural number below four times the hops of the path (`WaysAreBounded`). What is
left to TLC of `TrafficEnds` is that nodes do take the packets and that hosts stop
asking.

**`TimeSyncProofs`**, under `TimeSyncAssumption`. The main lemma
(`GoffInRange`) is about multisets of offsets: if at most f of n = |Servers|
offsets are wrong, the middle of ranks f and n-1-f lies in the range of the
others. `FewClocksCannotPullAny` follows for every version; `V4StaysAccurate` states
`ClocksStayAccurate` for V4 under the conditions its statement lists (`AccurateSetting`:
at most f references are malicious
and their servers have paths to all others, a measurement error does not exceed
the cut-off, and no event changes the references), from the invariant
`AccuracyInv`, which bounds a clock by phase and round: right clocks are exact
after their local correction, so that a global one leaves them alone.
`V4BecomesAccurate` is about any start: with `rounds`, a history variable that counts
the rounds of g periods, the error of a clock whose reference is right is at most
`ErrorAfter(bound, rounds)` when all of these begin within `bound`. Each round takes `Gain`
away, g times what a local correction has over the drift of a period (`Margin`) less
one measurement error, which a global correction may add; once errors are as small as the
drift of a period they stay so. The invariant (`ConvergenceInv`) gives a limit for every
phase and every period of a round (`Excess`, `Limit`). Two conditions matter, and
`ConvergenceSetting` states them: `Gain >= 0`, since with a drift so small that the
coefficient 1.25 is lost in rounding a local correction only makes up for the drift, and a
measurement error within the cut-off. Malicious servers may do as they like, and
lack any paths. This is the counterpart of `BecomesAccurate` that needs no fairness: it
says after how many rounds, TLC that the rounds come.

**`NtpExchangeProofs`**, under `NtpAssumption` (the window is shorter than a period; no
round trip is longer than the g periods of a round). No clock is corrected while a
round collects its offsets, so that each is off the error it had at the start by its
drift and the rounding of its advances (`ClocksNear`); hence so is every time that
was read into a packet (`Stamps`), and from four such times and the two travel times
`OffsetError` adds up the bound. `PacketTimes` bounds when the events of a packet
are by when it was requested, so that a packet of the round before cannot be taken
for one of this round; `Late` says that what comes between two rounds is late.
Theorems: `MeasuresAccurately`, `NeverTooLate`. `MeasuresAccurately` is what discharges
the `measurement_error` of `TimeSync`, as `ErrorBound` over twice a day.

## 7. What is only model-checked

- `Quiesces`, `BecomesAccurate`, `TrafficEnds` and `AppsStart`: liveness under fairness.
  Of two of them the part that needs no fairness is proved: `V4BecomesAccurate` bounds
  the rounds, `PacketsComeCloser` and `WaysAreBounded` the ways of packets (section 6).
- The two violation runs.

Every invariant and every action property of the passing runs, and the refinement of
`PacketFeedback`, is a theorem.

## 8. What is not modelled

The components with status `not_modelled` in `PROJECT.json`, with the reason there:
the other beaconing policies (diversity, green, latency-optimised, on-demand,
SCIONLab), pull-based beacons and the path selection of the time servers, which rank
by real-valued scores; the congestion controller, which is floating-point
signal processing; the video-conference, TCP and general-traffic applications, which
wait for answers to probes (`QOS_PROBE_REQ`) that no node gives in this commit;
background traffic, whose only start is commented out (`scion-host.cc` 486), so that
the event that sets its rate finds no application; construction of the scenario,
evaluation and output, which are sequential and run before or after the simulation;
the rest of ns-3 and the vendored WebRTC and JSON code, which are not the program's
own. Counted in lines, nearly all of the repository is that last part: the
generated Python bindings of ns-3 alone have some 700,000 lines, the program's own
logic (`src/SCION/model`) a few percent of it. Shares of the modelled code are
therefore only meaningful within `src/SCION/model`.

Within modelled components: everything that prints; the byte counts, latencies and
losses of reports; the averages of latency and jitter; reading and writing beacons
to disk, traffic counters and static information of beacons; crossings between
segments and shortcuts in the border router; congestion alerts, which are only
sent under `if (false)` and in a comment (`PolarisSender` still takes them); requests
for up and down segments, which path servers ignore.

## 9. Observations

Met while reading and modelling. The first two show a comment wrong rather than a
behaviour of the program, the third an assertion that is left out of the models; of the
others no document, comment or test says otherwise. No property speaks about them.

- `apps/path-state.cc` 11: the comment above the function wants a fresh result to be
  from a probe initiated after the switch; the code compares the time the echo
  arrived, so that an echo that took longer than the stored latency makes an older
  result fresh.
- `apps/polaris.cc` 767: the factor `bottleneck_num_flows / (bottleneck_num_flows - 1)`
  is a division of integers, 2 for two flows and 1 for more; the comment's example
  with three flows expects 1.5. `CorrectedShare` does what the code does.
- `time-server.cc` 937: the snapshot `ASSERT_OFFSET_DIFF` (for clocks of constant drift)
  asserts that an offset differs from the real difference of the clocks by less than
  both drift in two seconds. An offset also contains half of what the request and the
  answer differ by on their way, in the queues and processors of the border routers;
  `OffsetsAccurate` has a bound with that term.
- `apps/connection-metrics.cc` 283: with fewer than two packets in the window the loss
  keeps its old value, and `RecordMetrics` (`apps/polaris.cc` 254) ignores that
  nothing was computed. 279: when a silence has cleared `delivered_packets`, a packet
  that comes late is played after later ones that are forgotten, and a packet played
  before the silence counts as lost if it lies between two played after it.
- `scion-host.cc` 64: `RemoveExpiredSegments` is empty; an application may start with a
  path that expired after it was cached, and has for ever the paths that were there
  when it started. `path-server.cc` answers requests with expired segments too.
- `apps/app.cc` 82: the hop fields of a configured path have no isolation domain, so
  that the assertions hold only where every AS is in domain 0; its `originator` and
  times are not set, and nothing reads them.
- `border-router.cc` 45 and 66, `scion-host.cc` 340: packets to the own AS, to an unknown
  host and probe requests (`QOS_PROBE_REQ`) are returned from without being destroyed;
  nothing that is modelled sends such packets. Nor is a packet of
  `SendArbitraryPacket` (`scion-host.cc` 385), which a user-defined event sends: it is of
  type `EMPTY`, which no host handles, and is outside `Network`.
- `scion-as.cc` 206 and 376: `size () - 1` wraps in an AS without links or hosts.

- `beaconing/beacon-server.cc` 564: the refresh of an expired path and paths of one
  link bypass `MAX_BEACONS_TO_STORE`. Neither containers nor path servers are
  ever purged. A path as long as `expiration_period / beaconing_period` is
  received but never becomes valid.
- `scion-host.cc` 668: a report of packets whose numbers span 0 expected packets
  divides by 0; the loss becomes infinite or not a number. 580: the frame number of
  a connection stays that of its first packet. 248: iterators of two different maps
  are compared.
- `apps/polaris.cc` 566: a report that was overtaken moves `last_report` back.
- `time-server.cc` 102-103 and 401-402: a vector is constructed from dereferenced
  iterators.
- Packets never set `ecn_capable`, so that no congestion is ever marked by ECN; the
  id of a bottleneck probe is 16 bits wide; `QOS_PROBE_REQ` has no answer.
