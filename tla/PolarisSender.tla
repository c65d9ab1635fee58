--------------------------- MODULE PolarisSender ---------------------------
(***************************************************************************)
(* The path selection of one Polaris sender (apps/polaris.cc): when it     *)
(* probes which path, what it learns from echoes, reports and congestion   *)
(* alerts, when a path becomes a switching candidate, when the sender      *)
(* changes path and, with path_shifting, how the rate moves from the old   *)
(* path to the new one.                                                    *)
(*                                                                         *)
(* Time is a natural number; the simulator fires an event when the clock   *)
(* reaches its time, so Tick may not step over a pending event.  Rates and *)
(* shares are natural numbers: only their order and the margin between     *)
(* them matter.  The WebRTC controller is the environment: each of its     *)
(* updates carries no rate or any rate of Rates.                           *)
(***************************************************************************)
EXTENDS Integers, FiniteSets

CONSTANTS
  Paths,                      \* indices of App::paths
  NoPath,                     \* the value of previous_path before the first switch
  Rates,                      \* estimates the congestion controller may return
  Shares,                     \* bottleneck shares an echo may carry
  Flows,                      \* bottleneck_num_flows an echo may carry
  ReportLatencies,            \* avg_latency values a report may carry
  ReportDelays,               \* ages a report may have when it arrives
  StartTime,                  \* Simulator::Now() at StartAppTraffic
  MaxTime,                    \* bound of the clock
  MaxProbeRtt,                \* bound of the time a probe is under way
  AlertTimes,                 \* times at which congestion alerts may arrive
  StopTimes,                  \* times at which the application may be stopped
  InitialRate,                \* initial target_sendrate
  MarginNum, MarginDen,       \* path_change_margin
  FactorNum, FactorDen,       \* initial_bandwidth_factor
  update_interval, frame_interval, probe_simultaneous,
  probe_recency,              \* the Seconds (1) of FindProbeCandidates
  probe_latency,              \* the 200 ms assumed for a path that is not active
  correction_delay,           \* the 100 ms after which shares are corrected
  path_switch_min_interval, path_switch_min_candidacy,
  path_alive_treshold, congestion_alert_timeout,
  transition_time,            \* the Seconds (5) of SwitchToPath
  Ramp, RampScale,            \* the ramp-up curve, over 0..transition_time
  path_shifting, cfgPathSwitching

Times == Nat

\* What the source fixes about its parameters: intervals are positive, the
\* ramp is a fraction between 0 and 1 of the target rate.
ASSUME SenderAssumption ==
  /\ IsFiniteSet(Paths) /\ Paths # {} /\ NoPath \notin Paths
  /\ Rates \subseteq Nat /\ Shares \subseteq Nat /\ Flows \subseteq Nat \ {0}
  /\ ReportLatencies \subseteq Nat /\ ReportDelays \subseteq Nat
  /\ StartTime \in Nat /\ MaxTime \in Nat /\ MaxProbeRtt \in Nat
  /\ AlertTimes \subseteq Nat /\ StopTimes \subseteq Nat
  /\ InitialRate \in Nat
  /\ MarginNum \in Nat \ {0} /\ MarginDen \in Nat \ {0}
  /\ FactorNum \in Nat \ {0} /\ FactorDen \in Nat \ {0}
  /\ update_interval \in Nat \ {0} /\ frame_interval \in Nat \ {0}
  /\ probe_simultaneous \in Nat \ {0} /\ probe_recency \in Nat \ {0}
  /\ probe_latency \in Nat /\ correction_delay \in Nat
  /\ path_switch_min_interval \in Nat /\ path_switch_min_candidacy \in Nat
  /\ path_alive_treshold \in Nat /\ congestion_alert_timeout \in Nat
  /\ transition_time \in Nat \ {0} /\ RampScale \in Nat \ {0}
  /\ Ramp \in [0..transition_time -> 0..RampScale]
  /\ path_shifting \in BOOLEAN /\ cfgPathSwitching \in BOOLEAN

VARIABLES
  now,                     \* Simulator::Now()
  stopped,
  next_update,             \* time of the pending Update event
  next_send,               \* time of the pending ScheduleSend event
  active_path, previous_path,
  used_paths,              \* the paths that have been active: reports may come on them
  first_report_received,
  last_report,             \* per path: timestamp of the last report processed
  latency,                 \* per path: observed or assumed latency
  bottleneck_share,        \* per path: fair share from the last echo
  last_probe_sent,         \* per path
  last_probe_echo,         \* per path: send time of the probe whose echo is stored
  last_probe_echo_time,    \* per path
  last_congestion_alert,   \* per path
  is_candidate, is_candidate_since,
  in_flight_probes,        \* the probes under way: [path, sent] is the probe id
  last_path_change, in_path_transition, path_transition_end,
  target_sendrate, previous_sendrate,
  sendrate,                \* per path: share of the rate during a transition
  \* history, read by properties only
  last_switch,             \* time of the last change of active_path
  ineligible_at            \* per path: last time an update found it no candidate

clocks == <<now, next_update, next_send>>
pathState == <<last_report, latency, bottleneck_share, last_probe_echo,
               last_probe_echo_time, last_congestion_alert>>
probing == <<last_probe_sent, in_flight_probes>>
candidacy == <<is_candidate, is_candidate_since, ineligible_at>>
route == <<active_path, previous_path, last_path_change, in_path_transition,
           path_transition_end, previous_sendrate, last_switch, used_paths>>
vars == <<clocks, stopped, first_report_received, pathState, probing, candidacy,
          route, target_sendrate, sendrate>>

Probe == [path : Paths, sent : Times]

TypeOK ==
  /\ now \in Times /\ next_update \in Times /\ next_send \in Times
  /\ stopped \in BOOLEAN /\ first_report_received \in BOOLEAN
  /\ active_path \in Paths /\ previous_path \in Paths \cup {NoPath}
  /\ used_paths \subseteq Paths
  /\ last_report \in [Paths -> Int]
  /\ latency \in [Paths -> Nat]
  /\ bottleneck_share \in [Paths -> Nat]
  /\ last_probe_sent \in [Paths -> Times]
  /\ last_probe_echo \in [Paths -> Times]
  /\ last_probe_echo_time \in [Paths -> Times]
  /\ last_congestion_alert \in [Paths -> Times]
  /\ is_candidate \in [Paths -> BOOLEAN]
  /\ is_candidate_since \in [Paths -> Times]
  /\ in_flight_probes \subseteq Probe
  /\ last_path_change \in Times /\ path_transition_end \in Times
  /\ in_path_transition \in BOOLEAN
  /\ target_sendrate \in Nat /\ previous_sendrate \in Nat
  /\ sendrate \in [Paths -> Nat]
  /\ last_switch \in Times
  /\ ineligible_at \in [Paths -> Times]

-----------------------------------------------------------------------------
(* Probing *)

\* Mutant: any path not probed within the last second is a candidate.
AnyProbeCandidates(active, sent, t) ==
  {p \in Paths \ {active} : sent[p] <= t - probe_recency}

\* The paths FindProbeCandidates collects: of the paths that are not active
\* and were last probed no later than one second ago, those probed least
\* recently.
ProbeCandidates(active, sent, t) ==
  LET old == {p \in Paths \ {active} : sent[p] <= t - probe_recency}
  IN  {p \in old : \A q \in old : sent[p] <= sent[q]}

\* The sets of paths SendProbes may probe at time t: the active path and a
\* random choice of probe_simultaneous candidates.
ProbeSets(active, sent, t) ==
  LET cand == ProbeCandidates(active, sent, t)
  IN  {S \cup {active} : S \in
         {C \in SUBSET cand : \/ Cardinality(C) = probe_simultaneous
                              \/ C = cand /\ Cardinality(C) <= probe_simultaneous}}

\* SendProbeOnPath for every path of S.
SendProbes(S) ==
  /\ last_probe_sent' = [p \in Paths |-> IF p \in S THEN now ELSE last_probe_sent[p]]
  /\ in_flight_probes' = in_flight_probes \cup {[path |-> p, sent |-> now] : p \in S}

\* The share the sender stores: the share of the echo, corrected for its own
\* flow on the active path.  The quotient is one of unsigned integers.
CorrectedShare(p, share, flows) ==
  IF p = active_path /\ flows > 1 /\ now > last_path_change + correction_delay
    THEN share * (flows \div (flows - 1))
    ELSE share

\* ReceiveProbeResponse for an echo that carries a result.
ReceiveProbeResponse(probe, share, flows) ==
  LET p == probe.path IN
  /\ probe \in in_flight_probes
  /\ in_flight_probes' = in_flight_probes \ {probe}
  /\ last_probe_echo' = [last_probe_echo EXCEPT ![p] = probe.sent]
  /\ last_probe_echo_time' = [last_probe_echo_time EXCEPT ![p] = now]
  /\ latency' = IF p # active_path THEN [latency EXCEPT ![p] = probe_latency] ELSE latency
  /\ bottleneck_share' =
       [bottleneck_share EXCEPT ![p] = CorrectedShare(p, share, flows)]
  /\ UNCHANGED <<clocks, stopped, first_report_received, last_report,
                 last_congestion_alert, last_probe_sent, candidacy, route,
                 target_sendrate, sendrate>>

\* ReceiveProbeResponse for an echo no border router has written to.
ReceiveEmptyProbeResponse(probe) ==
  /\ probe \in in_flight_probes
  /\ in_flight_probes' = in_flight_probes \ {probe}
  /\ UNCHANGED <<clocks, stopped, first_report_received, pathState, last_probe_sent,
                 candidacy, route, target_sendrate, sendrate>>

\* ReceiveScmp for a congestion alert about path p.
ReceiveCongestionAlert(p) ==
  /\ now \in AlertTimes
  /\ last_congestion_alert' = [last_congestion_alert EXCEPT ![p] = now]
  /\ UNCHANGED <<clocks, stopped, first_report_received, last_report, latency,
                 bottleneck_share, last_probe_echo, last_probe_echo_time, probing,
                 candidacy, route, target_sendrate, sendrate>>

-----------------------------------------------------------------------------
(* Reports and the controller *)

\* Mutant: the test on in_path_transition is missing.
OnNetworkControlUpdateUnguarded ==
  \/ UNCHANGED target_sendrate
  \/ \E estimate \in Rates : target_sendrate' = (target_sendrate + estimate) \div 2

\* OnNetworkControlUpdate: the controller's estimate moves the target rate
\* half way, except during a transition.
OnNetworkControlUpdate ==
  IF in_path_transition
    THEN UNCHANGED target_sendrate
    ELSE \/ UNCHANGED target_sendrate
         \/ \E estimate \in Rates :
              target_sendrate' = (target_sendrate + estimate) \div 2

\* ReceiveAppResponse for a report on path p that the receiver sent d ago.
\* Reports come back on the paths data was sent on, however long ago.
ReceiveAppResponse(p, d, l) ==
  /\ p \in used_paths
  /\ first_report_received' = TRUE
  /\ last_report' = [last_report EXCEPT ![p] = now - d]
  /\ latency' = [latency EXCEPT ![p] = l]
  /\ OnNetworkControlUpdate
  /\ UNCHANGED <<clocks, stopped, bottleneck_share, last_probe_echo,
                 last_probe_echo_time, last_congestion_alert, probing, candidacy,
                 route, sendrate>>

\* ScheduleControllerProcessInterval: runs every few milliseconds, also
\* after the application has stopped.
ScheduleControllerProcessInterval ==
  /\ first_report_received
  /\ OnNetworkControlUpdate
  /\ UNCHANGED <<clocks, stopped, first_report_received, pathState, probing,
                 candidacy, route, sendrate>>

-----------------------------------------------------------------------------
(* Choosing a path *)

HasFreshProbeResultsSince(p, t) == last_probe_echo_time[p] > t + latency[p]

\* PathState::loss keeps its initial value 0, so the tests on it are left out.
IsActivePathUsable ==
  /\ last_report[active_path] > now - path_alive_treshold
  /\ last_congestion_alert[active_path] < now - congestion_alert_timeout

\* The three tests of UpdatePathCandidates a path must pass.
Eligible(p) ==
  /\ ~(last_congestion_alert[p] > now - congestion_alert_timeout)
  /\ HasFreshProbeResultsSince(p, last_path_change)
  /\ ~(IsActivePathUsable
       /\ bottleneck_share[p] * MarginDen < target_sendrate * MarginNum)

\* The active path is not examined while it is usable.
Examined == IF IsActivePathUsable THEN Paths \ {active_path} ELSE Paths

\* Mutant: a path that fails a test keeps its candidacy.
CandidateNotReset(p) == is_candidate[p] \/ (p \in Examined /\ Eligible(p))

\* is_candidate and is_candidate_since after the loop over the paths.
Candidate(p) == IF p \in Examined THEN Eligible(p) ELSE is_candidate[p]
CandidateSince(p) ==
  IF p \in Examined /\ Eligible(p) /\ ~is_candidate[p] THEN now ELSE is_candidate_since[p]

FinalCandidates ==
  {p \in Paths : \/ p \notin Examined
                 \/ /\ Eligible(p)
                    /\ CandidateSince(p) <= now - path_switch_min_candidacy}

\* UpdatePathCandidates returns before choosing a path.
KeepsPath ==
  \/ IsActivePathUsable /\ now - last_path_change < path_switch_min_interval
  \/ FinalCandidates = {}

\* The loop over the paths, without a switch.
UpdateCandidacy ==
  /\ is_candidate' = [p \in Paths |-> Candidate(p)]
  /\ is_candidate_since' = [p \in Paths |-> CandidateSince(p)]
  /\ ineligible_at' = [p \in Paths |-> IF Eligible(p) THEN ineligible_at[p] ELSE now]

\* SwitchToPath when the path chosen is the active one.
StayOnPath ==
  /\ UpdateCandidacy
  /\ last_path_change' = now
  /\ UNCHANGED <<active_path, previous_path, used_paths, in_path_transition,
                 path_transition_end, previous_sendrate, last_switch, target_sendrate,
                 sendrate>>

\* Mutant: candidacy survives the switch (of a sender that does not shift).
SwitchKeepingCandidacy(new) ==
  /\ last_path_change' = now
  /\ last_switch' = now
  /\ previous_path' = active_path
  /\ active_path' = new
  /\ used_paths' = used_paths \cup {new}
  /\ UpdateCandidacy
  /\ UNCHANGED <<path_transition_end, in_path_transition, previous_sendrate,
                 target_sendrate, sendrate>>

\* Mutant: the old rate is saved after the target rate has been replaced.
SwitchSavingNewRate(new) ==
  /\ last_path_change' = now
  /\ last_switch' = now
  /\ previous_path' = active_path
  /\ active_path' = new
  /\ used_paths' = used_paths \cup {new}
  /\ is_candidate' = [p \in Paths |-> FALSE]
  /\ is_candidate_since' = [p \in Paths |-> CandidateSince(p)]
  /\ ineligible_at' = [p \in Paths |-> now]
  /\ path_transition_end' = now + transition_time
  /\ in_path_transition' = TRUE
  /\ target_sendrate' = (bottleneck_share[new] * FactorNum) \div FactorDen
  /\ previous_sendrate' = target_sendrate'
  /\ sendrate' = [sendrate EXCEPT ![new] = 0, ![active_path] = target_sendrate]

\* SwitchToPath to another path: candidacy starts afresh; with path_shifting
\* a transition begins, without it the controller is told of the route.
SwitchToPath(new) ==
  /\ last_path_change' = now
  /\ last_switch' = now
  /\ previous_path' = active_path
  /\ active_path' = new
  /\ used_paths' = used_paths \cup {new}
  /\ is_candidate' = [p \in Paths |-> FALSE]
  /\ is_candidate_since' = [p \in Paths |-> CandidateSince(p)]
  /\ ineligible_at' = [p \in Paths |-> now]
  /\ IF path_shifting
       THEN /\ path_transition_end' = now + transition_time
            /\ in_path_transition' = TRUE
            /\ previous_sendrate' = target_sendrate
            /\ target_sendrate' = (bottleneck_share[new] * FactorNum) \div FactorDen
            /\ sendrate' = [sendrate EXCEPT ![new] = 0, ![active_path] = target_sendrate]
       ELSE UNCHANGED <<path_transition_end, in_path_transition, previous_sendrate,
                        target_sendrate, sendrate>>

UpdatePathCandidates ==
  \/ /\ KeepsPath
     /\ UpdateCandidacy
     /\ UNCHANGED <<route, target_sendrate, sendrate>>
  \/ /\ ~KeepsPath
     /\ active_path \in FinalCandidates
     /\ StayOnPath
  \/ /\ ~KeepsPath
     /\ \E new \in FinalCandidates \ {active_path} : SwitchToPath(new)

\* Mutant: the path is reconsidered during a transition too.
UpdateDuringTransition ==
  /\ ~stopped
  /\ now = next_update
  /\ next_update' = now + update_interval
  /\ \E S \in ProbeSets(active_path, last_probe_sent, now) : SendProbes(S)
  /\ IF cfgPathSwitching
       THEN UpdatePathCandidates
       ELSE UNCHANGED <<candidacy, route, target_sendrate, sendrate>>
  /\ UNCHANGED <<now, next_send, stopped, first_report_received, pathState>>

\* Update: probe, then reconsider the path unless a transition is under way.
Update ==
  /\ ~stopped
  /\ now = next_update
  /\ next_update' = now + update_interval
  /\ \E S \in ProbeSets(active_path, last_probe_sent, now) : SendProbes(S)
  /\ IF cfgPathSwitching /\ ~in_path_transition
       THEN UpdatePathCandidates
       ELSE UNCHANGED <<candidacy, route, target_sendrate, sendrate>>
  /\ UNCHANGED <<now, next_send, stopped, first_report_received, pathState>>

-----------------------------------------------------------------------------
(* Sending *)

RampUpRate ==
  (target_sendrate * Ramp[now - last_path_change]) \div RampScale

\* Mutant: the rest of the rate is not clipped at 0.
SendOnBothPathsUnclipped ==
  /\ sendrate' = [sendrate EXCEPT ![active_path] = RampUpRate,
                                  ![previous_path] = previous_sendrate - RampUpRate]
  /\ UNCHANGED <<last_path_change, in_path_transition>>

\* ScheduleSend during a transition: the new path gets its share of the
\* ramp, the old path the rest of the old rate.
SendOnBothPaths ==
  LET rest == previous_sendrate - RampUpRate IN
  /\ sendrate' = [sendrate EXCEPT ![active_path] = RampUpRate,
                                  ![previous_path] = IF rest > 0 THEN rest ELSE 0]
  /\ UNCHANGED <<last_path_change, in_path_transition>>

EndPathTransition ==
  /\ last_path_change' = now
  /\ in_path_transition' = FALSE
  /\ UNCHANGED sendrate

ScheduleSend ==
  /\ ~stopped
  /\ now = next_send
  /\ next_send' = now + frame_interval
  /\ \/ /\ in_path_transition /\ now >= path_transition_end
        /\ EndPathTransition
     \/ /\ in_path_transition /\ now < path_transition_end
        /\ SendOnBothPaths
     \/ /\ ~in_path_transition
        /\ UNCHANGED <<last_path_change, in_path_transition, sendrate>>
  /\ UNCHANGED <<now, next_update, stopped, first_report_received, pathState, probing,
                 candidacy, active_path, previous_path, used_paths, path_transition_end,
                 previous_sendrate, last_switch, target_sendrate>>

\* StopAppTraffic: Update and ScheduleSend return at once from now on.
StopAppTraffic ==
  /\ ~stopped
  /\ now \in StopTimes
  /\ stopped' = TRUE
  /\ UNCHANGED <<clocks, first_report_received, pathState, probing, candidacy, route,
                 target_sendrate, sendrate>>

\* The simulator's clock: it stops at the time of every pending event, and
\* every probe is answered within MaxProbeRtt.
Tick ==
  /\ now < MaxTime
  /\ stopped \/ (now < next_update /\ now < next_send)
  /\ \A probe \in in_flight_probes : now - probe.sent < MaxProbeRtt
  /\ now' = now + 1
  /\ UNCHANGED <<next_update, next_send, stopped, first_report_received, pathState,
                 probing, candidacy, route, target_sendrate, sendrate>>

-----------------------------------------------------------------------------
\* The sender right after StartAppTraffic has sent the first probes.
Init ==
  /\ now = StartTime
  /\ next_update = StartTime + update_interval
  /\ next_send = StartTime
  /\ stopped = FALSE /\ first_report_received = FALSE
  /\ active_path \in Paths
  /\ previous_path = NoPath /\ used_paths = {active_path}
  /\ last_report = [p \in Paths |-> 0]
  /\ latency = [p \in Paths |-> 0]
  /\ bottleneck_share = [p \in Paths |-> 0]
  /\ \E S \in ProbeSets(active_path, [p \in Paths |-> 0], StartTime) :
       /\ last_probe_sent = [p \in Paths |-> IF p \in S THEN StartTime ELSE 0]
       /\ in_flight_probes = {[path |-> p, sent |-> StartTime] : p \in S}
  /\ last_probe_echo = [p \in Paths |-> 0]
  /\ last_probe_echo_time = [p \in Paths |-> 0]
  /\ last_congestion_alert = [p \in Paths |-> 0]
  /\ is_candidate = [p \in Paths |-> FALSE]
  /\ is_candidate_since = [p \in Paths |-> 0]
  /\ last_path_change = 0 /\ path_transition_end = 0
  /\ in_path_transition = FALSE
  /\ target_sendrate = InitialRate /\ previous_sendrate = 0
  /\ sendrate = [p \in Paths |-> 0]
  /\ last_switch = 0
  /\ ineligible_at = [p \in Paths |-> 0]

Next ==
  \/ Tick
  \/ Update
  \/ ScheduleSend
  \/ \E probe \in in_flight_probes, share \in Shares, flows \in Flows :
       ReceiveProbeResponse(probe, share, flows)
  \/ \E probe \in in_flight_probes : ReceiveEmptyProbeResponse(probe)
  \/ \E p \in Paths : ReceiveCongestionAlert(p)
  \/ \E p \in Paths, d \in ReportDelays, l \in ReportLatencies :
       ReceiveAppResponse(p, d, l)
  \/ ScheduleControllerProcessInterval
  \/ StopAppTraffic

Spec == Init /\ [][Next]_vars

-----------------------------------------------------------------------------
(* Properties *)

\* A transition is well formed and over in time (ScheduleSend and its
\* assertion that the progress lies between 0 and 1): it leads from one path
\* to another, no path is a candidate while it lasts, and the first frame at
\* or after its end closes it.
TransitionInv ==
  in_path_transition =>
    /\ previous_path \in Paths \ {active_path}
    /\ \A p \in Paths : ~is_candidate[p]
    /\ last_path_change <= now
    /\ path_transition_end = last_path_change + transition_time
    /\ ~stopped => now < path_transition_end + frame_interval

\* While the rate is shifted from one path to another the two paths together
\* send at least what the sender sent before, the new path never more than its
\* target, and the old one, which gets what is left, never less than nothing
\* (ScheduleSend).
ShiftKeepsRate ==
  in_path_transition =>
    /\ sendrate[active_path] + sendrate[previous_path] >= previous_sendrate
    /\ sendrate[active_path] <= target_sendrate
    /\ sendrate[previous_path] >= 0

\* During a transition nothing interferes: neither a report nor the
\* controller moves the target rate, and no update chooses another path.
TransitionUndisturbed ==
  [][in_path_transition /\ in_path_transition' =>
       UNCHANGED <<target_sendrate, active_path, previous_path, previous_sendrate,
                   last_path_change>>]_vars

\* The sender moves to another path only if every update of the last
\* path_switch_min_candidacy, since the last switch, found that path to have
\* a fresh probe result, no recent alert and enough share.
SwitchAfterContinuousCandidacy ==
  [][active_path' # active_path =>
       ineligible_at[active_path'] < now - path_switch_min_candidacy]_vars

\* Two switches are path_switch_min_candidacy apart even when the active path
\* is unusable and the minimum interval between switches is skipped.
SwitchesApart ==
  [][active_path' # active_path =>
       now - last_switch >= path_switch_min_candidacy]_vars

\* When a path was last probed, or could have been for the first time.
ProbedSince(p) == IF last_probe_sent[p] > StartTime THEN last_probe_sent[p] ELSE StartTime

\* No path is forgotten by FindProbeCandidates: in the worst case the others
\* are probed one by one before it.
NoPathUnprobed ==
  ~stopped =>
    \A p \in Paths :
      now - ProbedSince(p) < probe_recency + (Cardinality(Paths) - 1) * update_interval

\* polaris.cc asserts in every frame of a transition that the target rate
\* exceeds the rate before it.
TargetExceedsPreviousRate ==
  in_path_transition => target_sendrate > previous_sendrate
=============================================================================
