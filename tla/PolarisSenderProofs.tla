------------------------ MODULE PolarisSenderProofs ------------------------
(***************************************************************************)
(* Theorems about PolarisSender, for every value of its constants.         *)
(***************************************************************************)
EXTENDS PolarisSender, FiniteSetTheorems, WellFoundedInduction, TLAPS

-----------------------------------------------------------------------------
(* Arithmetic *)

LEMMA DivIsNat ==
  ASSUME NEW a \in Nat, NEW b \in Nat \ {0}
  PROVE  a \div b \in Nat
OBVIOUS

LEMMA ProductIsNat ==
  ASSUME NEW a \in Nat, NEW b \in Nat
  PROVE  a * b \in Nat
OBVIOUS

\* A fraction r/s of t, rounded down, is at most t.
LEMMA FractionIsAtMost ==
  ASSUME NEW t \in Nat, NEW r \in Nat, NEW s \in Nat \ {0}, r <= s
  PROVE  (t * r) \div s <= t
<1> DEFINE q == (t * r) \div s
<1>1. q \in Nat /\ s * q <= t * r
  BY ProductIsNat, DivIsNat
<1>2. t * r <= t * s
  OBVIOUS
<1>3. ~(q >= t + 1)
  <2> SUFFICES ASSUME q >= t + 1 PROVE FALSE
    OBVIOUS
  <2>1. s * q >= s * (t + 1)
    BY <1>1
  <2>2. s * (t + 1) = t * s + s
    OBVIOUS
  <2> QED
    BY <1>1, <1>2, <2>1, <2>2, ProductIsNat
<1> QED
  BY <1>1, <1>3
-----------------------------------------------------------------------------
(* Types *)

USE SenderAssumption DEF Times

LEMMA ProbeSetsOfPaths ==
  ASSUME NEW a \in Paths, NEW sent, NEW t, NEW S \in ProbeSets(a, sent, t)
  PROVE  S \subseteq Paths
BY DEF ProbeSets, ProbeCandidates

LEMMA CorrectedShareIsNat ==
  ASSUME TypeOK, NEW p \in Paths, NEW share \in Nat, NEW flows \in Nat \ {0}
  PROVE  CorrectedShare(p, share, flows) \in Nat
<1>1. CASE flows > 1
  <2>1. flows - 1 \in Nat \ {0}
    BY <1>1
  <2>2. flows \div (flows - 1) \in Nat
    BY <2>1, DivIsNat
  <2> QED
    BY <2>2, ProductIsNat DEF CorrectedShare
<1>2. CASE ~(flows > 1)
  BY <1>2 DEF CorrectedShare
<1> QED
  BY <1>1, <1>2

LEMMA RampUpRateBounds ==
  ASSUME TypeOK, now - last_path_change \in 0..transition_time
  PROVE  RampUpRate \in Nat /\ RampUpRate <= target_sendrate
<1> DEFINE r == Ramp[now - last_path_change]
<1>1. r \in Nat /\ r <= RampScale
  OBVIOUS
<1>2. target_sendrate \in Nat
  BY DEF TypeOK
<1>3. target_sendrate * r \in Nat
  BY <1>1, <1>2, ProductIsNat
<1> HIDE DEF r
<1>4. (target_sendrate * r) \div RampScale \in Nat
  BY <1>3, DivIsNat
<1>5. (target_sendrate * r) \div RampScale <= target_sendrate
  BY <1>1, <1>2, FractionIsAtMost
<1> QED
  BY <1>4, <1>5 DEF RampUpRate, r

\* Every variable keeps its type: in particular no rate becomes negative.
\* TransitionInv is needed for the argument of the ramp.
LEMMA UpdateType ==
  ASSUME TypeOK, Update PROVE TypeOK'
<1>1. PICK S \in ProbeSets(active_path, last_probe_sent, now) : SendProbes(S)
  BY DEF Update
<1>2. S \subseteq Paths
  BY <1>1, ProbeSetsOfPaths DEF TypeOK
<1>3. /\ last_probe_sent' \in [Paths -> Nat]
      /\ in_flight_probes' \subseteq Probe
  <2>1. now \in Nat /\ last_probe_sent \in [Paths -> Nat] /\ in_flight_probes \subseteq Probe
    BY DEF TypeOK
  <2>2. last_probe_sent' \in [Paths -> Nat]
    BY <1>1, <2>1 DEF SendProbes
  <2>3. {[path |-> p, sent |-> now] : p \in S} \subseteq Probe
    BY <1>2, <2>1 DEF Probe
  <2> QED
    BY <1>1, <2>1, <2>2, <2>3 DEF SendProbes
<1>a. stopped' \in BOOLEAN /\ first_report_received' \in BOOLEAN
  BY Zenon DEF Update, TypeOK
<1>4. /\ now' \in Nat /\ next_update' \in Nat /\ next_send' \in Nat
      /\ last_report' \in [Paths -> Int] /\ latency' \in [Paths -> Nat]
      /\ bottleneck_share' \in [Paths -> Nat]
      /\ last_probe_echo' \in [Paths -> Nat]
      /\ last_probe_echo_time' \in [Paths -> Nat]
      /\ last_congestion_alert' \in [Paths -> Nat]
  <2>1. /\ now' = now /\ next_update' = now + update_interval /\ next_send' = next_send
        /\ UNCHANGED pathState
    BY DEF Update
  <2>2. now \in Nat /\ next_send \in Nat
    BY DEF TypeOK
  <2>3. now' \in Nat /\ next_update' \in Nat /\ next_send' \in Nat
    BY <2>1, <2>2
  <2> QED
    BY <2>1, <2>3 DEF pathState, TypeOK
<1>5. /\ [p \in Paths |-> CandidateSince(p)] \in [Paths -> Nat]
      /\ [p \in Paths |-> Candidate(p)] \in [Paths -> BOOLEAN]
  BY DEF CandidateSince, Candidate, Eligible, TypeOK
<1>6. UpdateCandidacy =>
        /\ is_candidate' \in [Paths -> BOOLEAN]
        /\ is_candidate_since' \in [Paths -> Nat]
        /\ ineligible_at' \in [Paths -> Nat]
  <2>1. [p \in Paths |-> IF Eligible(p) THEN ineligible_at[p] ELSE now] \in [Paths -> Nat]
    BY DEF TypeOK
  <2> QED
    BY <1>5, <2>1 DEF UpdateCandidacy
<1>7. CASE UNCHANGED <<candidacy, route, target_sendrate, sendrate>>
  BY <1>3, <1>a, <1>4, <1>7 DEF TypeOK, candidacy, route
<1>8. CASE UpdateCandidacy /\ UNCHANGED <<route, target_sendrate, sendrate>>
  BY <1>3, <1>a, <1>4, <1>6, <1>8 DEF TypeOK, route
<1>9. CASE StayOnPath
  BY <1>3, <1>a, <1>4, <1>6, <1>9 DEF TypeOK, StayOnPath
<1>10. CASE \E new \in FinalCandidates \ {active_path} : SwitchToPath(new)
  <2>1. PICK new \in Paths : SwitchToPath(new)
    BY <1>10 DEF FinalCandidates
  <2>2. /\ active_path' \in Paths /\ previous_path' \in Paths
        /\ used_paths' \subseteq Paths
        /\ is_candidate' \in [Paths -> BOOLEAN]
        /\ is_candidate_since' \in [Paths -> Nat]
        /\ ineligible_at' \in [Paths -> Nat]
        /\ last_path_change' \in Nat /\ last_switch' \in Nat
    BY <1>5, <2>1 DEF SwitchToPath, TypeOK
  <2>3. (bottleneck_share[new] * FactorNum) \div FactorDen \in Nat
    <3>1. bottleneck_share[new] * FactorNum \in Nat
      BY ProductIsNat DEF TypeOK
    <3> QED
      BY <3>1, DivIsNat
  <2>4. /\ path_transition_end' \in Nat
        /\ previous_sendrate' \in Nat /\ target_sendrate' \in Nat
        /\ sendrate' \in [Paths -> Nat]
    <3>1. CASE path_shifting
      <4>1. now + transition_time \in Nat /\ target_sendrate \in Nat
            /\ sendrate \in [Paths -> Nat]
        BY DEF TypeOK
      <4>2. [sendrate EXCEPT ![new] = 0, ![active_path] = target_sendrate] \in [Paths -> Nat]
        BY <4>1
      <4> QED
        BY <2>1, <2>3, <3>1, <4>1, <4>2 DEF SwitchToPath
    <3>2. CASE ~path_shifting
      BY <2>1, <3>2 DEF SwitchToPath, TypeOK
    <3> QED
      BY <3>1, <3>2
  <2>5. in_path_transition' \in BOOLEAN
    BY <2>1 DEF SwitchToPath, TypeOK
  <2> QED
    BY <1>3, <1>a, <1>4, <2>2, <2>4, <2>5 DEF TypeOK
<1> QED
  BY <1>7, <1>8, <1>9, <1>10 DEF Update, UpdatePathCandidates

LEMMA ReceiveProbeResponseType ==
  ASSUME TypeOK, NEW probe \in in_flight_probes, NEW share \in Shares, NEW flows \in Flows,
         ReceiveProbeResponse(probe, share, flows)
  PROVE  TypeOK'
<1>1. probe.path \in Paths /\ probe.sent \in Nat
  BY DEF TypeOK, Probe
<1>2. CorrectedShare(probe.path, share, flows) \in Nat
  BY <1>1, CorrectedShareIsNat
<1>3. /\ in_flight_probes' \subseteq Probe
      /\ last_probe_echo' \in [Paths -> Nat]
      /\ last_probe_echo_time' \in [Paths -> Nat]
      /\ bottleneck_share' \in [Paths -> Nat]
  BY <1>1, <1>2 DEF ReceiveProbeResponse, TypeOK
<1>4. latency' \in [Paths -> Nat]
  BY <1>1 DEF ReceiveProbeResponse, TypeOK
<1> QED
  BY <1>3, <1>4 DEF ReceiveProbeResponse, TypeOK, clocks, candidacy, route

LEMMA OnNetworkControlUpdateType ==
  ASSUME TypeOK, OnNetworkControlUpdate
  PROVE  target_sendrate' \in Nat
<1>1. target_sendrate \in Nat
  BY DEF TypeOK
<1>2. ASSUME NEW estimate \in Rates
      PROVE  (target_sendrate + estimate) \div 2 \in Nat
  <2>1. target_sendrate + estimate \in Nat
    BY <1>1
  <2> QED
    BY <2>1, DivIsNat
<1> QED
  BY <1>1, <1>2 DEF OnNetworkControlUpdate

LEMMA ReceiveAppResponseType ==
  ASSUME TypeOK, NEW p \in Paths, NEW d \in ReportDelays, NEW l \in ReportLatencies,
         ReceiveAppResponse(p, d, l)
  PROVE  TypeOK'
<1>1. target_sendrate' \in Nat
  BY OnNetworkControlUpdateType DEF ReceiveAppResponse
<1>2. last_report' \in [Paths -> Int]
  <2>1. now - d \in Int
    BY DEF TypeOK
  <2> QED
    BY <2>1 DEF ReceiveAppResponse, TypeOK
<1>3. latency' \in [Paths -> Nat]
  BY DEF ReceiveAppResponse, TypeOK
<1> QED
  BY <1>1, <1>2, <1>3 DEF ReceiveAppResponse, TypeOK, clocks, probing, candidacy, route

LEMMA ScheduleSendType ==
  ASSUME TypeOK, TransitionInv, ScheduleSend
  PROVE  TypeOK'
<1>1. next_send' \in Nat /\ last_path_change' \in Nat
  <2>1. now \in Nat /\ last_path_change \in Nat
    BY DEF TypeOK
  <2>2. next_send' = now + frame_interval /\ last_path_change' \in {now, last_path_change}
    BY DEF ScheduleSend, EndPathTransition, SendOnBothPaths
  <2> QED
    BY <2>1, <2>2
<1>2. in_path_transition' \in BOOLEAN
  BY DEF ScheduleSend, EndPathTransition, SendOnBothPaths, TypeOK
<1>3. sendrate' \in [Paths -> Nat]
  <2>1. CASE SendOnBothPaths /\ in_path_transition /\ now < path_transition_end
    <3>1. now - last_path_change \in 0..transition_time
      BY <2>1 DEF TransitionInv, TypeOK
    <3>2. RampUpRate \in Nat
      BY <3>1, RampUpRateBounds
    <3>3. previous_sendrate \in Nat /\ sendrate \in [Paths -> Nat]
      BY DEF TypeOK
    <3> DEFINE rest == previous_sendrate - RampUpRate
    <3>4. (IF rest > 0 THEN rest ELSE 0) \in Nat
      BY <3>2, <3>3
    <3>5. sendrate' = [sendrate EXCEPT ![active_path] = RampUpRate,
                                      ![previous_path] = IF rest > 0 THEN rest ELSE 0]
      BY <2>1 DEF SendOnBothPaths
    <3> HIDE DEF rest
    <3> QED
      BY <3>2, <3>3, <3>4, <3>5
  <2>2. CASE UNCHANGED sendrate
    BY <2>2 DEF TypeOK
  <2> QED
    BY <2>1, <2>2 DEF ScheduleSend, EndPathTransition
<1> QED
  BY <1>1, <1>2, <1>3 DEF ScheduleSend, TypeOK, pathState, probing, candidacy

LEMMA OtherTypes ==
  ASSUME TypeOK,
         \/ Tick \/ ScheduleControllerProcessInterval \/ StopAppTraffic
         \/ \E probe \in in_flight_probes : ReceiveEmptyProbeResponse(probe)
         \/ \E p \in Paths : ReceiveCongestionAlert(p)
         \/ UNCHANGED vars
  PROVE  TypeOK'
<1> USE DEF TypeOK, clocks, pathState, probing, candidacy, route
<1>1. CASE Tick
  <2>1. now' \in Nat
    BY <1>1 DEF Tick
  <2>2. UNCHANGED <<next_update, next_send, stopped, first_report_received, pathState,
                    probing, candidacy, route, target_sendrate, sendrate>>
    BY <1>1 DEF Tick
  <2> QED
    BY <2>1, <2>2
<1>2. CASE ScheduleControllerProcessInterval
  <2>1. target_sendrate' \in Nat
    BY <1>2, OnNetworkControlUpdateType DEF ScheduleControllerProcessInterval
  <2> QED
    BY <1>2, <2>1 DEF ScheduleControllerProcessInterval
<1>3. CASE StopAppTraffic
  BY <1>3 DEF StopAppTraffic
<1>4. CASE \E probe \in in_flight_probes : ReceiveEmptyProbeResponse(probe)
  BY <1>4 DEF ReceiveEmptyProbeResponse
<1>5. CASE \E p \in Paths : ReceiveCongestionAlert(p)
  <2>1. PICK p \in Paths : ReceiveCongestionAlert(p)
    BY <1>5
  <2>2. last_congestion_alert' \in [Paths -> Nat]
    BY <2>1 DEF ReceiveCongestionAlert
  <2> QED
    BY <2>1, <2>2 DEF ReceiveCongestionAlert
<1>6. CASE UNCHANGED vars
  BY <1>6 DEF vars
<1> QED
  BY <1>1, <1>2, <1>3, <1>4, <1>5, <1>6

LEMMA InitType ==
  ASSUME Init PROVE TypeOK
<1>1. PICK S \in ProbeSets(active_path, [p \in Paths |-> 0], StartTime) :
        /\ last_probe_sent = [p \in Paths |-> IF p \in S THEN StartTime ELSE 0]
        /\ in_flight_probes = {[path |-> p, sent |-> StartTime] : p \in S}
  BY DEF Init
<1>2. S \subseteq Paths
  BY <1>1, ProbeSetsOfPaths DEF Init
<1>3. last_probe_sent \in [Paths -> Nat] /\ in_flight_probes \subseteq Probe
  BY <1>1, <1>2 DEF Probe
<1>4. next_update \in Nat
  BY DEF Init
<1>5. [p \in Paths |-> 0] \in [Paths -> Int] /\ [p \in Paths |-> 0] \in [Paths -> Nat]
      /\ [p \in Paths |-> FALSE] \in [Paths -> BOOLEAN]
  OBVIOUS
<1>6. 0 \in Nat
  OBVIOUS
<1> QED
  BY <1>3, <1>4, <1>5, <1>6, Zenon DEF Init, TypeOK

-----------------------------------------------------------------------------
(* Transitions *)

\* The clock never passes a pending event, and the next frame is due before
\* a transition has been over for a whole frame interval.
TimingInv ==
  /\ ~stopped => /\ now <= next_update /\ now <= next_send
                 /\ next_send <= now + frame_interval
  /\ in_path_transition /\ ~stopped => next_send < path_transition_end + frame_interval

IInv == TypeOK /\ TransitionInv /\ TimingInv /\ ShiftKeepsRate

LEMMA InitIInv ==
  ASSUME Init PROVE IInv
<1>1. now = StartTime /\ next_update = StartTime + update_interval /\ next_send = StartTime
      /\ ~in_path_transition
  BY DEF Init
<1>2. TimingInv
  BY <1>1 DEF TimingInv
<1> QED
  BY <1>1, <1>2, InitType DEF IInv, TransitionInv, ShiftKeepsRate

LEMMA TypeStep ==
  ASSUME IInv, [Next]_vars PROVE TypeOK'
BY UpdateType, ScheduleSendType, ReceiveProbeResponseType, ReceiveAppResponseType,
   OtherTypes DEF Next, IInv

\* A switch opens a transition that is well formed: Update only switches
\* outside a transition.
LEMMA UpdateIInv ==
  ASSUME IInv, Update, TypeOK'
  PROVE  (TransitionInv /\ TimingInv /\ ShiftKeepsRate)'
<1>1. /\ ~stopped /\ now \in Nat /\ next_send \in Nat /\ next_update \in Nat
      /\ last_path_change \in Nat /\ path_transition_end \in Nat
      /\ target_sendrate \in Nat /\ previous_sendrate \in Nat
      /\ sendrate \in [Paths -> Nat] /\ active_path \in Paths
      /\ now <= next_send /\ next_send <= now + frame_interval
  BY DEF IInv, TypeOK, TimingInv, Update
<1>2. /\ now' = now /\ next_send' = next_send /\ next_update' = now + update_interval
      /\ stopped' = stopped
  BY DEF Update
<1>3. CASE UNCHANGED <<candidacy, route, target_sendrate, sendrate>>
  <2>1. /\ UNCHANGED <<is_candidate, active_path, previous_path, last_path_change>>
        /\ UNCHANGED <<in_path_transition, path_transition_end, previous_sendrate>>
        /\ UNCHANGED <<target_sendrate, sendrate>>
    BY <1>3 DEF candidacy, route
  <2> QED
    BY <1>1, <1>2, <2>1 DEF IInv, TransitionInv, TimingInv, ShiftKeepsRate
<1>4. CASE ~in_path_transition /\ UpdatePathCandidates
  <2>1. CASE ~in_path_transition'
    BY <1>1, <1>2, <2>1 DEF TransitionInv, TimingInv, ShiftKeepsRate
  <2>2. CASE in_path_transition'
    <3>1. PICK new \in Paths \ {active_path} : SwitchToPath(new)
      BY <1>4, <2>2 DEF UpdatePathCandidates, StayOnPath, route, FinalCandidates
    <3>2. path_shifting
      BY <1>4, <2>2, <3>1, Zenon DEF SwitchToPath
    <3>3. /\ active_path' = new /\ previous_path' = active_path
          /\ last_path_change' = now /\ path_transition_end' = now + transition_time
          /\ previous_sendrate' = target_sendrate
          /\ sendrate' = [sendrate EXCEPT ![new] = 0, ![active_path] = target_sendrate]
      BY <3>1, <3>2 DEF SwitchToPath
    <3>4. \A p \in Paths : ~is_candidate'[p]
      BY <3>1 DEF SwitchToPath
    <3>5. TransitionInv'
      BY <1>1, <1>2, <3>3, <3>4 DEF TransitionInv
    <3>6. TimingInv'
      BY <1>1, <1>2, <3>3 DEF TimingInv
    <3>7. ShiftKeepsRate'
      <4>1. target_sendrate' \in Nat
        BY DEF TypeOK
      <4>2. sendrate'[new] = 0 /\ sendrate'[active_path] = target_sendrate
        BY <1>1, <3>3
      <4> QED
        BY <1>1, <3>3, <4>1, <4>2 DEF ShiftKeepsRate
    <3> QED
      BY <3>5, <3>6, <3>7
  <2> QED
    BY <2>1, <2>2
<1> QED
  BY <1>3, <1>4 DEF Update

LEMMA ScheduleSendIInv ==
  ASSUME IInv, ScheduleSend
  PROVE  (TransitionInv /\ TimingInv /\ ShiftKeepsRate)'
<1>1. /\ ~stopped /\ now \in Nat /\ next_send \in Nat /\ next_update \in Nat
      /\ last_path_change \in Nat /\ path_transition_end \in Nat
      /\ target_sendrate \in Nat /\ previous_sendrate \in Nat
      /\ sendrate \in [Paths -> Nat] /\ active_path \in Paths
      /\ now <= next_update /\ now = next_send
  BY DEF IInv, TypeOK, TimingInv, ScheduleSend
<1>2. /\ now' = now /\ next_send' = now + frame_interval /\ next_update' = next_update
      /\ stopped' = stopped /\ active_path' = active_path /\ previous_path' = previous_path
      /\ path_transition_end' = path_transition_end
      /\ previous_sendrate' = previous_sendrate /\ target_sendrate' = target_sendrate
  BY DEF ScheduleSend
<1>3. is_candidate' = is_candidate
  BY DEF ScheduleSend, candidacy
<1>4. CASE ~in_path_transition'
  BY <1>1, <1>2, <1>4 DEF TransitionInv, TimingInv, ShiftKeepsRate
<1>5. CASE in_path_transition'
  <2>1. in_path_transition /\ now < path_transition_end /\ SendOnBothPaths
    BY <1>5 DEF ScheduleSend, EndPathTransition
  <2>2. last_path_change' = last_path_change
    BY <2>1 DEF SendOnBothPaths
  <2>3. /\ previous_path \in Paths \ {active_path}
        /\ \A p \in Paths : ~is_candidate[p]
        /\ last_path_change <= now
        /\ path_transition_end = last_path_change + transition_time
    BY <2>1 DEF IInv, TransitionInv
  <2>4. TransitionInv'
    BY <1>1, <1>2, <1>3, <2>1, <2>2, <2>3 DEF TransitionInv
  <2>5. TimingInv'
    BY <1>1, <1>2, <2>1 DEF TimingInv
  <2>6. ShiftKeepsRate'
    <3>1. now - last_path_change \in 0..transition_time
      BY <1>1, <2>1, <2>3
    <3>2. RampUpRate \in Nat /\ RampUpRate <= target_sendrate
      BY <3>1, RampUpRateBounds DEF IInv
    <3> DEFINE rest == previous_sendrate - RampUpRate
               clipped == IF rest > 0 THEN rest ELSE 0
    <3>3. clipped \in Nat /\ RampUpRate + clipped >= previous_sendrate
      BY <1>1, <3>2
    <3>4. sendrate' = [sendrate EXCEPT ![active_path] = RampUpRate,
                                       ![previous_path] = clipped]
      BY <2>1 DEF SendOnBothPaths
    <3> HIDE DEF clipped
    <3>5. sendrate'[active_path] = RampUpRate /\ sendrate'[previous_path] = clipped
      BY <1>1, <2>3, <3>4
    <3> QED
      BY <1>1, <1>2, <3>2, <3>3, <3>5 DEF ShiftKeepsRate
  <2> QED
    BY <2>4, <2>5, <2>6
<1> QED
  BY <1>4, <1>5

LEMMA TickIInv ==
  ASSUME IInv, Tick
  PROVE  (TransitionInv /\ TimingInv /\ ShiftKeepsRate)'
<1>1. /\ now \in Nat /\ next_send \in Nat /\ next_update \in Nat
      /\ last_path_change \in Nat /\ path_transition_end \in Nat
  BY DEF IInv, TypeOK
<1>2. now' = now + 1 /\ (~stopped => now < next_update /\ now < next_send)
  BY DEF Tick
<1>3. /\ UNCHANGED <<is_candidate, active_path, previous_path, last_path_change, stopped>>
      /\ UNCHANGED <<in_path_transition, path_transition_end, previous_sendrate>>
      /\ UNCHANGED <<target_sendrate, sendrate, next_send, next_update>>
  BY DEF Tick, candidacy, route
<1>4. TransitionInv'
  BY <1>1, <1>2, <1>3 DEF IInv, TransitionInv, TimingInv
<1>5. TimingInv'
  BY <1>1, <1>2, <1>3 DEF IInv, TransitionInv, TimingInv
<1>6. ShiftKeepsRate'
  BY <1>3 DEF IInv, ShiftKeepsRate
<1> QED
  BY <1>4, <1>5, <1>6

\* The other actions touch neither the transition nor the clock; those that
\* move the target rate do so outside a transition only.
LEMMA OtherIInv ==
  ASSUME IInv,
         /\ UNCHANGED <<clocks, route, candidacy, sendrate>>
         /\ in_path_transition => target_sendrate' = target_sendrate
         /\ stopped' = stopped \/ stopped'
  PROVE  (TransitionInv /\ TimingInv /\ ShiftKeepsRate)'
<1>1. /\ UNCHANGED <<is_candidate, active_path, previous_path, last_path_change>>
      /\ UNCHANGED <<in_path_transition, path_transition_end, previous_sendrate>>
      /\ UNCHANGED <<sendrate, next_send, next_update, now>>
  BY DEF clocks, candidacy, route
<1>2. TransitionInv'
  BY <1>1 DEF IInv, TransitionInv
<1>3. TimingInv'
  BY <1>1 DEF IInv, TimingInv
<1>4. ShiftKeepsRate'
  BY <1>1 DEF IInv, ShiftKeepsRate
<1> QED
  BY <1>2, <1>3, <1>4

LEMMA NextIInv ==
  ASSUME IInv, [Next]_vars PROVE IInv'
<1>1. TypeOK'
  BY TypeStep
<1>2. CASE Update
  BY <1>1, <1>2, UpdateIInv DEF IInv
<1>3. CASE ScheduleSend
  BY <1>1, <1>3, ScheduleSendIInv DEF IInv
<1>4. CASE Tick
  BY <1>1, <1>4, TickIInv DEF IInv
<1>5. CASE ~Update /\ ~ScheduleSend /\ ~Tick
  <2>1. /\ UNCHANGED <<clocks, route, candidacy, sendrate>>
        /\ in_path_transition => target_sendrate' = target_sendrate
        /\ stopped' = stopped \/ stopped'
    BY <1>5, Zenon DEF Next, vars, ReceiveProbeResponse, ReceiveEmptyProbeResponse,
       ReceiveCongestionAlert, ReceiveAppResponse, ScheduleControllerProcessInterval,
       StopAppTraffic, OnNetworkControlUpdate
  <2> QED
    BY <1>1, <2>1, OtherIInv DEF IInv
<1> QED
  BY <1>2, <1>3, <1>4, <1>5

THEOREM Invariance == Spec => []IInv
<1>1. IInv /\ [Next]_vars => IInv'
  BY NextIInv
<1> QED
  BY <1>1, InitIInv, PTL DEF Spec

\* Every variable keeps its type; no rate becomes negative.
THEOREM TypeCorrect == Spec => []TypeOK
<1>1. IInv => TypeOK
  BY DEF IInv
<1> QED
  BY <1>1, Invariance, PTL

\* Every transition is well formed and over in time.
THEOREM TransitionsWellFormed == Spec => []TransitionInv
<1>1. IInv => TransitionInv
  BY DEF IInv
<1> QED
  BY <1>1, Invariance, PTL

\* Shifting keeps the rate, for every ramp within 0 and 1.
THEOREM ShiftingKeepsRate == Spec => []ShiftKeepsRate
<1>1. IInv => ShiftKeepsRate
  BY DEF IInv
<1> QED
  BY <1>1, Invariance, PTL

\* A transition is undisturbed: the guards alone see to it.
THEOREM TransitionsUndisturbed == Spec => TransitionUndisturbed
<1> DEFINE Undisturbed ==
      in_path_transition /\ in_path_transition' =>
        UNCHANGED <<target_sendrate, active_path, previous_path, previous_sendrate,
                    last_path_change>>
<1>1. ASSUME Next, in_path_transition, in_path_transition'
      PROVE  UNCHANGED <<target_sendrate, active_path, previous_path, previous_sendrate,
                         last_path_change>>
  BY <1>1, Zenon DEF Next, Tick, Update, ScheduleSend, EndPathTransition, SendOnBothPaths,
     ReceiveProbeResponse, ReceiveEmptyProbeResponse, ReceiveCongestionAlert,
     ReceiveAppResponse, ScheduleControllerProcessInterval, StopAppTraffic,
     OnNetworkControlUpdate, route
<1>2. [Next]_vars => [Undisturbed]_vars
  BY <1>1
<1> QED
  BY <1>2, PTL DEF Spec, TransitionUndisturbed

-----------------------------------------------------------------------------
(* Candidacy *)

\* Between updates every path's last verdict lies in the past, a candidate
\* other than the active path has been one since after its last bad verdict,
\* and a switch counts as a bad verdict for every path.
CandidacyInv ==
  \A p \in Paths :
    /\ ineligible_at[p] < next_update
    /\ p # active_path /\ is_candidate[p] => ineligible_at[p] < is_candidate_since[p]
    /\ last_switch <= ineligible_at[p]

LEMMA InitCandidacy ==
  ASSUME Init PROVE CandidacyInv
<1>1. next_update = StartTime + update_interval /\ last_switch = 0
      /\ ineligible_at = [p \in Paths |-> 0] /\ is_candidate = [p \in Paths |-> FALSE]
  BY DEF Init
<1> QED
  BY <1>1 DEF CandidacyInv

\* What the loop over the paths does to the verdicts.
LEMMA CandidacyAfterLoop ==
  ASSUME TypeOK, CandidacyInv, now = next_update, UpdateCandidacy,
         active_path' = active_path, last_switch' = last_switch,
         next_update' = now + update_interval
  PROVE  CandidacyInv'
<1> SUFFICES ASSUME NEW p \in Paths
             PROVE  /\ ineligible_at'[p] < next_update'
                    /\ p # active_path /\ is_candidate'[p]
                         => ineligible_at'[p] < is_candidate_since'[p]
                    /\ last_switch <= ineligible_at'[p]
  BY DEF CandidacyInv
<1>1. now \in Nat /\ ineligible_at[p] \in Nat /\ is_candidate_since[p] \in Nat
      /\ last_switch \in Nat
  BY DEF TypeOK
<1>2. /\ ineligible_at[p] < now /\ last_switch <= ineligible_at[p]
      /\ p # active_path /\ is_candidate[p] => ineligible_at[p] < is_candidate_since[p]
  BY DEF CandidacyInv
<1>3. /\ ineligible_at'[p] = IF Eligible(p) THEN ineligible_at[p] ELSE now
      /\ is_candidate'[p] = Candidate(p)
      /\ is_candidate_since'[p] = CandidateSince(p)
  BY DEF UpdateCandidacy
<1>4. ASSUME p # active_path, is_candidate'[p]
      PROVE  ineligible_at'[p] < is_candidate_since'[p]
  <2>1. p \in Examined
    BY <1>4 DEF Examined
  <2>2. Eligible(p)
    BY <1>3, <1>4, <2>1 DEF Candidate
  <2>3. ineligible_at'[p] = ineligible_at[p]
    BY <1>3, <2>2
  <2>4. CASE is_candidate[p]
    BY <1>2, <1>3, <1>4, <2>3, <2>4 DEF CandidateSince
  <2>5. CASE ~is_candidate[p]
    BY <1>2, <1>3, <2>1, <2>2, <2>3, <2>5 DEF CandidateSince
  <2> QED
    BY <2>4, <2>5
<1> QED
  BY <1>1, <1>2, <1>3, <1>4

LEMMA CandidacyAfterSwitch ==
  ASSUME TypeOK, NEW new \in Paths, SwitchToPath(new),
         next_update' = now + update_interval
  PROVE  CandidacyInv'
<1>1. now \in Nat
  BY DEF TypeOK
<1>2. /\ ineligible_at' = [p \in Paths |-> now] /\ last_switch' = now
      /\ is_candidate' = [p \in Paths |-> FALSE]
  BY DEF SwitchToPath
<1> QED
  BY <1>1, <1>2 DEF CandidacyInv

LEMMA NextCandidacy ==
  ASSUME TypeOK, CandidacyInv, [Next]_vars
  PROVE  CandidacyInv'
<1>1. CASE Update
  <2>1. now = next_update /\ next_update' = now + update_interval
        /\ now \in Nat
    BY <1>1 DEF Update, TypeOK
  <2>2. CASE UNCHANGED <<candidacy, route>>
    <3>1. UNCHANGED <<is_candidate, is_candidate_since, ineligible_at, active_path, last_switch>>
      BY <2>2 DEF candidacy, route
    <3>2. \A p \in Paths : ineligible_at[p] \in Nat
      BY DEF TypeOK
    <3> QED
      BY <2>1, <3>1, <3>2 DEF CandidacyInv
  <2>3. CASE UpdateCandidacy /\ UNCHANGED <<active_path, last_switch>>
    BY <2>1, <2>3, CandidacyAfterLoop
  <2>4. CASE \E new \in FinalCandidates \ {active_path} : SwitchToPath(new)
    BY <2>1, <2>4, CandidacyAfterSwitch DEF FinalCandidates
  <2> QED
    BY <1>1, <2>2, <2>3, <2>4 DEF Update, UpdatePathCandidates, StayOnPath, route
<1>2. CASE ~Update
  <2>1. UNCHANGED <<is_candidate, is_candidate_since, ineligible_at, active_path, last_switch,
                    next_update>>
    BY <1>2, Zenon DEF Next, vars, Tick, ScheduleSend, ReceiveProbeResponse,
       ReceiveEmptyProbeResponse, ReceiveCongestionAlert, ReceiveAppResponse,
       ScheduleControllerProcessInterval, StopAppTraffic, clocks, candidacy, route
  <2> QED
    BY <2>1 DEF CandidacyInv
<1> QED
  BY <1>1, <1>2

\* What every switch finds: the path chosen has passed every update since
\* path_switch_min_candidacy.
LEMMA SwitchFindsCandidate ==
  ASSUME TypeOK, CandidacyInv, Next, active_path' # active_path
  PROVE  /\ ineligible_at[active_path'] < now - path_switch_min_candidacy
         /\ now - last_switch >= path_switch_min_candidacy
<1>1. Update
  BY Zenon DEF Next, Tick, ScheduleSend, ReceiveProbeResponse, ReceiveEmptyProbeResponse,
     ReceiveCongestionAlert, ReceiveAppResponse, ScheduleControllerProcessInterval,
     StopAppTraffic, route
<1>2. PICK new \in FinalCandidates \ {active_path} : SwitchToPath(new)
  BY <1>1 DEF Update, UpdatePathCandidates, StayOnPath, route
<1>3. active_path' = new /\ new \in Paths /\ new # active_path
  BY <1>2 DEF SwitchToPath, FinalCandidates
<1>4. new \in Examined /\ Eligible(new)
      /\ CandidateSince(new) <= now - path_switch_min_candidacy
  BY <1>2, <1>3 DEF FinalCandidates, Examined
<1>5. /\ now \in Nat /\ ineligible_at[new] \in Nat /\ last_switch \in Nat
      /\ is_candidate_since[new] \in Nat
  BY <1>3 DEF TypeOK
<1>6. /\ ineligible_at[new] < now /\ last_switch <= ineligible_at[new]
      /\ is_candidate[new] => ineligible_at[new] < is_candidate_since[new]
  BY <1>1, <1>3 DEF CandidacyInv, Update
<1>7. ineligible_at[new] < CandidateSince(new) /\ CandidateSince(new) \in Nat
  BY <1>4, <1>5, <1>6 DEF CandidateSince
<1> QED
  BY <1>3, <1>4, <1>5, <1>6, <1>7

\* A switch needs a candidate that passed every update for as long as
\* path_switch_min_candidacy demands.
THEOREM SwitchesAfterContinuousCandidacy == Spec => SwitchAfterContinuousCandidacy
<1> DEFINE A == active_path' # active_path =>
                  ineligible_at[active_path'] < now - path_switch_min_candidacy
<1>1. TypeOK /\ CandidacyInv /\ [Next]_vars => CandidacyInv'
  BY NextCandidacy
<1>2. TypeOK /\ CandidacyInv /\ [Next]_vars => [A]_vars
  BY SwitchFindsCandidate
<1> QED
  BY <1>1, <1>2, InitCandidacy, TypeCorrect, PTL DEF Spec, SwitchAfterContinuousCandidacy

\* Switches do not follow one another faster than candidacies do.
THEOREM SwitchesAreApart == Spec => SwitchesApart
<1> DEFINE A == active_path' # active_path => now - last_switch >= path_switch_min_candidacy
<1>1. TypeOK /\ CandidacyInv /\ [Next]_vars => CandidacyInv'
  BY NextCandidacy
<1>2. TypeOK /\ CandidacyInv /\ [Next]_vars => [A]_vars
  BY SwitchFindsCandidate
<1> QED
  BY <1>1, <1>2, InitCandidacy, TypeCorrect, PTL DEF Spec, SwitchesApart

-----------------------------------------------------------------------------
(* Probing *)

LEMMA LeastElement ==
  ASSUME NEW T, T \subseteq Nat, T # {}
  PROVE  \E x \in T : \A y \in T : x <= y
<1> DEFINE R == OpToRel(<, Nat)
<1>1. IsWellFoundedOn(R, Nat)
  BY NatLessThanWellFounded
<1>2. \A x, y \in Nat : <<x, y>> \in R <=> x < y
  BY DEF OpToRel
<1> HIDE DEF R
<1>3. PICK x \in T : \A y \in T : <<y, x>> \notin R
  BY <1>1, WFMin
<1>4. ASSUME NEW y \in T PROVE x <= y
  <2>1. x \in Nat /\ y \in Nat
    OBVIOUS
  <2>2. ~(y < x)
    BY <1>2, <1>3, <2>1
  <2> QED
    BY <2>1, <2>2
<1> QED
  BY <1>4

\* SendProbes probes the active path and, if another one is old enough, one
\* of those that were probed least recently.
LEMMA OldestIsProbed ==
  ASSUME NEW a \in Paths, NEW sent \in [Paths -> Nat], NEW t \in Nat,
         NEW S \in ProbeSets(a, sent, t),
         NEW p \in Paths \ {a}, sent[p] <= t - probe_recency
  PROVE  a \in S /\ \E c \in S \ {a} : c \in Paths /\ sent[c] <= sent[p]
<1> DEFINE old == {q \in Paths \ {a} : sent[q] <= t - probe_recency}
           cand == ProbeCandidates(a, sent, t)
<1>1. cand = {q \in old : \A r \in old : sent[q] <= sent[r]}
  BY DEF ProbeCandidates
<1>2. PICK C \in SUBSET cand :
        /\ S = C \cup {a}
        /\ \/ Cardinality(C) = probe_simultaneous
           \/ C = cand /\ Cardinality(C) <= probe_simultaneous
  BY DEF ProbeSets
<1>3. cand # {}
  <2> DEFINE T == {sent[q] : q \in old}
  <2>1. T \subseteq Nat /\ sent[p] \in T
    OBVIOUS
  <2>2. PICK x \in T : \A y \in T : x <= y
    BY <2>1, LeastElement
  <2>3. PICK q \in old : x = sent[q]
    BY <2>2
  <2>4. \A r \in old : sent[q] <= sent[r]
    BY <2>2, <2>3
  <2> QED
    BY <1>1, <2>3, <2>4
<1>4. C # {}
  BY <1>2, <1>3, FS_EmptySet
<1>5. PICK c \in C : TRUE
  BY <1>4
<1>6. c \in old /\ \A r \in old : sent[c] <= sent[r]
  BY <1>1, <1>5
<1>7. p \in old
  OBVIOUS
<1>8. c \in Paths \ {a} /\ sent[c] <= sent[p]
  BY <1>6, <1>7
<1> QED
  BY <1>2, <1>5, <1>8

\* The paths that FindProbeCandidates may prefer to p.
Ahead(p) == {q \in Paths \ {p} : last_probe_sent[q] <= last_probe_sent[p]}

LEMMA AheadIsFinite ==
  ASSUME NEW p \in Paths
  PROVE  /\ IsFiniteSet(Ahead(p)) /\ Cardinality(Ahead(p)) \in Nat
         /\ Cardinality(Paths) \in Nat
<1>1. Ahead(p) \in SUBSET Paths
  BY DEF Ahead
<1> QED
  BY <1>1, FS_Subset, FS_CardinalityType

\* A path is probed at most once in a probe_recency and an update interval; if the
\* last update passed it over, it will be probed before every path ahead of it
\* has had an update of its own.
ProbingInv ==
  ~stopped =>
    \A p \in Paths :
      /\ last_probe_sent[p] <= now
      /\ \/ next_update < ProbedSince(p) + probe_recency + update_interval
         \/ next_update + Cardinality(Ahead(p)) * update_interval
              < ProbedSince(p) + probe_recency + (Cardinality(Paths) - 1) * update_interval

LEMMA InitProbing ==
  ASSUME Init PROVE ProbingInv
<1>1. \A p \in Paths : last_probe_sent[p] \in {0, StartTime}
  BY DEF Init
<1>2. now = StartTime /\ next_update = StartTime + update_interval
  BY DEF Init
<1> QED
  BY <1>1, <1>2 DEF ProbingInv, ProbedSince

\* Multiplication by the interval, for the provers.
LEMMA FewerIntervals ==
  ASSUME NEW k \in Int, NEW m \in Int, k + 1 <= m
  PROVE  k * update_interval + update_interval <= m * update_interval
<1>1. (m - (k + 1)) * update_interval >= 0
  OBVIOUS
<1>2. (m - (k + 1)) * update_interval = m * update_interval - k * update_interval - update_interval
  OBVIOUS
<1> QED
  BY <1>1, <1>2

LEMMA UpdateProbing ==
  ASSUME TypeOK, ProbingInv, Update, TypeOK', StartTime <= now
  PROVE  ProbingInv'
<1>1. PICK S \in ProbeSets(active_path, last_probe_sent, now) : SendProbes(S)
  BY DEF Update
<1>2. /\ now \in Nat /\ now = next_update /\ ~stopped /\ active_path \in Paths
      /\ last_probe_sent \in [Paths -> Nat]
      /\ now' = now /\ next_update' = now + update_interval
  BY DEF Update, TypeOK
<1>3. /\ last_probe_sent' = [p \in Paths |-> IF p \in S THEN now ELSE last_probe_sent[p]]
  BY <1>1 DEF SendProbes
<1> SUFFICES ASSUME NEW p \in Paths
             PROVE  /\ last_probe_sent'[p] <= now
                    /\ \/ now + update_interval
                            < ProbedSince(p)' + probe_recency + update_interval
                       \/ now + update_interval + Cardinality(Ahead(p)') * update_interval
                            < ProbedSince(p)' + probe_recency
                                + (Cardinality(Paths) - 1) * update_interval
  BY <1>2 DEF ProbingInv
<1>4. last_probe_sent[p] <= now /\ last_probe_sent'[p] <= now
  BY <1>2, <1>3 DEF ProbingInv
<1>5. CASE p \in S
  <2>1. ProbedSince(p)' = now
    BY <1>2, <1>3, <1>5 DEF ProbedSince
  <2> QED
    BY <1>2, <1>4, <2>1
<1>6. CASE p \notin S
  <2>1. last_probe_sent'[p] = last_probe_sent[p]
    BY <1>3, <1>6
  <2>2. /\ ProbedSince(p)' = ProbedSince(p) /\ ProbedSince(p) \in Nat
        /\ last_probe_sent[p] <= ProbedSince(p)
    BY <1>2, <2>1 DEF ProbedSince
  <2>3. CASE now < ProbedSince(p) + probe_recency
    BY <1>2, <1>4, <2>2, <2>3
  <2>4. CASE now >= ProbedSince(p) + probe_recency
    <3>1. last_probe_sent[p] <= now - probe_recency /\ last_probe_sent[p] < now
      BY <1>2, <2>2, <2>4
    <3>2. active_path \in S
      BY <1>1, <1>2 DEF ProbeSets
    <3>3. PICK c \in S \ {active_path} :
            c \in Paths /\ last_probe_sent[c] <= last_probe_sent[p]
      <4>1. p \in Paths \ {active_path}
        BY <1>6, <3>2
      <4>2. S \in ProbeSets(active_path, last_probe_sent, now)
        BY <1>1
      <4>3. active_path \in Paths /\ last_probe_sent \in [Paths -> Nat] /\ now \in Nat
        BY <1>2
      <4>4. last_probe_sent[p] <= now - probe_recency
        BY <3>1
      <4> QED
        BY <4>1, <4>2, <4>3, <4>4, OldestIsProbed
    <3>4. Ahead(p)' = Ahead(p) \ S
      BY <1>2, <1>3, <1>6, <3>1 DEF Ahead
    <3> DEFINE A == Ahead(p)
               rest == Cardinality(Ahead(p)')
               n == Cardinality(Paths)
    <3>5. IsFiniteSet(A) /\ Cardinality(A) \in Nat /\ n \in Nat
      BY AheadIsFinite
    <3>6. rest \in Nat /\ rest + 1 <= Cardinality(A)
      <4>1. c \in A
        BY <1>6, <3>3 DEF Ahead
      <4>2. Ahead(p)' \in SUBSET (A \ {c})
        BY <3>3, <3>4
      <4>3. IsFiniteSet(A \ {c}) /\ Cardinality(A \ {c}) = Cardinality(A) - 1
        BY <3>5, <4>1, FS_RemoveElement
      <4>4. IsFiniteSet(Ahead(p)') /\ rest <= Cardinality(A \ {c})
        BY <4>2, <4>3, FS_Subset
      <4> QED
        BY <3>5, <4>3, <4>4, FS_CardinalityType
    <3>7. rest + 3 <= n
      <4> DEFINE P1 == Paths \ {p}
                 P2 == P1 \ {active_path}
                 P3 == P2 \ {c}
      <4>1. IsFiniteSet(P1) /\ Cardinality(P1) = n - 1
        BY FS_RemoveElement
      <4>2. IsFiniteSet(P2) /\ Cardinality(P2) = n - 2
        <5>1. active_path \in P1
          BY <1>2, <1>6, <3>2
        <5>2. IsFiniteSet(P1 \ {active_path}) /\ Cardinality(P1 \ {active_path}) = Cardinality(P1) - 1
          <6> HIDE DEF P1
          <6> QED
            BY <4>1, <5>1, FS_RemoveElement
        <5> QED
          BY <3>5, <4>1, <5>2
      <4>3. IsFiniteSet(P3) /\ Cardinality(P3) = n - 3
        <5>1. c \in P2
          BY <1>6, <3>3
        <5>2. IsFiniteSet(P2 \ {c}) /\ Cardinality(P2 \ {c}) = Cardinality(P2) - 1
          <6> HIDE DEF P2
          <6> QED
            BY <4>2, <5>1, FS_RemoveElement
        <5> QED
          BY <3>5, <4>2, <5>2
      <4>4. Ahead(p)' \in SUBSET P3
        BY <3>2, <3>3, <3>4 DEF Ahead
      <4> QED
        BY <3>5, <3>6, <4>3, <4>4, FS_Subset
    <3> HIDE DEF rest, n, A
    <3>8. CASE now < ProbedSince(p) + probe_recency + update_interval
      <4>1. (rest + 1) * update_interval + update_interval <= (n - 1) * update_interval
        BY <3>5, <3>6, <3>7, FewerIntervals
      <4>2. (rest + 1) * update_interval = rest * update_interval + update_interval
        BY <3>6
      <4>3. rest * update_interval \in Int /\ (n - 1) * update_interval \in Int
        BY <3>5, <3>6
      <4>4. /\ update_interval \in Nat /\ probe_recency \in Nat
            /\ now \in Nat /\ ProbedSince(p) \in Nat
        BY <1>2, <2>2
      <4> HIDE DEF ProbedSince
      <4> DEFINE ahead == rest * update_interval
                 all == (n - 1) * update_interval
      <4>5. now + update_interval + ahead < ProbedSince(p) + probe_recency + all
        <5>1. ahead \in Int /\ all \in Int
          BY <4>3
        <5>2. ahead + update_interval + update_interval <= all
          BY <4>1, <4>2
        <5> HIDE DEF ahead, all
        <5> QED
          BY <3>8, <4>4, <5>1, <5>2
      <4> QED
        BY <1>2, <1>4, <2>2, <4>5 DEF rest, n
    <3>9. CASE now + Cardinality(A) * update_interval
                 < ProbedSince(p) + probe_recency + (n - 1) * update_interval
      <4>1. rest * update_interval + update_interval <= Cardinality(A) * update_interval
        BY <3>5, <3>6, FewerIntervals
      <4>2. /\ rest * update_interval \in Int /\ (n - 1) * update_interval \in Int
            /\ Cardinality(A) * update_interval \in Int
        BY <3>5, <3>6
      <4>3. /\ update_interval \in Nat /\ probe_recency \in Nat
            /\ now \in Nat /\ ProbedSince(p) \in Nat
        BY <1>2, <2>2
      <4> HIDE DEF ProbedSince
      <4> DEFINE ahead == rest * update_interval
                 ahead_before == Cardinality(A) * update_interval
                 all == (n - 1) * update_interval
      <4>4. now + update_interval + ahead < ProbedSince(p) + probe_recency + all
        <5>1. ahead \in Int /\ ahead_before \in Int /\ all \in Int
          BY <4>2
        <5>2. ahead + update_interval <= ahead_before
          BY <4>1
        <5>3. now + ahead_before < ProbedSince(p) + probe_recency + all
          BY <3>9
        <5> HIDE DEF ahead, ahead_before, all
        <5> QED
          BY <4>3, <5>1, <5>2, <5>3
      <4> QED
        BY <1>2, <1>4, <2>2, <4>4 DEF rest, n
    <3> QED
      BY <1>2, <3>8, <3>9 DEF ProbingInv, A, n
  <2> QED
    BY <1>2, <2>2, <2>3, <2>4
<1> QED
  BY <1>5, <1>6

LEMMA NextProbing ==
  ASSUME IInv, ProbingInv, StartTime <= now, [Next]_vars
  PROVE  ProbingInv' /\ (StartTime <= now)'
<1>1. now \in Nat /\ now' \in Nat /\ (now' = now \/ now' = now + 1)
  <2>1. TypeOK /\ TypeOK'
    BY TypeStep DEF IInv
  <2>2. now' = now \/ now' = now + 1
    BY Zenon DEF Next, vars, Tick, Update, ScheduleSend, ReceiveProbeResponse,
       ReceiveEmptyProbeResponse, ReceiveCongestionAlert, ReceiveAppResponse,
       ScheduleControllerProcessInterval, StopAppTraffic, clocks
  <2> QED
    BY <2>1, <2>2 DEF TypeOK
<1>2. CASE Update
  BY <1>1, <1>2, TypeStep, UpdateProbing DEF IInv
<1>3. CASE ~Update
  <2>1. UNCHANGED <<last_probe_sent, next_update>> /\ (stopped' = stopped \/ stopped')
    BY <1>3, Zenon DEF Next, vars, Tick, ScheduleSend, ReceiveProbeResponse,
       ReceiveEmptyProbeResponse, ReceiveCongestionAlert, ReceiveAppResponse,
       ScheduleControllerProcessInterval, StopAppTraffic, clocks, probing
  <2>2. \A p \in Paths : /\ Ahead(p)' = Ahead(p) /\ ProbedSince(p)' = ProbedSince(p)
                         /\ last_probe_sent[p] \in Nat
    BY <2>1 DEF Ahead, ProbedSince, IInv, TypeOK
  <2> QED
    BY <1>1, <2>1, <2>2 DEF ProbingInv
<1> QED
  BY <1>1, <1>2, <1>3

\* FindProbeCandidates and SendProbes: with more than one path, a path waits at
\* most probe_recency and one update for every other path until it is probed.
THEOREM EveryPathIsProbed ==
  ASSUME Cardinality(Paths) > 1
  PROVE  Spec => []NoPathUnprobed
<1> DEFINE Inv == ProbingInv /\ StartTime <= now
<1>1. Init => Inv
  <2>1. Init => StartTime <= now
    BY DEF Init
  <2> QED
    BY <2>1, InitProbing
<1>2. IInv /\ Inv /\ [Next]_vars => Inv'
  BY NextProbing
<1>3. IInv /\ Inv => NoPathUnprobed
  <2> SUFFICES ASSUME IInv, ProbingInv, ~stopped, NEW p \in Paths
               PROVE  now - ProbedSince(p)
                        < probe_recency + (Cardinality(Paths) - 1) * update_interval
    BY DEF NoPathUnprobed
  <2> DEFINE n == Cardinality(Paths)
             k == Cardinality(Ahead(p))
  <2>1. now \in Nat /\ next_update \in Nat /\ now <= next_update /\ ProbedSince(p) \in Nat
    BY DEF IInv, TypeOK, TimingInv, ProbedSince
  <2>2. n \in Nat /\ n > 1 /\ k \in Nat
    BY AheadIsFinite
  <2>3. \/ next_update < ProbedSince(p) + probe_recency + update_interval
        \/ next_update + k * update_interval
             < ProbedSince(p) + probe_recency + (n - 1) * update_interval
    BY DEF ProbingInv
  <2> HIDE DEF n, k
  <2>4. 0 * update_interval + update_interval <= (n - 1) * update_interval
    BY <2>2, FewerIntervals
  <2>5. k * update_interval \in Nat /\ (n - 1) * update_interval \in Nat
    BY <2>2
  <2> QED
    BY <2>1, <2>3, <2>4, <2>5 DEF n
<1> QED
  BY <1>1, <1>2, <1>3, Invariance, PTL DEF Spec
=============================================================================
