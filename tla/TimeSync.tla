------------------------------ MODULE TimeSync ------------------------------
(***************************************************************************)
(* The time servers of the core ASes (time-server.cc): once per            *)
(* time_sync_period every server corrects its clock by its own reference;  *)
(* in every g-th period it also measures its offset to all the others and, *)
(* two seconds later, corrects its clock by the middle of what it          *)
(* measured, the f lowest and the f highest offsets left out.              *)
(*                                                                         *)
(* A clock is modelled by its error, local_time - Simulator::Now(), in     *)
(* units of the drift.  An NTP exchange shows in the offset it measures,   *)
(* its messages are those of NtpExchange.                                  *)
(***************************************************************************)
EXTENDS Integers, FiniteSets

CONSTANTS
  Servers,             \* set_of_all_core_ases
  alg_v,               \* "V1", "V2", "V3", "V4" or "LOCAL_SYNC"
  g,                   \* periods per global synchronisation
  max_drift,           \* largest drift of a clock in one period
  window_drift,        \* largest drift in the two seconds of an exchange
  measurement_error,   \* largest error of a measured offset
  global_cut_off,
  malicious_offset,    \* of the reference of each server
  MaliciousReferences, \* the servers whose reference is MALICIOUS_REF
  Pathless,            \* pairs of servers that may have no path to measure on
  InitialErrors,       \* errors of the clocks after ResetTime
  MaxReferenceEvents,  \* bound of the number of TimeReferencesDown and -Up
  MaxError             \* bound of the errors up to which clocks drift

Algorithms == {"V1", "V2", "V3", "V4", "LOCAL_SYNC"}

ASSUME TimeSyncAssumption ==
  /\ IsFiniteSet(Servers) /\ Servers # {}
  /\ alg_v \in Algorithms
  /\ g \in Nat \ {0}
  /\ max_drift \in Nat /\ window_drift \in 0..max_drift
  /\ measurement_error \in Nat /\ global_cut_off \in Nat
  /\ malicious_offset \in [Servers -> Int]
  /\ MaliciousReferences \subseteq Servers
  /\ Pathless \subseteq Servers \X Servers
  /\ InitialErrors \subseteq Int
  /\ MaxReferenceEvents \in Nat /\ MaxError \in Nat

VARIABLES
  phase,               \* what the simulator does next
  err,                 \* local_time - Simulator::Now() of each server
  synchronization_round,
  reference_time_type,
  reference_events,    \* number of TimeReferencesDown and -Up so far
  pending,             \* the servers that have yet to run ContinueGlobalTimeSync
  measured             \* the errors of the clocks when the requests were sent

vars == <<phase, err, synchronization_round, reference_time_type, reference_events,
          pending, measured>>

TypeOK ==
  /\ phase \in {"trigger", "exchange", "continue", "idle"}
  /\ err \in [Servers -> Int]
  /\ synchronization_round \in 0..(g - 1)
  /\ reference_time_type \in [Servers -> {"OFF", "ON", "MALICIOUS_REF"}]
  /\ reference_events \in Nat
  /\ pending \subseteq Servers
  /\ measured \in [Servers -> Int]

-----------------------------------------------------------------------------
(* Arithmetic of the code *)

Abs(x) == IF x < 0 THEN -x ELSE x

\* Division of integers by 2, towards 0.
Half(x) == IF x < 0 THEN -((-x) \div 2) ELSE x \div 2

\* x limited to -max..max.
Clip(x, max) ==
  IF Abs(x) < max THEN x ELSE IF x > 0 THEN max ELSE -max

-----------------------------------------------------------------------------
(* Local synchronisation *)

\* GetReferenceTime, as an error.  A negative offset is subtracted.
ReferenceError(s) ==
  CASE reference_time_type[s] = "OFF" -> err[s]
    [] reference_time_type[s] = "MALICIOUS_REF" -> Abs(malicious_offset[s])
    [] reference_time_type[s] = "ON" -> 0

Loff(s) == ReferenceError(s) - err[s]

\* Mutant: V4 limits the local correction like the other versions.
MaxLocalCorrectionOfV3 == max_drift

\* The largest local correction: 1.25 times the drift in V4, rounded.
MaxLocalCorrection ==
  IF alg_v = "V4" THEN (5 * max_drift + 2) \div 4 ELSE max_drift

NextRound == (synchronization_round + 1) % g

\* Whether a server looks at its own reference in this period.
CorrectsLocally == alg_v \in {"V4", "LOCAL_SYNC"} \/ synchronization_round # 0

\* TriggerCoreTimeSyncAlgo, which all servers run at the same instant: each
\* reads and writes its own state alone, and the requests travel.
TriggerCoreTimeSyncAlgo ==
  /\ phase = "trigger"
  /\ err' = [s \in Servers |->
       IF CorrectsLocally THEN err[s] + Clip(Loff(s), MaxLocalCorrection) ELSE err[s]]
  /\ IF synchronization_round = 0 /\ alg_v # "LOCAL_SYNC"
       THEN phase' = "exchange" /\ measured' = err'
       ELSE phase' = "idle" /\ UNCHANGED measured
  /\ synchronization_round' = NextRound
  /\ UNCHANGED <<reference_time_type, reference_events, pending>>

-----------------------------------------------------------------------------
(* Global synchronisation *)

n == Cardinality(Servers)

\* The number of servers that may be wrong.
f == (n - 1) \div 3

\* The offset a server takes for its own, and for those it has not measured.
OwnOffset(s) == IF alg_v = "V4" THEN 0 ELSE Loff(s)

\* The offsets s has of all servers: the ones it measured, each with an
\* error, and its own for those to which it has no path.
Offsets(s, error, missing) ==
  [p \in Servers |-> IF p = s \/ p \in missing
                       THEN OwnOffset(s)
                       ELSE measured[p] - measured[s] + error[p]]

\* v is the offset of rank k in the multiset off, counted from 0.
HasRank(off, k, v) ==
  /\ Cardinality({p \in Servers : off[p] < v}) <= k
  /\ k < Cardinality({p \in Servers : off[p] <= v})

\* The servers whose offset has rank k.
OfRank(off, k) == {p \in Servers : HasRank(off, k, off[p])}

\* Mutant: the offsets are not trimmed.
GoffUntrimmed(off) ==
  {Half(off[p] + off[q]) : p \in OfRank(off, 0), q \in OfRank(off, n - 1)}

\* The middle of the offsets of ranks f and n-1-f: a set of one number.
Goff(off) ==
  {Half(off[p] + off[q]) : p \in OfRank(off, f), q \in OfRank(off, n - 1 - f)}

\* The correction, given a server's own offset and that of the others.
Correction(loff, goff) ==
  IF Abs(loff - goff) <= global_cut_off THEN loff
  ELSE IF alg_v \in {"V1", "V2"} THEN goff + Clip(loff - goff, global_cut_off)
  ELSE goff

\* Mutant: V4 limits the global correction like V3.
MaxGlobalCorrectionOfV3 == g * max_drift

\* The largest global correction: the drift of one period in V1, of g
\* periods in V2 and V3, 2.5 times that in V4.
MaxGlobalCorrection ==
  CASE alg_v = "V1" -> max_drift
    [] alg_v = "V4" -> (5 * (g * max_drift) + 1) \div 2
    [] OTHER -> g * max_drift

\* ContinueGlobalTimeSync of one server.  The servers run it in parallel.
\* The measurements are forgotten afterwards.
ContinueGlobalTimeSync(s, error, missing) ==
  LET off == Offsets(s, error, missing) IN
  /\ phase = "continue" /\ s \in pending
  /\ \E goff \in Goff(off) :
       err' = [err EXCEPT ![s] =
         @ + Clip(Correction(OwnOffset(s), goff), MaxGlobalCorrection)]
  /\ pending' = pending \ {s}
  /\ phase' = IF pending = {s} THEN "idle" ELSE "continue"
  /\ measured' = IF pending = {s} THEN [p \in Servers |-> 0] ELSE measured
  /\ UNCHANGED <<synchronization_round, reference_time_type, reference_events>>

-----------------------------------------------------------------------------
(* The passing of time *)

\* AdvanceLocalTime: every clock drifts, by at most max.
AdvanceLocalTime(max) ==
  \E drift \in [Servers -> (-max)..max] :
    /\ err' = [s \in Servers |-> err[s] + drift[s]]
    /\ \A s \in Servers : err'[s] \in (-MaxError)..MaxError

\* The two seconds in which requests and answers travel.
ExchangePasses ==
  /\ phase = "exchange"
  /\ AdvanceLocalTime(window_drift)
  /\ phase' = "continue"
  /\ pending' = Servers
  /\ UNCHANGED <<synchronization_round, reference_time_type, reference_events, measured>>

\* The drift of the rest of a period, which an exchange has shortened.
RestOfDrift ==
  IF alg_v # "LOCAL_SYNC" /\ synchronization_round = 1 % g
    THEN max_drift - window_drift ELSE max_drift

PeriodPasses ==
  /\ phase = "idle"
  /\ AdvanceLocalTime(RestOfDrift)
  /\ phase' = "trigger"
  /\ UNCHANGED <<synchronization_round, reference_time_type, reference_events, pending,
                 measured>>

\* The user-defined events TimeReferencesDown and TimeReferencesUp.  They
\* change the references of all servers, the malicious ones included.
TimeReferencesChange(type) ==
  /\ reference_events < MaxReferenceEvents
  /\ reference_events' = reference_events + 1
  /\ reference_time_type' = [s \in Servers |-> type]
  /\ UNCHANGED <<phase, err, synchronization_round, pending, measured>>

-----------------------------------------------------------------------------
Init ==
  /\ phase = "trigger"
  /\ err \in [Servers -> InitialErrors]
  /\ synchronization_round = 0
  /\ reference_time_type = [s \in Servers |->
       IF s \in MaliciousReferences THEN "MALICIOUS_REF" ELSE "ON"]
  /\ reference_events = 0
  /\ pending = {}
  /\ measured = [s \in Servers |-> 0]

Next ==
  \/ TriggerCoreTimeSyncAlgo
  \/ ExchangePasses
  \/ \E s \in pending :
       \E error \in [Servers \ {s} -> (-measurement_error)..measurement_error],
          missing \in SUBSET {p \in Servers : <<s, p>> \in Pathless} :
         ContinueGlobalTimeSync(s, error, missing)
  \/ PeriodPasses
  \/ TimeReferencesChange("OFF")
  \/ TimeReferencesChange("ON")

Spec == Init /\ [][Next]_vars

\* The simulator goes on from event to event.
FairSpec == Spec /\ WF_vars(Next)

-----------------------------------------------------------------------------
(* Properties *)

\* What a correction may add to the range of the other clocks.
Slack == measurement_error + IF alg_v = "V4" THEN 0 ELSE global_cut_off

\* Global synchronisation never moves a clock out of the range of any n - f
\* clocks, so that f wrong clocks cannot move it where they want.  In the
\* versions other than V4 a server's own reference counts as one of the f,
\* and so do the servers to which it has no path.
FewClocksCannotPull ==
  [][\A s \in pending \ pending', B \in SUBSET Servers :
       /\ Cardinality(B) <= f
       /\ alg_v # "V4" => s \in B /\ \A p \in Servers : <<s, p>> \in Pathless => p \in B
       => \E p, q \in (Servers \ B) \cup {s} :
            /\ err'[s] - err[s] >= measured[p] - measured[s] - Slack
            /\ err'[s] - err[s] <= measured[q] - measured[s] + Slack]_vars

\* How far a malicious reference can lead its own server in V4: g local
\* corrections and the drift of as long, from where the last global
\* synchronisation left it.
MaliciousReach ==
  global_cut_off + measurement_error + window_drift + g * (MaxLocalCorrection + max_drift)

\* How far a clock may be off: one whose reference is right by the drift of a
\* period, any other by MaliciousReach.
Accurate(s) ==
  Abs(err[s]) <= IF reference_time_type[s] = "ON" THEN max_drift ELSE MaliciousReach

\* With at most f malicious references V4 keeps clocks that are near the real
\* time at the start near it for ever.
ClocksStayAccurate ==
  (\A s \in Servers : Abs(err[s]) <= max_drift) => [](\A s \in Servers : Accurate(s))

\* Whatever the errors at the start, the servers whose references are right
\* come to that accuracy and keep it.
BecomesAccurate ==
  <>[](\A s \in Servers : reference_time_type[s] = "ON" => Accurate(s))
=============================================================================
