--------------------------- MODULE TimeSyncProofs ---------------------------
(***************************************************************************)
(* Theorems about TimeSync, for any number of servers, any drift, any g    *)
(* and any measurement error.  The last part bounds the errors of V4 after *)
(* any start by the number of rounds that have passed, which a history     *)
(* variable counts.                                                        *)
(***************************************************************************)
EXTENDS TimeSync, FiniteSetTheorems, TLAPS

USE TimeSyncAssumption

-----------------------------------------------------------------------------
(* Arithmetic *)

LEMMA HalfIsBetween ==
  ASSUME NEW x \in Int, NEW y \in Int
  PROVE  /\ Half(x + y) \in Int
         /\ x <= y => x <= Half(x + y) /\ Half(x + y) <= y
         /\ y <= x => y <= Half(x + y) /\ Half(x + y) <= x
BY DEF Half

LEMMA ClipIsBetween ==
  ASSUME NEW x \in Int, NEW max \in Nat
  PROVE  /\ Clip(x, max) \in Int
         /\ -max <= Clip(x, max) /\ Clip(x, max) <= max
         /\ x >= 0 => 0 <= Clip(x, max) /\ Clip(x, max) <= x
         /\ x <= 0 => x <= Clip(x, max) /\ Clip(x, max) <= 0
         /\ -max <= x /\ x <= max => Clip(x, max) = x
         /\ x > max => Clip(x, max) = max
         /\ x < -max => Clip(x, max) = -max
BY DEF Clip, Abs

LEMMA CorrectionIsNearGoff ==
  ASSUME NEW loff \in Int, NEW goff \in Int
  PROVE  /\ Correction(loff, goff) \in Int
         /\ goff - global_cut_off <= Correction(loff, goff)
         /\ Correction(loff, goff) <= goff + global_cut_off
         /\ alg_v = "V4" => \/ Correction(loff, goff) = goff
                            \/ /\ Correction(loff, goff) = loff
                               /\ Abs(loff - goff) <= global_cut_off
<1> DEFINE clip == Clip(loff - goff, global_cut_off)
<1>1. clip \in Int /\ -global_cut_off <= clip /\ clip <= global_cut_off
  <2>1. loff - goff \in Int
    OBVIOUS
  <2> QED
    BY <2>1, ClipIsBetween
<1>2. Correction(loff, goff) = IF Abs(loff - goff) <= global_cut_off THEN loff
                               ELSE IF alg_v \in {"V1", "V2"} THEN goff + clip ELSE goff
  BY DEF Correction
<1> HIDE DEF clip
<1>3. CASE Abs(loff - goff) <= global_cut_off
  BY <1>2, <1>3 DEF Abs
<1>4. CASE ~(Abs(loff - goff) <= global_cut_off)
  <2>1. \/ Correction(loff, goff) = goff + clip /\ alg_v # "V4"
        \/ Correction(loff, goff) = goff
    BY <1>2, <1>4
  <2> QED
    BY <1>1, <2>1
<1> QED
  BY <1>3, <1>4

LEMMA ReferencesAreInt ==
  ASSUME TypeOK, NEW s \in Servers
  PROVE  Loff(s) \in Int /\ OwnOffset(s) \in Int
<1>1. malicious_offset[s] \in Int /\ err[s] \in Int
  BY DEF TypeOK
<1>2. reference_time_type[s] \in {"OFF", "ON", "MALICIOUS_REF"}
  BY DEF TypeOK
<1>3. ReferenceError(s) \in Int
  BY <1>1, <1>2 DEF ReferenceError, Abs
<1>4. Loff(s) \in Int
  BY <1>1, <1>3 DEF Loff
<1> QED
  BY <1>4 DEF OwnOffset

LEMMA LimitsAreNat ==
  /\ MaxLocalCorrection \in Nat /\ MaxGlobalCorrection \in Nat
  /\ g * max_drift \in Nat
<1>1. g * max_drift \in Nat
  OBVIOUS
<1>2. MaxLocalCorrection \in Nat
  BY DEF MaxLocalCorrection
<1> DEFINE gd == g * max_drift
<1>3. MaxGlobalCorrection = CASE alg_v = "V1" -> max_drift
                              [] alg_v = "V4" -> (5 * gd + 1) \div 2
                              [] OTHER -> gd
  BY DEF MaxGlobalCorrection
<1> HIDE DEF gd
<1>4. gd \in Nat
  BY <1>1 DEF gd
<1>5. (5 * gd + 1) \div 2 \in Nat
  BY <1>4
<1>6. MaxGlobalCorrection \in Nat
  BY <1>3, <1>4, <1>5
<1> QED
  BY <1>1, <1>2, <1>6

-----------------------------------------------------------------------------
(* Ranks *)

LEMMA ServersAreFinite ==
  /\ n \in Nat \ {0} /\ f \in Nat /\ 3 * f + 1 <= n
  /\ \A S \in SUBSET Servers : IsFiniteSet(S) /\ Cardinality(S) \in Nat
<1>1. Cardinality(Servers) \in Nat /\ Cardinality(Servers) # 0
  BY FS_CardinalityType, FS_EmptySet
<1>2. n \in Nat \ {0}
  BY <1>1 DEF n
<1>3. f \in Nat /\ 3 * f + 1 <= n
  BY <1>2 DEF f
<1>4. \A S \in SUBSET Servers : IsFiniteSet(S) /\ Cardinality(S) \in Nat
  BY FS_Subset, FS_CardinalityType
<1> QED
  BY <1>2, <1>3, <1>4

\* Of the servers outside a small set one lies at or below a rank.
LEMMA SomeAtMostRank ==
  ASSUME NEW off \in [Servers -> Int], NEW k \in Nat, NEW v \in Int, HasRank(off, k, v),
         NEW B \in SUBSET Servers, Cardinality(B) <= k
  PROVE  \E p \in Servers \ B : off[p] <= v
<1> DEFINE S == {p \in Servers : off[p] <= v}
<1>1. SUFFICES ASSUME ~ \E p \in Servers \ B : off[p] <= v PROVE FALSE
  OBVIOUS
<1>2. S \subseteq B
  BY <1>1
<1>3. Cardinality(S) <= Cardinality(B)
  BY <1>2, ServersAreFinite, FS_Subset
<1>4. k < Cardinality(S)
  BY DEF HasRank
<1>5. Cardinality(S) \in Nat /\ Cardinality(B) \in Nat
  BY ServersAreFinite
<1> HIDE DEF S
<1> QED
  BY <1>3, <1>4, <1>5

\* And of a large set of servers one lies at or above it.
LEMMA SomeAtLeastRank ==
  ASSUME NEW off \in [Servers -> Int], NEW k \in Nat, NEW v \in Int, HasRank(off, k, v),
         NEW G \in SUBSET Servers, Cardinality(G) > k
  PROVE  \E q \in G : v <= off[q]
<1> DEFINE S == {p \in Servers : off[p] < v}
<1>1. SUFFICES ASSUME ~ \E q \in G : v <= off[q] PROVE FALSE
  OBVIOUS
<1>2. G \subseteq S
  BY <1>1
<1>3. Cardinality(G) <= Cardinality(S)
  BY <1>2, ServersAreFinite, FS_Subset
<1>4. Cardinality(S) <= k
  BY DEF HasRank
<1>5. Cardinality(S) \in Nat /\ Cardinality(G) \in Nat
  BY ServersAreFinite
<1> HIDE DEF S
<1> QED
  BY <1>3, <1>4, <1>5

\* The middle of the trimmed offsets lies between offsets of any n - f servers.
LEMMA GoffInRange ==
  ASSUME NEW off \in [Servers -> Int], NEW goff \in Goff(off),
         NEW B \in SUBSET Servers, Cardinality(B) <= f
  PROVE  /\ goff \in Int
         /\ \E p \in Servers \ B : off[p] <= goff
         /\ \E q \in Servers \ B : goff <= off[q]
<1>1. PICK l \in OfRank(off, f), h \in OfRank(off, n - 1 - f) :
        goff = Half(off[l] + off[h])
  BY DEF Goff
<1>2. /\ l \in Servers /\ HasRank(off, f, off[l])
      /\ h \in Servers /\ HasRank(off, n - 1 - f, off[h])
  BY <1>1 DEF OfRank
<1>3. /\ f \in Nat /\ n - 1 - f \in Nat /\ f <= n - 1 - f /\ n \in Nat
      /\ Cardinality(B) \in Nat /\ IsFiniteSet(B)
  BY ServersAreFinite
<1>4. Cardinality(Servers \ B) = n - Cardinality(B)
  <2>1. Cardinality(Servers \ B) = Cardinality(Servers) - Cardinality(Servers \cap B)
    BY FS_Difference
  <2>2. Servers \cap B = B
    OBVIOUS
  <2> QED
    BY <2>1, <2>2 DEF n
<1>5. Cardinality(Servers \ B) > n - 1 - f /\ Cardinality(Servers \ B) > f
  BY <1>3, <1>4
<1>6. off[l] \in Int /\ off[h] \in Int
  BY <1>2
<1>7. PICK p1 \in Servers \ B, p2 \in Servers \ B : off[p1] <= off[l] /\ off[p2] <= off[h]
  <2>1. \E p \in Servers \ B : off[p] <= off[l]
    BY <1>2, <1>3, <1>6, SomeAtMostRank
  <2>2. Cardinality(B) <= n - 1 - f
    BY <1>3
  <2>3. \E p \in Servers \ B : off[p] <= off[h]
    BY <1>2, <1>3, <1>6, <2>2, SomeAtMostRank
  <2> QED
    BY <2>1, <2>3
<1>8. PICK q1 \in Servers \ B, q2 \in Servers \ B : off[l] <= off[q1] /\ off[h] <= off[q2]
  <2>1. \E q \in Servers \ B : off[l] <= off[q]
    BY <1>2, <1>3, <1>5, <1>6, SomeAtLeastRank
  <2>2. \E q \in Servers \ B : off[h] <= off[q]
    BY <1>2, <1>3, <1>5, <1>6, SomeAtLeastRank
  <2> QED
    BY <2>1, <2>2
<1>9. off[p1] \in Int /\ off[p2] \in Int /\ off[q1] \in Int /\ off[q2] \in Int
  BY <1>7, <1>8
<1>10. /\ goff \in Int
       /\ off[l] <= off[h] => off[l] <= goff /\ goff <= off[h]
       /\ off[h] <= off[l] => off[h] <= goff /\ goff <= off[l]
  <2> DEFINE x == off[l]
             y == off[h]
  <2>1. goff = Half(x + y) /\ x \in Int /\ y \in Int
    BY <1>1, <1>6
  <2> HIDE DEF x, y
  <2>2. /\ goff \in Int
        /\ x <= y => x <= goff /\ goff <= y
        /\ y <= x => y <= goff /\ goff <= x
    BY <2>1, HalfIsBetween
  <2> QED
    BY <2>2 DEF x, y
<1>11. \E p \in Servers \ B : off[p] <= goff
  BY <1>6, <1>7, <1>9, <1>10
<1>12. \E q \in Servers \ B : goff <= off[q]
  BY <1>6, <1>8, <1>9, <1>10
<1> QED
  BY <1>10, <1>11, <1>12

-----------------------------------------------------------------------------
(* One global correction *)

\* The offsets a server works with, and what they may be.
LEMMA OffsetsAreInt ==
  ASSUME TypeOK, NEW s \in Servers,
         NEW error \in [Servers \ {s} -> (-measurement_error)..measurement_error],
         NEW missing
  PROVE  /\ Offsets(s, error, missing) \in [Servers -> Int]
         /\ Offsets(s, error, missing)[s] = OwnOffset(s)
         /\ \A p \in Servers \ {s} :
              \/ p \in missing /\ Offsets(s, error, missing)[p] = OwnOffset(s)
              \/ /\ p \notin missing
                 /\ Offsets(s, error, missing)[p] >=
                      measured[p] - measured[s] - measurement_error
                 /\ Offsets(s, error, missing)[p] <=
                      measured[p] - measured[s] + measurement_error
<1>1. OwnOffset(s) \in Int /\ \A p \in Servers : measured[p] \in Int
  BY ReferencesAreInt DEF TypeOK
<1>2. \A p \in Servers \ {s} :
        error[p] \in Int /\ -measurement_error <= error[p] /\ error[p] <= measurement_error
  OBVIOUS
<1>3. \A p \in Servers \ {s} : measured[p] - measured[s] + error[p] \in Int
  BY <1>1, <1>2
<1>4. Offsets(s, error, missing) \in [Servers -> Int]
  BY <1>1, <1>3 DEF Offsets
<1>5. Offsets(s, error, missing)[s] = OwnOffset(s)
  BY DEF Offsets
<1>6. ASSUME NEW p \in Servers \ {s}
      PROVE  \/ p \in missing /\ Offsets(s, error, missing)[p] = OwnOffset(s)
             \/ /\ p \notin missing
                /\ Offsets(s, error, missing)[p] >=
                     measured[p] - measured[s] - measurement_error
                /\ Offsets(s, error, missing)[p] <=
                     measured[p] - measured[s] + measurement_error
  <2>1. CASE p \in missing
    BY <2>1 DEF Offsets
  <2>2. CASE p \notin missing
    <3>1. Offsets(s, error, missing)[p] = measured[p] - measured[s] + error[p]
      BY <2>2 DEF Offsets
    <3>2. measured[p] \in Int /\ measured[s] \in Int
      BY <1>1
    <3> QED
      BY <1>2, <2>2, <3>1, <3>2
  <2> QED
    BY <2>1, <2>2
<1> QED
  BY <1>4, <1>5, <1>6

\* What ContinueGlobalTimeSync does to the clock of s.
LEMMA ContinueEffect ==
  ASSUME TypeOK, NEW s \in Servers,
         NEW error \in [Servers \ {s} -> (-measurement_error)..measurement_error],
         NEW missing, ContinueGlobalTimeSync(s, error, missing)
  PROVE  \E goff \in Goff(Offsets(s, error, missing)) :
           /\ goff \in Int
           /\ err'[s] = err[s] + Clip(Correction(OwnOffset(s), goff), MaxGlobalCorrection)
           /\ err' \in [Servers -> Int]
           /\ \A p \in Servers \ {s} : err'[p] = err[p]
<1> DEFINE off == Offsets(s, error, missing)
<1>1. PICK goff \in Goff(off) :
        err' = [err EXCEPT ![s] = @ + Clip(Correction(OwnOffset(s), goff), MaxGlobalCorrection)]
  BY DEF ContinueGlobalTimeSync
<1>2. off \in [Servers -> Int]
  BY OffsetsAreInt
<1>3. Cardinality({}) <= f
  BY FS_EmptySet, ServersAreFinite
<1>4. goff \in Int
  BY <1>2, <1>3, GoffInRange
<1>5. Clip(Correction(OwnOffset(s), goff), MaxGlobalCorrection) \in Int
  BY <1>4, ReferencesAreInt, CorrectionIsNearGoff, ClipIsBetween, LimitsAreNat
<1>6. err \in [Servers -> Int]
  BY DEF TypeOK
<1>7. /\ err'[s] = err[s] + Clip(Correction(OwnOffset(s), goff), MaxGlobalCorrection)
      /\ err' \in [Servers -> Int]
      /\ \A p \in Servers \ {s} : err'[p] = err[p]
  <2> DEFINE c == Clip(Correction(OwnOffset(s), goff), MaxGlobalCorrection)
  <2>1. err' = [err EXCEPT ![s] = @ + c] /\ c \in Int
    BY <1>1, <1>5
  <2> HIDE DEF c
  <2>2. err'[s] = err[s] + c /\ err' \in [Servers -> Int]
        /\ \A p \in Servers \ {s} : err'[p] = err[p]
    BY <1>6, <2>1
  <2> QED
    BY <2>2 DEF c
<1> QED
  BY <1>4, <1>7

-----------------------------------------------------------------------------
(* Types *)

LEMMA InitTypeOK == Init => TypeOK
<1> SUFFICES ASSUME Init PROVE TypeOK
  OBVIOUS
<1>1. err \in [Servers -> Int]
  BY DEF Init
<1>2. reference_time_type \in [Servers -> {"OFF", "ON", "MALICIOUS_REF"}]
  BY DEF Init
<1> QED
  BY <1>1, <1>2 DEF Init, TypeOK

LEMMA NextTypeOK ==
  ASSUME TypeOK, [Next]_vars
  PROVE  TypeOK'
<1>0. /\ phase \in {"trigger", "exchange", "continue", "idle"}
      /\ err \in [Servers -> Int] /\ measured \in [Servers -> Int]
      /\ synchronization_round \in 0..(g - 1)
      /\ reference_time_type \in [Servers -> {"OFF", "ON", "MALICIOUS_REF"}]
      /\ reference_events \in Nat /\ pending \subseteq Servers
  BY DEF TypeOK
<1>1. CASE TriggerCoreTimeSyncAlgo
  <2>1. /\ err' = [s \in Servers |->
             IF CorrectsLocally THEN err[s] + Clip(Loff(s), MaxLocalCorrection) ELSE err[s]]
        /\ measured' = err' \/ measured' = measured
        /\ phase' \in {"exchange", "idle"}
        /\ synchronization_round' = NextRound
        /\ UNCHANGED <<reference_time_type, reference_events, pending>>
    BY <1>1 DEF TriggerCoreTimeSyncAlgo
  <2>2. \A s \in Servers : err[s] + Clip(Loff(s), MaxLocalCorrection) \in Int
    <3> TAKE s \in Servers
    <3>1. Loff(s) \in Int /\ err[s] \in Int
      BY <1>0, ReferencesAreInt
    <3> QED
      BY <3>1, ClipIsBetween, LimitsAreNat
  <2>3. err' \in [Servers -> Int]
    BY <1>0, <2>1, <2>2
  <2>4. synchronization_round' \in 0..(g - 1)
    BY <1>0, <2>1 DEF NextRound
  <2> QED
    BY <1>0, <2>1, <2>3, <2>4 DEF TypeOK
<1>2. ASSUME NEW max \in Nat, AdvanceLocalTime(max)
      PROVE  err' \in [Servers -> Int]
  BY <1>0, <1>2 DEF AdvanceLocalTime
<1>3. CASE ExchangePasses
  <2>1. err' \in [Servers -> Int]
    BY <1>2, <1>3 DEF ExchangePasses
  <2> QED
    BY <1>0, <1>3, <2>1 DEF ExchangePasses, TypeOK
<1>4. CASE PeriodPasses
  <2>1. RestOfDrift \in Nat
    BY DEF RestOfDrift
  <2>2. err' \in [Servers -> Int]
    BY <1>2, <1>4, <2>1 DEF PeriodPasses
  <2> QED
    BY <1>0, <1>4, <2>2 DEF PeriodPasses, TypeOK
<1>5. ASSUME NEW s \in pending,
             NEW error \in [Servers \ {s} -> (-measurement_error)..measurement_error],
             NEW missing, ContinueGlobalTimeSync(s, error, missing)
      PROVE  TypeOK'
  <2>1. err' \in [Servers -> Int]
    BY <1>0, <1>5, ContinueEffect
  <2>2. /\ phase' \in {"idle", "continue"} /\ pending' = pending \ {s}
        /\ measured' = [p \in Servers |-> 0] \/ measured' = measured
        /\ UNCHANGED <<synchronization_round, reference_time_type, reference_events>>
    BY <1>5 DEF ContinueGlobalTimeSync
  <2>3. measured' \in [Servers -> Int]
    BY <1>0, <2>2
  <2> QED
    BY <1>0, <2>1, <2>2, <2>3 DEF TypeOK
<1>6. ASSUME NEW type \in {"OFF", "ON"}, TimeReferencesChange(type)
      PROVE  TypeOK'
  BY <1>0, <1>6 DEF TimeReferencesChange, TypeOK
<1>7. CASE UNCHANGED vars
  BY <1>0, <1>7 DEF vars, TypeOK
<1> QED
  BY <1>1, <1>3, <1>4, <1>5, <1>6, <1>7 DEF Next

\* Every variable of the time servers keeps its type, whatever the
\* constants; in particular the rounds are counted modulo g.
THEOREM TypeCorrect == Spec => []TypeOK
<1>1. TypeOK /\ [Next]_vars => TypeOK'
  BY NextTypeOK
<1> QED
  BY <1>1, InitTypeOK, PTL DEF Spec

-----------------------------------------------------------------------------
(* Global synchronisation *)

LEMMA CorrectionInRange ==
  ASSUME TypeOK, NEW s \in Servers,
         NEW error \in [Servers \ {s} -> (-measurement_error)..measurement_error],
         NEW missing \in SUBSET {p \in Servers : <<s, p>> \in Pathless},
         ContinueGlobalTimeSync(s, error, missing),
         NEW B \in SUBSET Servers, Cardinality(B) <= f,
         alg_v # "V4" => s \in B /\ \A p \in Servers : <<s, p>> \in Pathless => p \in B
  PROVE  \E p, q \in (Servers \ B) \cup {s} :
           /\ err'[s] - err[s] >= measured[p] - measured[s] - Slack
           /\ err'[s] - err[s] <= measured[q] - measured[s] + Slack
<1> DEFINE off == Offsets(s, error, missing)
<1>1. PICK goff \in Goff(off) :
        /\ goff \in Int
        /\ err'[s] = err[s] + Clip(Correction(OwnOffset(s), goff), MaxGlobalCorrection)
  BY ContinueEffect
<1>2. off \in [Servers -> Int]
  BY OffsetsAreInt
<1>3. PICK p1 \in Servers \ B, q1 \in Servers \ B : off[p1] <= goff /\ goff <= off[q1]
  BY <1>2, GoffInRange
<1>4. /\ OwnOffset(s) \in Int /\ err[s] \in Int /\ \A p \in Servers : measured[p] \in Int
      /\ \A p \in Servers : off[p] \in Int
  BY <1>2, ReferencesAreInt DEF TypeOK
<1>5. ASSUME NEW p \in Servers \ B
      PROVE  \E r \in (Servers \ B) \cup {s} :
               /\ off[p] >= measured[r] - measured[s] - measurement_error
               /\ off[p] <= measured[r] - measured[s] + measurement_error
  <2>1. CASE p = s \/ p \in missing
    <3>1. alg_v = "V4"
      BY <1>5, <2>1
    <3>2. off[p] = 0
      <4>1. off[p] = OwnOffset(s)
        BY <2>1 DEF Offsets
      <4> QED
        BY <3>1, <4>1 DEF OwnOffset
    <3>3. /\ off[p] >= measured[s] - measured[s] - measurement_error
          /\ off[p] <= measured[s] - measured[s] + measurement_error
      BY <1>4, <3>2
    <3> QED
      BY <3>3
  <2>2. CASE p # s /\ p \notin missing
    <3>1. /\ off[p] >= measured[p] - measured[s] - measurement_error
          /\ off[p] <= measured[p] - measured[s] + measurement_error
      BY <2>2, OffsetsAreInt
    <3> QED
      BY <1>5, <3>1
  <2> QED
    BY <2>1, <2>2
<1>6. PICK p \in (Servers \ B) \cup {s} :
        off[p1] >= measured[p] - measured[s] - measurement_error
  BY <1>5
<1>7. PICK q \in (Servers \ B) \cup {s} :
        off[q1] <= measured[q] - measured[s] + measurement_error
  BY <1>5
<1>8. /\ off[p1] \in Int /\ off[q1] \in Int /\ measured[p] \in Int /\ measured[q] \in Int
      /\ measured[s] \in Int
  BY <1>4
<1>9. /\ Slack \in Nat /\ Slack >= measurement_error
      /\ alg_v # "V4" => Slack = measurement_error + global_cut_off
  BY DEF Slack
<1> DEFINE corr == Correction(OwnOffset(s), goff)
           c == Clip(corr, MaxGlobalCorrection)
           low == measured[p] - measured[s]
           high == measured[q] - measured[s]
<1>10. /\ low \in Int /\ high \in Int
       /\ low - measurement_error <= goff /\ goff <= high + measurement_error
  <2>1. /\ off[p1] >= low - measurement_error /\ off[q1] <= high + measurement_error
        /\ low \in Int /\ high \in Int
    BY <1>6, <1>7, <1>8
  <2> HIDE DEF low, high
  <2> QED
    BY <1>1, <1>3, <1>8, <2>1
<1>11. /\ corr \in Int
       /\ goff - global_cut_off <= corr /\ corr <= goff + global_cut_off
       /\ alg_v = "V4" => corr = goff \/ corr = 0
  BY <1>1, <1>4, CorrectionIsNearGoff DEF OwnOffset
<1>12. /\ c \in Int
       /\ corr >= 0 => 0 <= c /\ c <= corr
       /\ corr <= 0 => corr <= c /\ c <= 0
  BY <1>11, ClipIsBetween, LimitsAreNat
<1>13. err'[s] - err[s] = c
  <2>1. err'[s] = err[s] + c
    BY <1>1
  <2> HIDE DEF c
  <2> QED
    BY <1>4, <1>12, <2>1
<1>14. (0 - Slack <= c \/ low - Slack <= c) /\ (c <= 0 + Slack \/ c <= high + Slack)
  <2> HIDE DEF corr, c, low, high
  <2>1. CASE alg_v = "V4"
    BY <1>1, <1>9, <1>10, <1>11, <1>12, <2>1
  <2>2. CASE alg_v # "V4"
    BY <1>1, <1>9, <1>10, <1>11, <1>12, <2>2
  <2> QED
    BY <2>1, <2>2
<1>15. measured[s] - measured[s] = 0
  BY <1>8
<1>16. \E r \in (Servers \ B) \cup {s} : measured[r] - measured[s] - Slack <= c
  BY <1>14, <1>15
<1>17. \E r \in (Servers \ B) \cup {s} : c <= measured[r] - measured[s] + Slack
  BY <1>14, <1>15
<1>18. \A r \in Servers : measured[r] - measured[s] - Slack \in Int
  BY <1>4, <1>9
<1> HIDE DEF c
<1> QED
  BY <1>9, <1>12, <1>13, <1>16, <1>17, <1>18

\* ContinueGlobalTimeSync: whatever f clocks show, no clock leaves the range
\* of the others.
THEOREM FewClocksCannotPullAny == Spec => FewClocksCannotPull
<1> DEFINE InRange ==
      \A s \in pending \ pending', B \in SUBSET Servers :
        /\ Cardinality(B) <= f
        /\ alg_v # "V4" => s \in B /\ \A p \in Servers : <<s, p>> \in Pathless => p \in B
        => \E p, q \in (Servers \ B) \cup {s} :
             /\ err'[s] - err[s] >= measured[p] - measured[s] - Slack
             /\ err'[s] - err[s] <= measured[q] - measured[s] + Slack
<1>1. ASSUME TypeOK, NEW s \in pending,
             NEW error \in [Servers \ {s} -> (-measurement_error)..measurement_error],
             NEW missing \in SUBSET {p \in Servers : <<s, p>> \in Pathless},
             ContinueGlobalTimeSync(s, error, missing)
      PROVE  InRange
  <2>1. pending \ pending' = {s} /\ s \in Servers
    BY <1>1 DEF ContinueGlobalTimeSync, TypeOK
  <2>2. SUFFICES ASSUME NEW B \in SUBSET Servers, Cardinality(B) <= f,
                        alg_v # "V4" => /\ s \in B
                                        /\ \A p \in Servers : <<s, p>> \in Pathless => p \in B
                 PROVE  \E p, q \in (Servers \ B) \cup {s} :
                          /\ err'[s] - err[s] >= measured[p] - measured[s] - Slack
                          /\ err'[s] - err[s] <= measured[q] - measured[s] + Slack
    BY <2>1
  <2> QED
    BY <1>1, <2>1, <2>2, CorrectionInRange
<1>2. ASSUME pending \subseteq pending'
      PROVE  InRange
  BY <1>2
<1>3. ASSUME TypeOK, \/ TriggerCoreTimeSyncAlgo \/ ExchangePasses \/ PeriodPasses
                     \/ TimeReferencesChange("OFF") \/ TimeReferencesChange("ON")
                     \/ UNCHANGED vars
      PROVE  pending \subseteq pending'
  BY <1>3 DEF TypeOK, TriggerCoreTimeSyncAlgo, ExchangePasses, PeriodPasses,
              TimeReferencesChange, vars
<1>4. TypeOK /\ [Next]_vars => [InRange]_vars
  <2> SUFFICES ASSUME TypeOK, [Next]_vars PROVE InRange
    OBVIOUS
  <2> HIDE DEF InRange
  <2> QED
    BY <1>1, <1>2, <1>3, Zenon DEF Next
<1>5. Spec => [][InRange]_vars
  BY <1>4, TypeCorrect, PTL DEF Spec
<1> QED
  BY <1>5 DEF FewClocksCannotPull

-----------------------------------------------------------------------------
(* The accuracy of V4 *)

\* The setting of ClocksStayAccurate: V4, at most f malicious references,
\* their servers measure all others, and no event changes the references.
AccurateSetting ==
  /\ alg_v = "V4"
  /\ MaxReferenceEvents = 0
  /\ Cardinality(MaliciousReferences) <= f
  /\ \A s \in MaliciousReferences, p \in Servers : <<s, p>> \notin Pathless
  /\ measurement_error <= global_cut_off

\* The error a global synchronisation leaves at most.
After == global_cut_off + measurement_error + window_drift

\* What a period may add to the error of a server with a malicious reference.
Step == MaxLocalCorrection + max_drift

\* The error such a server may have before round r.
Reach(r) == After + (max_drift - window_drift) + (IF r = 0 THEN g - 1 ELSE r - 1) * Step

\* What ClocksStayAccurate asks of the start.
StartsAccurate == \A s \in Servers : Abs(err[s]) <= max_drift

\* A server whose reference is right starts every exchange without an error
\* and drifts for at most a period.
Right(s) ==
  /\ phase = "trigger" => Abs(err[s]) <= max_drift
  /\ phase = "exchange" => err[s] = 0 /\ measured[s] = 0
  /\ phase = "continue" => Abs(err[s]) <= window_drift /\ measured[s] = 0
  /\ phase = "idle" => Abs(err[s]) + RestOfDrift <= max_drift

\* A server with a malicious reference gains a Step in every period, until
\* a global synchronisation takes it back.
Wrong(s) ==
  /\ phase = "trigger" => Abs(err[s]) <= Reach(synchronization_round)
  /\ phase = "exchange" => /\ Abs(err[s]) <= Reach(0) + MaxLocalCorrection
                           /\ measured[s] = err[s]
  /\ phase = "continue" =>
       IF s \in pending
         THEN /\ Abs(measured[s]) <= Reach(0) + MaxLocalCorrection
              /\ Abs(err[s] - measured[s]) <= window_drift
         ELSE Abs(err[s]) <= After
  /\ phase = "idle" => Abs(err[s]) + RestOfDrift <= Reach(synchronization_round)

AccuracyInv ==
  /\ TypeOK
  /\ reference_time_type = [s \in Servers |->
       IF s \in MaliciousReferences THEN "MALICIOUS_REF" ELSE "ON"]
  /\ phase \in {"exchange", "continue"} => synchronization_round = 1 % g
  /\ \A s \in Servers : IF s \in MaliciousReferences THEN Wrong(s) ELSE Right(s)

LEMMA LimitsOfV4 ==
  ASSUME alg_v = "V4"
  PROVE  /\ max_drift <= MaxLocalCorrection /\ Step \in Nat /\ 2 * Step <= 5 * max_drift
         /\ g * Step \in Nat /\ g * Step <= MaxGlobalCorrection
<1>1. MaxLocalCorrection = (5 * max_drift + 2) \div 4
  BY DEF MaxLocalCorrection
<1>2. /\ max_drift <= MaxLocalCorrection /\ Step \in Nat /\ 2 * Step <= 5 * max_drift
  BY <1>1 DEF Step
<1>3. g * Step \in Nat /\ g * max_drift \in Nat
  BY <1>2
<1>4. 2 * (g * Step) <= 5 * (g * max_drift)
  <2>1. g * (2 * Step) <= g * (5 * max_drift)
    BY <1>2
  <2>2. g * (2 * Step) = 2 * (g * Step) /\ g * (5 * max_drift) = 5 * (g * max_drift)
    BY <1>2
  <2> QED
    BY <2>1, <2>2
<1> DEFINE gs == g * Step
           gd == g * max_drift
<1>5. MaxGlobalCorrection = (5 * gd + 1) \div 2
  BY DEF MaxGlobalCorrection
<1>6. gs \in Nat /\ gd \in Nat /\ 2 * gs <= 5 * gd
  BY <1>3, <1>4
<1> HIDE DEF gs, gd
<1>7. gs <= MaxGlobalCorrection
  BY <1>5, <1>6
<1> QED
  BY <1>2, <1>3, <1>7 DEF gs

LEMMA ReachGrows ==
  ASSUME alg_v = "V4", NEW r \in 0..(g - 1)
  PROVE  /\ Reach(r) \in Nat /\ Reach(r) <= Reach(0)
         /\ r # 0 => Reach((r + 1) % g) = Reach(r) + Step
         /\ Reach(1 % g) = After + (max_drift - window_drift)
         /\ Reach(0) + MaxLocalCorrection + window_drift = MaliciousReach
         /\ Reach(0) + MaxLocalCorrection = After - window_drift + g * Step
         /\ After \in Nat
<1>0. Step \in Nat /\ MaxLocalCorrection \in Nat /\ Step = MaxLocalCorrection + max_drift
      /\ After \in Nat /\ max_drift - window_drift \in Nat /\ window_drift \in Nat
  BY LimitsOfV4, LimitsAreNat DEF After, Step
<1>1. \A k \in 0..(g - 1) : /\ k * Step \in Nat /\ k * Step <= (g - 1) * Step
                            /\ (k + 1) * Step = k * Step + Step
  BY <1>0
<1>2. \A k \in 0..(g - 1) : After + (max_drift - window_drift) + k * Step \in Nat
  BY <1>0, <1>1
<1>3. Reach(0) = After + (max_drift - window_drift) + (g - 1) * Step
  BY DEF Reach
<1>4. r # 0 => /\ r - 1 \in 0..(g - 1)
               /\ Reach(r) = After + (max_drift - window_drift) + (r - 1) * Step
  BY DEF Reach
<1>5. Reach(r) \in Nat /\ Reach(r) <= Reach(0)
  <2>1. CASE r = 0
    BY <1>2, <1>3, <2>1
  <2>2. CASE r # 0
    <3>1. /\ (r - 1) * Step \in Nat /\ (g - 1) * Step \in Nat
          /\ (r - 1) * Step <= (g - 1) * Step
      BY <1>1, <1>4, <2>2
    <3> QED
      BY <1>0, <1>3, <1>4, <2>2, <3>1
  <2> QED
    BY <2>1, <2>2
<1>6. ASSUME r # 0 PROVE Reach((r + 1) % g) = Reach(r) + Step
  <2>1. r * Step = (r - 1) * Step + Step /\ (r - 1) * Step \in Nat
    <3>1. r - 1 \in 0..(g - 1) /\ (r - 1) + 1 = r
      BY <1>6
    <3> QED
      BY <1>1, <3>1
  <2>2. CASE r + 1 < g
    <3>1. (r + 1) % g = r + 1 /\ r + 1 # 0 /\ (r + 1) - 1 = r
      BY <1>6, <2>2
    <3>2. Reach((r + 1) % g) = After + (max_drift - window_drift) + r * Step
      BY <3>1 DEF Reach
    <3> QED
      BY <1>0, <1>4, <1>6, <2>1, <3>2
  <2>3. CASE r + 1 = g
    <3>1. (r + 1) % g = 0 /\ g - 1 = r
      BY <2>3
    <3>2. Reach((r + 1) % g) = After + (max_drift - window_drift) + r * Step
      BY <1>3, <3>1
    <3> QED
      BY <1>0, <1>4, <1>6, <2>1, <3>2
  <2> QED
    BY <2>2, <2>3
<1>7. Reach(1 % g) = After + (max_drift - window_drift)
  <2>0. 0 * Step = 0
    BY <1>0
  <2>1. CASE g = 1
    <3>1. 1 % g = 0 /\ g - 1 = 0
      BY <2>1
    <3> QED
      BY <1>0, <1>3, <2>0, <3>1
  <2>2. CASE g # 1
    <3>1. 1 % g = 1
      BY <2>2
    <3>2. Reach(1) = After + (max_drift - window_drift) + (1 - 1) * Step
      BY DEF Reach
    <3> QED
      BY <1>0, <2>0, <3>1, <3>2
  <2> QED
    BY <2>1, <2>2
<1>8. g * Step = (g - 1) * Step + Step /\ (g - 1) * Step \in Nat
  BY <1>1
<1>9. MaliciousReach = After + g * Step
  BY <1>0 DEF MaliciousReach, After
<1>10. Reach(0) + MaxLocalCorrection = After - window_drift + g * Step
  BY <1>0, <1>3, <1>8
<1> QED
  BY <1>0, <1>5, <1>6, <1>7, <1>8, <1>9, <1>10

LEMMA RestOfDriftIsNat ==
  /\ RestOfDrift \in Nat /\ RestOfDrift <= max_drift
  /\ alg_v = "V4" /\ synchronization_round = 1 % g
       => RestOfDrift = max_drift - window_drift
BY DEF RestOfDrift

LEMMA InitAccuracy ==
  ASSUME AccurateSetting, Init, StartsAccurate
  PROVE  AccuracyInv
<1>1. /\ phase = "trigger" /\ synchronization_round = 0 /\ alg_v = "V4"
      /\ TypeOK
      /\ \A s \in Servers : err[s] \in Int /\ Abs(err[s]) <= max_drift
  <2>1. \A s \in Servers : err[s] \in Int
    BY InitTypeOK DEF TypeOK
  <2> QED
    BY <2>1, InitTypeOK DEF Init, AccurateSetting, StartsAccurate
<1>2. max_drift <= Reach(0)
  <2>1. 0 \in 0..(g - 1)
    OBVIOUS
  <2>2. /\ Reach(1 % g) = After + (max_drift - window_drift)
        /\ Reach(0) + MaxLocalCorrection = After - window_drift + g * Step
        /\ After \in Nat /\ Reach(0) \in Nat
    BY <1>1, <2>1, ReachGrows
  <2>3. Step \in Nat /\ Step = MaxLocalCorrection + max_drift /\ MaxLocalCorrection \in Nat
    BY <1>1, LimitsOfV4, LimitsAreNat DEF Step
  <2>4. Step <= g * Step /\ g * Step \in Nat
    BY <2>3
  <2>5. After >= window_drift
    BY DEF After
  <2> QED
    BY <2>2, <2>3, <2>4, <2>5
<1>3. \A s \in Servers : IF s \in MaliciousReferences THEN Wrong(s) ELSE Right(s)
  <2> TAKE s \in Servers
  <2>1. Abs(err[s]) <= max_drift /\ Abs(err[s]) <= Reach(0)
    <3>1. Abs(err[s]) \in Int
      BY <1>1 DEF Abs
    <3>2. Reach(0) \in Int
      BY <1>1, ReachGrows
    <3> QED
      BY <1>1, <1>2, <3>1, <3>2
  <2> QED
    BY <1>1, <2>1 DEF Wrong, Right
<1> QED
  BY <1>1, <1>3 DEF AccuracyInv, Init

\* A local correction, by the right reference and by any other.
LEMMA TriggerAccuracy ==
  ASSUME AccurateSetting, AccuracyInv, TypeOK', TriggerCoreTimeSyncAlgo
  PROVE  AccuracyInv'
<1> DEFINE r == synchronization_round
<1>1. /\ alg_v = "V4" /\ phase = "trigger" /\ TypeOK /\ r \in 0..(g - 1)
      /\ err' = [s \in Servers |-> err[s] + Clip(Loff(s), MaxLocalCorrection)]
      /\ r' = (r + 1) % g
      /\ reference_time_type' = reference_time_type
      /\ IF r = 0 THEN phase' = "exchange" /\ measured' = err' ELSE phase' = "idle"
  BY DEF AccurateSetting, AccuracyInv, TypeOK, TriggerCoreTimeSyncAlgo, CorrectsLocally,
         NextRound
<1>2. RestOfDrift' \in Nat /\ RestOfDrift' <= max_drift
  BY DEF RestOfDrift
<1>3. ASSUME NEW s \in Servers, s \notin MaliciousReferences
      PROVE  Right(s)'
  <2>1. err[s] \in Int /\ Abs(err[s]) <= max_drift
    BY <1>1, <1>3 DEF AccuracyInv, Right, TypeOK
  <2>2. Loff(s) = -err[s]
    <3>1. reference_time_type[s] = "ON"
      BY <1>3 DEF AccuracyInv
    <3> QED
      BY <2>1, <3>1 DEF Loff, ReferenceError
  <2>3. err'[s] = err[s] + Clip(-err[s], MaxLocalCorrection)
    BY <1>1, <2>2
  <2>4. -MaxLocalCorrection <= -err[s] /\ -err[s] <= MaxLocalCorrection
    BY <1>1, <2>1, LimitsOfV4, LimitsAreNat DEF Abs
  <2>5. Clip(-err[s], MaxLocalCorrection) = -err[s]
    <3> DEFINE x == -err[s]
    <3>1. x \in Int /\ -MaxLocalCorrection <= x /\ x <= MaxLocalCorrection
      BY <2>1, <2>4
    <3> HIDE DEF x
    <3>2. Clip(x, MaxLocalCorrection) = x
      BY <3>1, ClipIsBetween, LimitsAreNat
    <3> QED
      BY <3>2 DEF x
  <2>6. err'[s] = 0
    BY <2>1, <2>3, <2>5
  <2>7. Abs(err'[s]) = 0
    BY <2>6 DEF Abs
  <2>8. CASE r = 0
    BY <1>1, <2>6, <2>8 DEF Right
  <2>9. CASE r # 0
    <3>1. phase' = "idle" /\ Abs(err'[s]) + RestOfDrift' <= max_drift
      BY <1>1, <1>2, <2>7, <2>9
    <3> QED
      BY <3>1 DEF Right
  <2> QED
    BY <2>8, <2>9
<1>4. ASSUME NEW s \in Servers, s \in MaliciousReferences
      PROVE  Wrong(s)'
  <2>1. err[s] \in Int /\ Abs(err[s]) <= Reach(r)
    BY <1>1, <1>4 DEF AccuracyInv, Wrong, TypeOK
  <2> DEFINE c == Clip(Loff(s), MaxLocalCorrection)
             e == err[s]
  <2>2. err'[s] = e + c
    BY <1>1
  <2>3. c \in Int /\ -MaxLocalCorrection <= c /\ c <= MaxLocalCorrection
    BY <1>1, ReferencesAreInt, ClipIsBetween, LimitsAreNat
  <2>4. e \in Int /\ Abs(e) <= Reach(r)
    BY <2>1
  <2>5. MaxLocalCorrection \in Nat /\ Reach(r) \in Nat
    BY <1>1, ReachGrows, LimitsAreNat
  <2>6. Abs(err'[s]) <= Reach(r) + MaxLocalCorrection /\ Abs(err'[s]) \in Int
    <3> HIDE DEF c, e, r
    <3> QED
      BY <2>2, <2>3, <2>4, <2>5 DEF Abs
  <2>7. CASE r = 0
    <3>1. /\ phase' = "exchange" /\ measured'[s] = err'[s]
          /\ Abs(err'[s]) <= Reach(0) + MaxLocalCorrection
      BY <1>1, <2>6, <2>7
    <3> QED
      BY <3>1 DEF Wrong, Reach, After, Step, MaxLocalCorrection
  <2>8. CASE r # 0
    <3>1. Reach((r + 1) % g) = Reach(r) + Step
      BY <1>1, <2>8, ReachGrows
    <3>2. Step = MaxLocalCorrection + max_drift
      BY DEF Step
    <3>3. Abs(err'[s]) + RestOfDrift' <= Reach((r + 1) % g)
      <4> HIDE DEF r
      <4> QED
        BY <1>2, <2>5, <2>6, <3>1, <3>2
    <3>4. Reach(synchronization_round)' = Reach((r + 1) % g)
      BY <1>1 DEF Reach, After, Step, MaxLocalCorrection
    <3>5. phase' = "idle"
      BY <1>1, <2>8
    <3> QED
      BY <3>3, <3>4, <3>5 DEF Wrong
  <2> QED
    BY <2>7, <2>8
<1>5. phase' \in {"exchange", "continue"} => synchronization_round' = 1 % g
  BY <1>1
<1> QED
  BY <1>1, <1>3, <1>4, <1>5 DEF AccuracyInv

\* The drift while requests and answers travel, and in the rest of a period.
LEMMA DriftAccuracy ==
  ASSUME AccurateSetting, AccuracyInv, TypeOK', ExchangePasses \/ PeriodPasses
  PROVE  AccuracyInv'
<1>1. /\ alg_v = "V4" /\ TypeOK
      /\ reference_time_type' = reference_time_type
      /\ synchronization_round' = synchronization_round /\ measured' = measured
      /\ synchronization_round \in 0..(g - 1)
  BY DEF AccurateSetting, AccuracyInv, TypeOK, ExchangePasses, PeriodPasses
<1>2. ASSUME NEW max \in Nat, AdvanceLocalTime(max), NEW s \in Servers
      PROVE  \E d \in (-max)..max : err'[s] = err[s] + d
  BY <1>2 DEF AdvanceLocalTime
<1>3. \A s \in Servers : err[s] \in Int
  BY <1>1 DEF TypeOK
<1>4. CASE ExchangePasses
  <2>1. /\ phase = "exchange" /\ phase' = "continue" /\ pending' = Servers
        /\ AdvanceLocalTime(window_drift)
    BY <1>4 DEF ExchangePasses
  <2>2. ASSUME NEW s \in Servers, s \notin MaliciousReferences
        PROVE  Right(s)'
    <3>1. err[s] = 0 /\ measured'[s] = 0
      BY <1>1, <2>1, <2>2 DEF AccuracyInv, Right
    <3>2. PICK d \in (-window_drift)..window_drift : err'[s] = err[s] + d
      BY <1>2, <2>1
    <3>3. Abs(err'[s]) <= window_drift
      BY <3>1, <3>2 DEF Abs
    <3> QED
      BY <2>1, <3>1, <3>3 DEF Right
  <2>3. ASSUME NEW s \in Servers, s \in MaliciousReferences
        PROVE  Wrong(s)'
    <3>1. measured[s] = err[s] /\ Abs(err[s]) <= Reach(0) + MaxLocalCorrection
      BY <2>1, <2>3 DEF AccuracyInv, Wrong
    <3>2. PICK d \in (-window_drift)..window_drift : err'[s] = err[s] + d
      BY <1>2, <2>1
    <3>3. Abs(err'[s] - measured'[s]) <= window_drift
      BY <1>1, <1>3, <3>1, <3>2 DEF Abs
    <3>4. Abs(measured'[s]) <= Reach(0) + MaxLocalCorrection
      BY <1>1, <3>1
    <3> QED
      BY <2>1, <3>3, <3>4 DEF Wrong, Reach, After, Step, MaxLocalCorrection
  <2>4. synchronization_round = 1 % g
    BY <2>1 DEF AccuracyInv
  <2> QED
    BY <1>1, <2>2, <2>3, <2>4 DEF AccuracyInv
<1>5. CASE PeriodPasses
  <2>1. phase = "idle" /\ phase' = "trigger" /\ AdvanceLocalTime(RestOfDrift)
    BY <1>5 DEF PeriodPasses
  <2>2. ASSUME NEW s \in Servers, NEW b \in Int, Abs(err[s]) + RestOfDrift <= b
        PROVE  Abs(err'[s]) <= b
    <3>1. RestOfDrift \in Nat
      BY RestOfDriftIsNat
    <3>2. PICK d \in (-RestOfDrift)..RestOfDrift : err'[s] = err[s] + d
      BY <1>2, <2>1, <3>1
    <3> DEFINE e == err[s]
               rest == RestOfDrift
    <3>3. /\ e \in Int /\ rest \in Nat /\ d \in (-rest)..rest /\ err'[s] = e + d
          /\ Abs(e) + rest <= b
      BY <1>3, <2>2, <3>1, <3>2
    <3> HIDE DEF e, rest
    <3> QED
      BY <3>3 DEF Abs
  <2>3. ASSUME NEW s \in Servers, s \notin MaliciousReferences
        PROVE  Right(s)'
    <3>1. Abs(err'[s]) <= max_drift
      BY <2>1, <2>2, <2>3 DEF AccuracyInv, Right
    <3> QED
      BY <2>1, <3>1 DEF Right
  <2>4. ASSUME NEW s \in Servers, s \in MaliciousReferences
        PROVE  Wrong(s)'
    <3>1. Abs(err[s]) + RestOfDrift <= Reach(synchronization_round)
      BY <2>1, <2>4 DEF AccuracyInv, Wrong
    <3>2. Reach(synchronization_round) \in Int
      BY <1>1, ReachGrows
    <3>3. Abs(err'[s]) <= Reach(synchronization_round)
      BY <2>2, <3>1, <3>2
    <3>4. Reach(synchronization_round)' = Reach(synchronization_round)
      BY <1>1 DEF Reach, After, Step, MaxLocalCorrection
    <3> QED
      BY <2>1, <3>3, <3>4 DEF Wrong
  <2> QED
    BY <1>1, <2>1, <2>3, <2>4 DEF AccuracyInv
<1> QED
  BY <1>4, <1>5

\* A global synchronisation of one server: it leaves a right clock alone and
\* takes a wrong one back.
LEMMA CorrectionIsAccurate ==
  ASSUME AccurateSetting, AccuracyInv, NEW s \in pending,
         NEW error \in [Servers \ {s} -> (-measurement_error)..measurement_error],
         NEW missing \in SUBSET {p \in Servers : <<s, p>> \in Pathless},
         ContinueGlobalTimeSync(s, error, missing)
  PROVE  /\ s \notin MaliciousReferences => err'[s] = err[s]
         /\ s \in MaliciousReferences => Abs(err'[s]) <= After
<1> DEFINE off == Offsets(s, error, missing)
           B == MaliciousReferences
<1>1. /\ alg_v = "V4" /\ TypeOK /\ s \in Servers /\ phase = "continue"
      /\ B \in SUBSET Servers /\ Cardinality(B) <= f
      /\ OwnOffset(s) = 0
      /\ err[s] \in Int /\ measured[s] \in Int
  BY DEF AccurateSetting, AccuracyInv, TypeOK, ContinueGlobalTimeSync, OwnOffset
<1>2. PICK goff \in Goff(off) :
        goff \in Int /\ err'[s] = err[s] + Clip(Correction(0, goff), MaxGlobalCorrection)
  BY <1>1, ContinueEffect
<1>3. off \in [Servers -> Int]
  BY <1>1, OffsetsAreInt
<1>4. PICK p1 \in Servers \ B, q1 \in Servers \ B : off[p1] <= goff /\ goff <= off[q1]
  BY <1>1, <1>3, GoffInRange
<1>5. \A p \in Servers \ B : measured[p] = 0
  BY <1>1 DEF AccuracyInv, Right
<1>6. off[p1] \in Int /\ off[q1] \in Int
  BY <1>3
<1>7. /\ Correction(0, goff) \in Int
      /\ \/ Correction(0, goff) = goff /\ Abs(goff) > global_cut_off
         \/ Correction(0, goff) = 0 /\ Abs(goff) <= global_cut_off
  <2>1. Abs(0 - goff) = Abs(goff) /\ Abs(goff) \in Int
    BY <1>2 DEF Abs
  <2>2. Correction(0, goff) = IF Abs(0 - goff) <= global_cut_off THEN 0 ELSE goff
    BY <1>1 DEF Correction
  <2> HIDE DEF off
  <2> QED
    BY <1>2, <2>1, <2>2
<1>8. MaxGlobalCorrection \in Nat
  BY LimitsAreNat
<1>9. ASSUME s \notin B PROVE err'[s] = err[s]
  <2>1. ASSUME NEW p \in Servers \ B
        PROVE  -measurement_error <= off[p] /\ off[p] <= measurement_error
    <3>1. measured[p] = 0 /\ measured[s] = 0
      BY <1>1, <1>5, <1>9
    <3>2. CASE p = s
      <4>1. off[s] = OwnOffset(s)
        BY <1>1 DEF Offsets
      <4> HIDE DEF off
      <4>2. off[p] = 0
        BY <1>1, <3>2, <4>1
      <4> QED
        BY <4>2
    <3>3. CASE p # s
      <4>1. \/ off[p] = OwnOffset(s)
            \/ /\ off[p] >= measured[p] - measured[s] - measurement_error
               /\ off[p] <= measured[p] - measured[s] + measurement_error
        BY <1>1, <2>1, <3>3, OffsetsAreInt
      <4>2. off[p] \in Int
        BY <1>3
      <4> HIDE DEF off
      <4> QED
        BY <1>1, <3>1, <4>1, <4>2
    <3> QED
      BY <3>2, <3>3
  <2>2. -measurement_error <= goff /\ goff <= measurement_error
    <3>1. -measurement_error <= off[p1] /\ off[q1] <= measurement_error
      BY <2>1
    <3> HIDE DEF off
    <3> QED
      BY <1>2, <1>4, <1>6, <3>1
  <2>3. Correction(0, goff) = 0
    <3>1. Abs(goff) <= global_cut_off /\ Abs(goff) \in Int
      BY <1>2, <2>2 DEF Abs, AccurateSetting
    <3> HIDE DEF off
    <3> QED
      BY <1>7, <3>1
  <2>4. Clip(0, MaxGlobalCorrection) = 0
    BY <1>8, ClipIsBetween
  <2> QED
    BY <1>1, <1>2, <2>3, <2>4
<1>10. ASSUME s \in B PROVE Abs(err'[s]) <= After
  <2>1. ASSUME NEW p \in Servers \ B
        PROVE  /\ -measured[s] - measurement_error <= off[p]
               /\ off[p] <= -measured[s] + measurement_error
    <3>1. measured[p] = 0 /\ p # s /\ p \notin missing
      BY <1>5, <1>10 DEF AccurateSetting
    <3>2. /\ off[p] >= measured[p] - measured[s] - measurement_error
          /\ off[p] <= measured[p] - measured[s] + measurement_error
      BY <1>1, <3>1, OffsetsAreInt
    <3>3. off[p] \in Int
      BY <1>3
    <3> HIDE DEF off
    <3> QED
      BY <1>1, <3>1, <3>2, <3>3
  <2> DEFINE m == measured[s]
             e == err[s]
             gs == g * Step
             G == MaxGlobalCorrection
  <2>2. -m - measurement_error <= goff /\ goff <= -m + measurement_error
    <3>1. -m - measurement_error <= off[p1] /\ off[q1] <= -m + measurement_error
      BY <2>1
    <3> HIDE DEF off
    <3> QED
      BY <1>1, <1>2, <1>4, <1>6, <3>1
  <2>3. Abs(m) <= Reach(0) + MaxLocalCorrection /\ Abs(e - m) <= window_drift
    BY <1>1, <1>10 DEF AccuracyInv, Wrong
  <2>4. Abs(m) <= After - window_drift + gs
    <3>1. 0 \in 0..(g - 1)
      OBVIOUS
    <3> QED
      BY <1>1, <2>3, <3>1, ReachGrows
  <2>5. /\ m \in Int /\ e \in Int /\ gs \in Nat /\ G \in Nat /\ gs <= G /\ After \in Nat
        /\ After = global_cut_off + measurement_error + window_drift
    BY <1>1, LimitsOfV4, LimitsAreNat DEF After
  <2>6. err'[s] = e + Clip(Correction(0, goff), G)
    BY <1>2
  <2> HIDE DEF m, e, gs, G, off
  <2>7. CASE Correction(0, goff) = 0 /\ Abs(goff) <= global_cut_off
    <3>1. err'[s] = e
      <4>1. Clip(0, G) = 0
        BY <2>5, ClipIsBetween
      <4> QED
        BY <2>5, <2>6, <2>7, <4>1
    <3> QED
      BY <1>2, <2>2, <2>3, <2>5, <2>7, <3>1 DEF Abs
  <2>8. CASE Correction(0, goff) = goff
    <3>1. CASE goff > G
      <4>1. err'[s] = e + G
        <5>1. Clip(goff, G) = G
          BY <1>2, <2>5, <3>1, ClipIsBetween
        <5> QED
          BY <2>6, <2>8, <5>1
      <4> QED
        BY <1>2, <2>2, <2>3, <2>4, <2>5, <3>1, <4>1 DEF Abs
    <3>2. CASE goff < -G
      <4>1. err'[s] = e - G
        <5>1. Clip(goff, G) = -G
          BY <1>2, <2>5, <3>2, ClipIsBetween
        <5> QED
          BY <2>5, <2>6, <2>8, <5>1
      <4> QED
        BY <1>2, <2>2, <2>3, <2>4, <2>5, <3>2, <4>1 DEF Abs
    <3>3. CASE -G <= goff /\ goff <= G
      <4>1. err'[s] = e + goff
        <5>1. Clip(goff, G) = goff
          BY <1>2, <2>5, <3>3, ClipIsBetween
        <5> QED
          BY <2>6, <2>8, <5>1
      <4> QED
        BY <1>2, <2>2, <2>3, <2>5, <4>1 DEF Abs
    <3> QED
      BY <1>2, <2>5, <3>1, <3>2, <3>3
  <2> QED
    BY <1>7, <2>7, <2>8
<1> QED
  BY <1>9, <1>10

LEMMA ContinueAccuracy ==
  ASSUME AccurateSetting, AccuracyInv, TypeOK', NEW s \in pending,
         NEW error \in [Servers \ {s} -> (-measurement_error)..measurement_error],
         NEW missing \in SUBSET {p \in Servers : <<s, p>> \in Pathless},
         ContinueGlobalTimeSync(s, error, missing)
  PROVE  AccuracyInv'
<1>1. /\ alg_v = "V4" /\ TypeOK /\ s \in Servers
      /\ phase = "continue" /\ pending' = pending \ {s}
      /\ IF pending = {s} THEN phase' = "idle" ELSE phase' = "continue" /\ measured' = measured
      /\ synchronization_round = 1 % g
      /\ UNCHANGED <<synchronization_round, reference_time_type>>
  BY DEF AccurateSetting, AccuracyInv, TypeOK, ContinueGlobalTimeSync
<1>2. \A p \in Servers : err[p] \in Int /\ err'[p] \in Int
  BY <1>1 DEF TypeOK
<1>3. \A p \in Servers \ {s} : err'[p] = err[p]
  BY <1>1, ContinueEffect
<1>4. RestOfDrift' = max_drift - window_drift
  BY <1>1 DEF RestOfDrift
<1>5. ASSUME NEW p \in Servers, p \notin MaliciousReferences
      PROVE  Right(p)'
  <2>1. Abs(err[p]) <= window_drift /\ measured[p] = 0
    BY <1>1, <1>5 DEF AccuracyInv, Right
  <2>2. err'[p] = err[p]
    BY <1>3, <1>5, CorrectionIsAccurate
  <2>3. CASE pending = {s}
    <3>1. Abs(err'[p]) \in Int /\ Abs(err'[p]) <= window_drift
      BY <1>2, <2>1, <2>2 DEF Abs
    <3>2. phase' = "idle" /\ Abs(err'[p]) + RestOfDrift' <= max_drift
      BY <1>1, <1>4, <2>3, <3>1
    <3> QED
      BY <3>2 DEF Right
  <2>4. CASE pending # {s}
    <3>1. phase' = "continue" /\ measured'[p] = 0 /\ Abs(err'[p]) <= window_drift
      BY <1>1, <2>1, <2>2, <2>4
    <3> QED
      BY <3>1 DEF Right
  <2> QED
    BY <2>3, <2>4
<1>6. ASSUME NEW p \in Servers, p \in MaliciousReferences
      PROVE  Wrong(p)'
  <2>1. p \notin pending' => Abs(err'[p]) <= After
    <3>1. CASE p = s
      BY <1>6, <3>1, CorrectionIsAccurate
    <3>2. CASE p # s
      BY <1>1, <1>3, <1>6, <3>2 DEF AccuracyInv, Wrong
    <3> QED
      BY <3>1, <3>2
  <2>2. CASE pending = {s}
    <3>1. Abs(err'[p]) <= After /\ Abs(err'[p]) \in Int
      BY <1>1, <1>2, <2>1, <2>2 DEF Abs
    <3>2. 1 % g \in 0..(g - 1) /\ 0 \in 0..(g - 1)
      OBVIOUS
    <3>3. Reach(1 % g) = After + (max_drift - window_drift) /\ After \in Nat
      BY <1>1, <3>2, ReachGrows
    <3>4. Abs(err'[p]) + RestOfDrift' <= Reach(1 % g)
      BY <1>4, <3>1, <3>3
    <3>5. Reach(synchronization_round)' = Reach(1 % g)
      BY <1>1 DEF Reach, After, Step, MaxLocalCorrection
    <3> QED
      BY <1>1, <2>2, <3>4, <3>5 DEF Wrong
  <2>3. CASE pending # {s}
    <3>1. phase' = "continue" /\ measured' = measured
      BY <1>1, <2>3
    <3>2. CASE p \in pending'
      <4>1. p \in pending /\ err'[p] = err[p]
        BY <1>1, <1>3, <3>2
      <4>2. /\ Abs(measured'[p]) <= Reach(0) + MaxLocalCorrection
            /\ Abs(err'[p] - measured'[p]) <= window_drift
        BY <1>1, <1>6, <3>1, <4>1 DEF AccuracyInv, Wrong
      <4> QED
        BY <3>1, <3>2, <4>2 DEF Wrong, Reach, After, Step, MaxLocalCorrection
    <3>3. CASE p \notin pending'
      <4>1. Abs(err'[p]) <= After
        BY <2>1, <3>3
      <4> QED
        BY <3>1, <3>3, <4>1 DEF Wrong, After
    <3> QED
      BY <3>2, <3>3
  <2> QED
    BY <2>2, <2>3
<1> QED
  BY <1>1, <1>5, <1>6 DEF AccuracyInv

LEMMA NextAccuracy ==
  ASSUME AccurateSetting, AccuracyInv, [Next]_vars
  PROVE  AccuracyInv'
<1>1. TypeOK /\ TypeOK'
  BY NextTypeOK DEF AccuracyInv
<1>2. CASE TriggerCoreTimeSyncAlgo
  BY <1>1, <1>2, TriggerAccuracy
<1>3. CASE ExchangePasses \/ PeriodPasses
  BY <1>1, <1>3, DriftAccuracy
<1>4. ASSUME NEW s \in pending,
             NEW error \in [Servers \ {s} -> (-measurement_error)..measurement_error],
             NEW missing \in SUBSET {p \in Servers : <<s, p>> \in Pathless},
             ContinueGlobalTimeSync(s, error, missing)
      PROVE  AccuracyInv'
  BY <1>1, <1>4, ContinueAccuracy
<1>5. ~ TimeReferencesChange("OFF") /\ ~ TimeReferencesChange("ON")
  BY <1>1 DEF TimeReferencesChange, AccurateSetting, TypeOK
<1>6. CASE UNCHANGED vars
  <2>1. /\ UNCHANGED <<phase, synchronization_round, reference_time_type, err, measured,
                       pending>>
    BY <1>6 DEF vars
  <2>2. \A s \in Servers : (Right(s) => Right(s)') /\ (Wrong(s) => Wrong(s)')
    BY <2>1 DEF Right, Wrong, RestOfDrift, Reach, After, Step, MaxLocalCorrection
  <2> QED
    BY <1>1, <2>1, <2>2 DEF AccuracyInv
<1> QED
  BY <1>2, <1>3, <1>4, <1>5, <1>6 DEF Next

LEMMA AccuracyInvSuffices ==
  ASSUME AccurateSetting, AccuracyInv
  PROVE  \A s \in Servers : Accurate(s)
<1>1. /\ alg_v = "V4" /\ TypeOK /\ synchronization_round \in 0..(g - 1)
      /\ phase \in {"trigger", "exchange", "continue", "idle"}
      /\ reference_time_type = [s \in Servers |->
           IF s \in MaliciousReferences THEN "MALICIOUS_REF" ELSE "ON"]
  BY DEF AccurateSetting, AccuracyInv, TypeOK
<1>2. \A s \in Servers : /\ err[s] \in Int /\ measured[s] \in Int /\ Abs(err[s]) \in Nat
                         /\ Abs(measured[s]) \in Nat
  <2>1. \A s \in Servers : err[s] \in Int /\ measured[s] \in Int
    BY <1>1 DEF TypeOK
  <2> QED
    BY <2>1 DEF Abs
<1>3. RestOfDrift \in Nat
  BY RestOfDriftIsNat
<1>4. ASSUME NEW s \in Servers, s \notin MaliciousReferences
      PROVE  Abs(err[s]) <= max_drift
  <2>1. Right(s)
    BY <1>4 DEF AccuracyInv
  <2>2. CASE phase \in {"trigger", "idle"}
    <3>1. \/ Abs(err[s]) <= max_drift \/ Abs(err[s]) + RestOfDrift <= max_drift
      BY <2>1, <2>2 DEF Right
    <3> QED
      BY <1>2, <1>3, <3>1
  <2>3. CASE phase = "exchange"
    <3>1. err[s] = 0
      BY <2>1, <2>3 DEF Right
    <3> QED
      BY <3>1 DEF Abs
  <2>4. CASE phase = "continue"
    <3>1. Abs(err[s]) <= window_drift
      BY <2>1, <2>4 DEF Right
    <3> QED
      BY <1>2, <3>1
  <2> QED
    BY <1>1, <2>2, <2>3, <2>4
<1>5. ASSUME NEW s \in Servers, s \in MaliciousReferences
      PROVE  Abs(err[s]) <= MaliciousReach
  <2>1. Wrong(s)
    BY <1>5 DEF AccuracyInv
  <2> DEFINE r == synchronization_round
  <2>2. /\ Reach(r) \in Nat /\ Reach(r) <= Reach(0) /\ Reach(0) \in Nat
        /\ Reach(0) + MaxLocalCorrection + window_drift = MaliciousReach
        /\ Reach(0) + MaxLocalCorrection = After - window_drift + g * Step
        /\ After \in Nat /\ MaxLocalCorrection \in Nat
    <3>1. 0 \in 0..(g - 1)
      OBVIOUS
    <3> QED
      BY <1>1, <3>1, ReachGrows, LimitsAreNat
  <2>3. g * Step \in Nat
    BY <1>1, LimitsOfV4
  <2>4. \/ Abs(err[s]) <= Reach(r)
        \/ Abs(err[s]) + RestOfDrift <= Reach(r)
        \/ Abs(err[s]) <= Reach(0) + MaxLocalCorrection
        \/ /\ Abs(measured[s]) <= Reach(0) + MaxLocalCorrection
           /\ Abs(err[s] - measured[s]) <= window_drift
        \/ Abs(err[s]) <= After
    <3>1. CASE phase \in {"trigger", "exchange", "idle"}
      BY <2>1, <3>1 DEF Wrong
    <3>2. CASE phase = "continue"
      BY <2>1, <3>2 DEF Wrong
    <3> QED
      BY <1>1, <3>1, <3>2
  <2> DEFINE e == err[s]
             m == measured[s]
             gs == g * Step
             R == Reach(r)
             rest == RestOfDrift
  <2>5. /\ e \in Int /\ m \in Int /\ gs \in Nat /\ R \in Nat /\ R <= Reach(0) /\ rest \in Nat
        /\ Reach(0) + MaxLocalCorrection = After - window_drift + gs
        /\ \/ Abs(e) <= R \/ Abs(e) + rest <= R
           \/ Abs(e) <= Reach(0) + MaxLocalCorrection
           \/ /\ Abs(m) <= Reach(0) + MaxLocalCorrection
              /\ Abs(e - m) <= window_drift
           \/ Abs(e) <= After
    BY <1>2, <1>3, <2>2, <2>3, <2>4
  <2> HIDE DEF e, m, gs, R, rest
  <2>6. Abs(e) <= MaliciousReach
    BY <2>2, <2>5 DEF Abs
  <2> QED
    BY <2>6 DEF e
<1> QED
  BY <1>1, <1>4, <1>5 DEF Accurate

\* TriggerCoreTimeSyncAlgo and ContinueGlobalTimeSync of V4: while at most f
\* references are malicious, no clock leaves MaliciousReach, and none whose
\* reference is right is off by more than the drift of a period.
THEOREM V4StaysAccurate ==
  ASSUME AccurateSetting
  PROVE  Spec => ClocksStayAccurate
<1>1. Init /\ StartsAccurate => AccuracyInv
  BY InitAccuracy
<1>2. AccuracyInv /\ [Next]_vars => AccuracyInv'
  BY NextAccuracy
<1>3. AccuracyInv => \A s \in Servers : Accurate(s)
  BY AccuracyInvSuffices
<1> QED
  BY <1>1, <1>2, <1>3, PTL DEF Spec, ClocksStayAccurate, StartsAccurate

-----------------------------------------------------------------------------
(* V4 from any start: how fast the right clocks become accurate *)

\* How often a round of g periods has come to its end.
VARIABLE rounds

CountsRounds ==
  rounds' = rounds + (IF phase = "idle" /\ phase' = "trigger" /\ synchronization_round = 0
                        THEN 1 ELSE 0)

CountedSpec == Spec /\ rounds = 0 /\ [][CountsRounds]_<<vars, rounds>>

\* What a local correction takes away from a large error more than the drift of a
\* period adds; and what a round takes away, in which a global correction may add the
\* error of a measurement.
Margin == MaxLocalCorrection - max_drift
Gain == g * Margin - measurement_error

\* What the theorem needs.  It is about the servers whose references are right, so
\* that the paths of the others do not matter.
ConvergenceSetting ==
  /\ alg_v = "V4"
  /\ MaxReferenceEvents = 0
  /\ Cardinality(MaliciousReferences) <= f
  /\ measurement_error <= global_cut_off
  /\ Gain >= 0

RightServers == Servers \ MaliciousReferences

StartsWithin(bound) == \A s \in RightServers : Abs(err[s]) <= bound

\* What is left of an error in period r of round k, and how large an error may be.
Excess(bound, k, r) ==
  bound - k * Gain + (IF r = 0 THEN 0 ELSE measurement_error - r * Margin)
Limit(bound, k, r) ==
  IF Excess(bound, k, 0) <= max_drift \/ Excess(bound, k, r) <= max_drift
    THEN max_drift ELSE Excess(bound, k, r)

\* What is left after a local correction, and then after a global one.
Left(limit) == IF limit <= MaxLocalCorrection THEN 0 ELSE limit - MaxLocalCorrection
LeftByGlobal(left) ==
  IF left = 0 THEN window_drift ELSE left + measurement_error + window_drift

\* The largest error after k rounds.
ErrorAfter(bound, k) ==
  IF bound - k * Gain <= max_drift THEN max_drift ELSE bound - k * Gain + measurement_error

\* The round to which the next period belongs.
Coming == IF synchronization_round = 0 THEN rounds + 1 ELSE rounds

Shrinking(bound, s) ==
  /\ phase = "trigger" => Abs(err[s]) <= Limit(bound, rounds, synchronization_round)
  /\ phase = "exchange" => /\ Abs(err[s]) <= Left(Limit(bound, rounds, 0))
                           /\ measured[s] = err[s]
  /\ phase = "continue" =>
       /\ Abs(measured[s]) <= Left(Limit(bound, rounds, 0))
       /\ IF s \in pending THEN Abs(err[s] - measured[s]) <= window_drift
                           ELSE Abs(err[s]) <= LeftByGlobal(Left(Limit(bound, rounds, 0)))
  /\ phase = "idle" => Abs(err[s]) + RestOfDrift <= Limit(bound, Coming, synchronization_round)

ConvergenceInv(bound) ==
  /\ TypeOK /\ rounds \in Nat
  /\ \A s \in RightServers : reference_time_type[s] = "ON"
  /\ phase \in {"exchange", "continue"} => synchronization_round = 1 % g
  /\ \A s \in RightServers : Shrinking(bound, s)

\* One period further.
LEMMA ExcessStep ==
  ASSUME alg_v = "V4", NEW bound \in Nat, NEW k \in Nat, NEW r \in 0..(g - 1),
         NEW q \in Nat, q = (r + 1) % g, NEW m \in Nat, m = IF q = 0 THEN k + 1 ELSE k
  PROVE  /\ Excess(bound, k, r) \in Int /\ Margin \in Nat
         /\ r = 0 => Excess(bound, m, q) = Excess(bound, k, r) - Margin + measurement_error
         /\ r # 0 => Excess(bound, m, q) = Excess(bound, k, r) - Margin
<1>1. Margin \in Nat
  BY LimitsOfV4, LimitsAreNat DEF Margin
<1>2. Gain \in Int /\ Gain = g * Margin - measurement_error /\ g * Margin \in Int
  BY <1>1 DEF Gain
<1>3. /\ k * Gain \in Int /\ (k + 1) * Gain = k * Gain + Gain
      /\ r * Margin \in Int /\ (r + 1) * Margin = r * Margin + Margin
  BY <1>1, <1>2
<1> DEFINE kg == k * Gain
           rm == r * Margin
<1>4. Excess(bound, k, r) = bound - kg + (IF r = 0 THEN 0 ELSE measurement_error - rm)
  BY DEF Excess
<1>5. r = 0 => rm = 0
  BY <1>1
<1>6. CASE r + 1 < g
  <2>1. q = r + 1 /\ q # 0 /\ m = k
    BY <1>6
  <2>2. Excess(bound, m, q) = bound - kg + (measurement_error - (rm + Margin))
    BY <1>3, <2>1 DEF Excess
  <2> HIDE DEF kg, rm
  <2> QED
    BY <1>1, <1>3, <1>4, <1>5, <2>2 DEF kg, rm
<1>7. CASE r + 1 = g
  <2>1. q = 0 /\ m = k + 1
    BY <1>7
  <2>2. Excess(bound, m, q) = bound - (kg + Gain) + 0
    <3>1. Excess(bound, k + 1, 0) = bound - (k + 1) * Gain + 0
      BY DEF Excess
    <3>2. (k + 1) * Gain = kg + Gain
      BY <1>3
    <3>3. Excess(bound, m, q) = Excess(bound, k + 1, 0)
      BY <2>1
    <3> QED
      BY <3>1, <3>2, <3>3, Zenon
  <2>3. Gain = rm + Margin - measurement_error
    <3>1. g * Margin = (r + 1) * Margin
      BY <1>7
    <3>2. (r + 1) * Margin = rm + Margin /\ rm \in Int
      BY <1>3
    <3> DEFINE gm == g * Margin
    <3>3. gm = rm + Margin /\ Gain = gm - measurement_error
      BY <1>2, <3>1, <3>2
    <3> HIDE DEF rm, gm
    <3> QED
      BY <1>1, <3>2, <3>3
  <2> HIDE DEF kg, rm
  <2> QED
    BY <1>1, <1>2, <1>3, <1>4, <1>5, <2>2, <2>3 DEF kg, rm
<1> QED
  BY <1>6, <1>7

\* Within a round the excess is at most that at its start and a measurement error.
LEMMA ExcessInRound ==
  ASSUME alg_v = "V4", NEW bound \in Nat, NEW k \in Nat, NEW r \in 0..(g - 1)
  PROVE  /\ Gain \in Int /\ bound - k * Gain \in Int /\ Excess(bound, k, 0) = bound - k * Gain
         /\ Excess(bound, k, r) \in Int
         /\ Excess(bound, k, r) <= bound - k * Gain + measurement_error
         /\ Excess(bound, k + 1, 0) \in Int
         /\ Excess(bound, k + 1, 0) = bound - k * Gain - Gain
<1>1. Margin \in Nat
  BY LimitsOfV4, LimitsAreNat DEF Margin
<1>2. Gain \in Int /\ g * Margin \in Nat /\ Gain = g * Margin - measurement_error
  BY <1>1 DEF Gain
<1>3. k * Gain \in Int /\ (k + 1) * Gain = k * Gain + Gain /\ r * Margin \in Nat
  BY <1>1, <1>2
<1>4. /\ Excess(bound, k, r)
           = bound - k * Gain + (IF r = 0 THEN 0 ELSE measurement_error - r * Margin)
      /\ Excess(bound, k, 0) = bound - k * Gain + 0
      /\ Excess(bound, k + 1, 0) = bound - (k + 1) * Gain + 0
  BY DEF Excess
<1> DEFINE kg == k * Gain
           kg1 == (k + 1) * Gain
           rm == r * Margin
           gm == g * Margin
<1> HIDE DEF kg, kg1, rm, gm
<1> QED
  BY <1>2, <1>3, <1>4 DEF kg, kg1, rm, gm

\* The limits are at least the drift of a period, and the next one is what is left
\* by the corrections with the drift of a period.
LEMMA LimitStep ==
  ASSUME alg_v = "V4", NEW bound \in Nat, NEW k \in Nat, NEW r \in 0..(g - 1),
         NEW q, q = (r + 1) % g, NEW m, m = IF q = 0 THEN k + 1 ELSE k
  PROVE  /\ Limit(bound, k, r) \in Nat /\ Left(Limit(bound, k, r)) \in Nat
         /\ Limit(bound, m, q) \in Nat /\ max_drift <= Limit(bound, m, q)
         /\ Left(Limit(bound, k, r)) + max_drift <= Limit(bound, m, q)
         /\ r = 0 => LeftByGlobal(Left(Limit(bound, k, r))) + (max_drift - window_drift)
                       <= Limit(bound, m, q)
<1>1. /\ Excess(bound, k, r) \in Int /\ Margin \in Nat
      /\ r = 0 => Excess(bound, m, q) = Excess(bound, k, r) - Margin + measurement_error
      /\ r # 0 => Excess(bound, m, q) = Excess(bound, k, r) - Margin
  <2>1. q \in Nat /\ m \in Nat
    OBVIOUS
  <2>2. alg_v = "V4" /\ q = (r + 1) % g /\ m = IF q = 0 THEN k + 1 ELSE k
    OBVIOUS
  <2> QED
    BY ONLY <2>1, <2>2, ExcessStep, bound \in Nat, k \in Nat, r \in 0..(g - 1)
<1>2. MaxLocalCorrection \in Nat /\ Margin = MaxLocalCorrection - max_drift
  BY LimitsAreNat DEF Margin
<1> DEFINE x == Excess(bound, k, r)
           y == Excess(bound, m, q)
           start == Excess(bound, k, 0)
           l == Limit(bound, k, r)
           z == Limit(bound, m, q)
<1>3. l = IF start <= max_drift \/ x <= max_drift THEN max_drift ELSE x
  BY DEF Limit
<1>4. /\ x \in Int /\ start \in Int
      /\ r = 0 => y = x - Margin + measurement_error
      /\ r # 0 => y = x - Margin
  <2>1. start \in Int
    BY ExcessInRound
  <2> QED
    BY <1>1, <2>1, Zenon
<1>0. \/ z = max_drift /\ (start <= max_drift \/ y <= max_drift)
      \/ z = y /\ max_drift < y
  <2>1. q = 0 \/ m = k
    OBVIOUS
  <2>2. y \in Int
    BY <1>1, <1>4
  <2>3. z = IF Excess(bound, m, 0) <= max_drift \/ y <= max_drift THEN max_drift ELSE y
    BY DEF Limit
  <2> QED
    BY <2>1, <2>2, <2>3
<1> HIDE DEF x, y, l, z, start
<1>5. l \in Nat /\ z \in Nat /\ max_drift <= z /\ y \in Int
  BY <1>0, <1>1, <1>3, <1>4
<1>6. Left(l) = IF l <= MaxLocalCorrection THEN 0 ELSE l - MaxLocalCorrection
  BY DEF Left
<1>7. Left(l) \in Nat /\ Left(l) + max_drift <= z
  BY <1>0, <1>1, <1>2, <1>3, <1>4, <1>5, <1>6
<1>8. ASSUME r = 0 PROVE LeftByGlobal(Left(l)) + (max_drift - window_drift) <= z
  BY <1>0, <1>1, <1>2, <1>3, <1>4, <1>5, <1>6, <1>7, <1>8 DEF LeftByGlobal
<1> QED
  BY <1>5, <1>7, <1>8 DEF l, z

LEMMA InitConvergence ==
  ASSUME ConvergenceSetting, NEW bound \in Nat, Init, rounds = 0, StartsWithin(bound)
  PROVE  ConvergenceInv(bound)
<1>1. /\ TypeOK /\ phase = "trigger" /\ synchronization_round = 0
      /\ \A s \in RightServers : reference_time_type[s] = "ON"
  BY InitTypeOK DEF Init, RightServers
<1>2. bound <= Limit(bound, 0, 0)
  <2>1. alg_v = "V4" /\ 0 \in 0..(g - 1) /\ 0 \in Nat
    BY DEF ConvergenceSetting
  <2>2. Gain \in Int
    BY <2>1, LimitsAreNat DEF Gain, Margin
  <2>3. Excess(bound, 0, 0) = bound - 0 * Gain + 0 /\ 0 * Gain = 0
    BY <2>2 DEF Excess
  <2> QED
    BY <2>3 DEF Limit
<1>3. Limit(bound, 0, 0) \in Int
  <2>1. alg_v = "V4" /\ 0 \in 0..(g - 1) /\ 0 \in Nat
    BY DEF ConvergenceSetting
  <2> DEFINE q == (0 + 1) % g
             m == IF q = 0 THEN 0 + 1 ELSE 0
  <2> HIDE DEF q, m
  <2>2. q = (0 + 1) % g /\ m = IF q = 0 THEN 0 + 1 ELSE 0
    BY DEF q, m
  <2> QED
    BY <2>1, <2>2, LimitStep
<1>4. ASSUME NEW s \in RightServers PROVE Shrinking(bound, s)
  <2>1. Abs(err[s]) <= bound /\ err[s] \in Int
    BY <1>1 DEF StartsWithin, TypeOK, RightServers
  <2>2. Abs(err[s]) \in Int
    BY <2>1 DEF Abs
  <2>3. Abs(err[s]) <= Limit(bound, 0, 0)
    BY <1>2, <1>3, <2>1, <2>2
  <2> QED
    BY <1>1, <2>3 DEF Shrinking
<1> QED
  BY <1>1, <1>4 DEF ConvergenceInv

\* A local correction by a right reference.
LEMMA ClippedAway ==
  ASSUME NEW e \in Int, NEW limit \in Nat, Abs(e) <= limit
  PROVE  Abs(e + Clip(-e, MaxLocalCorrection)) <= Left(limit)
<1> DEFINE x == -e
           max == MaxLocalCorrection
<1>1. x \in Int /\ max \in Nat
  BY LimitsAreNat
<1>2. /\ -max <= x /\ x <= max => Clip(x, max) = x
      /\ x > max => Clip(x, max) = max
      /\ x < -max => Clip(x, max) = -max
  BY <1>1, ClipIsBetween
<1>3. Left(limit) = IF limit <= max THEN 0 ELSE limit - max
  BY DEF Left
<1>4. e = -x /\ x <= limit /\ -x <= limit
  BY DEF Abs
<1>5. e + Clip(x, max) <= Left(limit) /\ -(e + Clip(x, max)) <= Left(limit)
      /\ e + Clip(x, max) \in Int
  <2> HIDE DEF x, max
  <2>1. CASE -max <= x /\ x <= max
    BY <1>1, <1>2, <1>3, <1>4, <2>1
  <2>2. CASE x > max
    BY <1>1, <1>2, <1>3, <1>4, <2>2
  <2>3. CASE x < -max
    BY <1>1, <1>2, <1>3, <1>4, <2>3
  <2> QED
    BY <1>1, <2>1, <2>2, <2>3
<1> QED
  BY <1>5 DEF Abs

LEMMA TriggerConvergence ==
  ASSUME ConvergenceSetting, NEW bound \in Nat, ConvergenceInv(bound), TypeOK',
         TriggerCoreTimeSyncAlgo, rounds' = rounds
  PROVE  ConvergenceInv(bound)'
<1> DEFINE r == synchronization_round
<1>1. /\ alg_v = "V4" /\ phase = "trigger" /\ TypeOK /\ r \in 0..(g - 1) /\ rounds \in Nat
      /\ err' = [s \in Servers |-> err[s] + Clip(Loff(s), MaxLocalCorrection)]
      /\ r' = (r + 1) % g
      /\ reference_time_type' = reference_time_type
      /\ IF r = 0 THEN phase' = "exchange" /\ measured' = err' ELSE phase' = "idle"
  BY DEF ConvergenceSetting, ConvergenceInv, TypeOK, TriggerCoreTimeSyncAlgo,
         CorrectsLocally, NextRound
<1> DEFINE m == IF r' = 0 THEN rounds + 1 ELSE rounds
<1>2. /\ Limit(bound, rounds, r) \in Nat /\ Left(Limit(bound, rounds, r)) \in Nat
      /\ Limit(bound, m, r') \in Nat
      /\ Left(Limit(bound, rounds, r)) + max_drift <= Limit(bound, m, r')
  BY <1>1, LimitStep
<1>3. ASSUME NEW s \in RightServers
      PROVE  Abs(err'[s]) <= Left(Limit(bound, rounds, r)) /\ Abs(err'[s]) \in Int
  <2>1. s \in Servers /\ err[s] \in Int /\ err'[s] \in Int /\ reference_time_type[s] = "ON"
    BY <1>1 DEF ConvergenceInv, TypeOK, RightServers
  <2>2. err'[s] = err[s] + Clip(-err[s], MaxLocalCorrection)
    <3>1. Loff(s) = -err[s]
      BY <2>1 DEF Loff, ReferenceError
    <3> QED
      BY <1>1, <2>1, <3>1
  <2>3. Abs(err[s]) <= Limit(bound, rounds, r)
    BY <1>1 DEF ConvergenceInv, Shrinking
  <2>4. Abs(err'[s]) <= Left(Limit(bound, rounds, r))
    BY <1>2, <2>1, <2>2, <2>3, ClippedAway
  <2> QED
    BY <2>1, <2>4 DEF Abs
<1>4. ASSUME NEW s \in RightServers PROVE Shrinking(bound, s)'
  <2>1. CASE r = 0
    <3>1. phase' = "exchange" /\ measured'[s] = err'[s]
      BY <1>1, <2>1
    <3>2. Abs(err'[s]) <= Left(Limit(bound, rounds, 0))'
      BY <1>3, <2>1 DEF Left, Limit, Excess, Gain, Margin, MaxLocalCorrection
    <3> QED
      BY <3>1, <3>2 DEF Shrinking
  <2>2. CASE r # 0
    <3>1. phase' = "idle" /\ Coming' = m
      BY <1>1, <2>2 DEF Coming
    <3>2. RestOfDrift' \in Nat /\ RestOfDrift' <= max_drift
      BY DEF RestOfDrift
    <3>3. Abs(err'[s]) + RestOfDrift' <= Limit(bound, m, r')
      <4> DEFINE a == Abs(err'[s])
                 l == Left(Limit(bound, rounds, r))
                 z == Limit(bound, m, r')
                 d == RestOfDrift'
      <4>1. a <= l /\ a \in Int /\ l \in Nat /\ z \in Nat /\ l + max_drift <= z
            /\ d \in Nat /\ d <= max_drift
        BY <1>2, <1>3, <3>2
      <4> HIDE DEF a, l, z, d
      <4>2. a + d <= z
        BY <4>1
      <4> QED
        BY <4>2 DEF a, d, z
    <3>4. Limit(bound, Coming, synchronization_round)' = Limit(bound, m, r')
      BY <3>1 DEF Limit, Excess, Gain, Margin, MaxLocalCorrection
    <3> QED
      BY <3>1, <3>3, <3>4 DEF Shrinking
  <2> QED
    BY <2>1, <2>2
<1>5. phase' \in {"exchange", "continue"} => r' = 1 % g
  BY <1>1
<1> QED
  BY <1>1, <1>4, <1>5 DEF ConvergenceInv

\* The drift while requests and answers travel.
LEMMA ExchangeConvergence ==
  ASSUME ConvergenceSetting, NEW bound \in Nat, ConvergenceInv(bound), TypeOK',
         ExchangePasses, rounds' = rounds
  PROVE  ConvergenceInv(bound)'
<1>1. /\ TypeOK /\ rounds \in Nat /\ synchronization_round = 1 % g
      /\ phase = "exchange" /\ phase' = "continue" /\ pending' = Servers
      /\ AdvanceLocalTime(window_drift)
      /\ UNCHANGED <<reference_time_type, synchronization_round, measured>>
  BY DEF ConvergenceInv, ExchangePasses
<1>2. ASSUME NEW s \in RightServers PROVE Shrinking(bound, s)'
  <2>1. s \in Servers /\ err[s] \in Int
    BY <1>1 DEF TypeOK, RightServers
  <2>2. measured[s] = err[s] /\ Abs(err[s]) <= Left(Limit(bound, rounds, 0))
    BY <1>1 DEF ConvergenceInv, Shrinking
  <2>3. PICK d \in (-window_drift)..window_drift : err'[s] = err[s] + d
    BY <1>1, <2>1 DEF AdvanceLocalTime
  <2>4. Abs(err'[s] - measured'[s]) <= window_drift
    BY <1>1, <2>1, <2>2, <2>3 DEF Abs
  <2>5. Abs(measured'[s]) <= Left(Limit(bound, rounds, 0))'
    BY <1>1, <2>2 DEF Left, Limit, Excess, Gain, Margin, MaxLocalCorrection
  <2> QED
    BY <1>1, <2>1, <2>4, <2>5 DEF Shrinking
<1> QED
  BY <1>1, <1>2 DEF ConvergenceInv

\* The drift of the rest of a period.
LEMMA PeriodConvergence ==
  ASSUME ConvergenceSetting, NEW bound \in Nat, ConvergenceInv(bound), TypeOK',
         PeriodPasses, rounds' = Coming
  PROVE  ConvergenceInv(bound)'
<1>1. /\ TypeOK /\ rounds \in Nat /\ phase = "idle" /\ phase' = "trigger"
      /\ AdvanceLocalTime(RestOfDrift)
      /\ UNCHANGED <<reference_time_type, synchronization_round>>
      /\ synchronization_round \in 0..(g - 1) /\ alg_v = "V4"
  BY DEF ConvergenceSetting, ConvergenceInv, PeriodPasses, TypeOK
<1>2. rounds' \in Nat
  BY <1>1 DEF Coming
<1>3. Limit(bound, rounds', synchronization_round) \in Nat
  BY <1>1, <1>2, LimitStep
<1>4. ASSUME NEW s \in RightServers PROVE Shrinking(bound, s)'
  <2> DEFINE e == err[s]
             rest == RestOfDrift
             l == Limit(bound, rounds', synchronization_round)
  <2>1. s \in Servers /\ e \in Int /\ rest \in Nat /\ l \in Nat
    BY <1>1, <1>3, RestOfDriftIsNat DEF TypeOK, RightServers
  <2>2. Abs(e) + rest <= l
    BY <1>1 DEF ConvergenceInv, Shrinking
  <2>3. PICK d \in (-rest)..rest : err'[s] = e + d
    BY <1>1, <2>1 DEF AdvanceLocalTime
  <2> HIDE DEF e, rest, l
  <2>4. Abs(err'[s]) <= l
    BY <2>1, <2>2, <2>3 DEF Abs
  <2>5. Limit(bound, rounds, synchronization_round)' = l
    BY <1>1 DEF Limit, Excess, Gain, Margin, MaxLocalCorrection, l
  <2> QED
    BY <1>1, <2>4, <2>5 DEF Shrinking
<1> QED
  BY <1>1, <1>2, <1>4 DEF ConvergenceInv

\* A global synchronisation: the right clocks agree within what is left of their
\* errors, and the wrong ones cannot pull one of them out of that.
LEMMA GlobalCorrectionShrinks ==
  ASSUME ConvergenceSetting, NEW bound \in Nat, ConvergenceInv(bound), NEW s \in pending,
         s \in RightServers,
         NEW error \in [Servers \ {s} -> (-measurement_error)..measurement_error],
         NEW missing \in SUBSET {p \in Servers : <<s, p>> \in Pathless},
         ContinueGlobalTimeSync(s, error, missing)
  PROVE  Abs(err'[s]) <= LeftByGlobal(Left(Limit(bound, rounds, 0)))
<1> DEFINE off == Offsets(s, error, missing)
           B == MaliciousReferences
           left == Left(Limit(bound, rounds, 0))
<1>1. /\ alg_v = "V4" /\ TypeOK /\ s \in Servers /\ phase = "continue"
      /\ B \in SUBSET Servers /\ Cardinality(B) <= f
      /\ OwnOffset(s) = 0 /\ rounds \in Nat
      /\ err[s] \in Int /\ measured[s] \in Int
  BY DEF ConvergenceSetting, ConvergenceInv, TypeOK, ContinueGlobalTimeSync, OwnOffset
<1>2. left \in Nat
  <2>1. 0 \in 0..(g - 1)
    OBVIOUS
  <2> QED
    BY <1>1, <2>1, LimitStep
<1>3. PICK goff \in Goff(off) :
        goff \in Int /\ err'[s] = err[s] + Clip(Correction(0, goff), MaxGlobalCorrection)
  BY <1>1, ContinueEffect
<1>4. off \in [Servers -> Int]
  BY <1>1, OffsetsAreInt
<1>5. PICK p1 \in Servers \ B, q1 \in Servers \ B : off[p1] <= goff /\ goff <= off[q1]
  BY <1>1, <1>4, GoffInRange
<1>5a. /\ off[s] = 0
       /\ \A p \in Servers \ {s} :
            \/ off[p] = 0
            \/ /\ off[p] >= measured[p] - measured[s] - measurement_error
               /\ off[p] <= measured[p] - measured[s] + measurement_error
  <2>1. /\ off[s] = OwnOffset(s)
        /\ \A p \in Servers \ {s} :
             \/ p \in missing /\ off[p] = OwnOffset(s)
             \/ /\ p \notin missing
                /\ off[p] >= measured[p] - measured[s] - measurement_error
                /\ off[p] <= measured[p] - measured[s] + measurement_error
    BY ONLY <1>1, OffsetsAreInt,
            error \in [Servers \ {s} -> (-measurement_error)..measurement_error] DEF off
  <2> HIDE DEF off, left
  <2> QED
    BY <1>1, <2>1
<1>6. \A p \in RightServers : measured[p] \in Int /\ Abs(measured[p]) <= left
  BY <1>1 DEF ConvergenceInv, Shrinking, TypeOK, RightServers
<1>7. Abs(err[s] - measured[s]) <= window_drift
  BY <1>1 DEF ConvergenceInv, Shrinking
<1> DEFINE m == measured[s]
           e == err[s]
<1>8. ASSUME NEW p \in Servers \ B
      PROVE  off[p] \in Int /\ -left - measurement_error - m <= off[p]
             /\ off[p] <= left + measurement_error - m
  <2> DEFINE v == off[p]
             w == measured[p]
  <2>1. /\ v \in Int /\ m \in Int /\ w \in Int /\ -left <= m /\ m <= left
        /\ -left <= w /\ w <= left
    <3>1. p \in RightServers
      BY DEF RightServers
    <3> QED
      BY <1>1, <1>2, <1>4, <1>6, <3>1 DEF Abs
  <2>2. \/ v = 0
        \/ v >= w - m - measurement_error /\ v <= w - m + measurement_error
    <3>1. CASE p = s
      BY <1>5a, <3>1
    <3>2. CASE p # s
      <4>1. p \in Servers \ {s}
        BY <3>2
      <4> QED
        BY <1>5a, <4>1, Zenon
    <3> QED
      BY <3>1, <3>2
  <2> HIDE DEF v, w, m, left
  <2>3. -left - measurement_error - m <= v /\ v <= left + measurement_error - m
    BY <1>2, <2>1, <2>2 DEF left
  <2> QED
    BY <2>1, <2>3 DEF v
<1>9. -left - measurement_error - m <= goff /\ goff <= left + measurement_error - m
  <2> DEFINE low == off[p1]
             high == off[q1]
  <2>1. /\ low \in Int /\ high \in Int /\ low <= goff /\ goff <= high
        /\ -left - measurement_error - m <= low /\ high <= left + measurement_error - m
    BY <1>5, <1>8
  <2> HIDE DEF low, high, m, left
  <2> QED
    BY <1>1, <1>2, <1>3, <2>1 DEF m, left
<1>10. /\ m \in Int /\ -left <= m /\ m <= left
       /\ e \in Int /\ -window_drift <= e - m /\ e - m <= window_drift
  BY <1>1, <1>2, <1>6, <1>7 DEF Abs
<1>11. \/ Correction(0, goff) = goff /\ Abs(goff) > global_cut_off
       \/ Correction(0, goff) = 0
  <2>1. Abs(0 - goff) = Abs(goff) /\ Abs(goff) \in Int
    BY <1>3 DEF Abs
  <2>2. Correction(0, goff) = IF Abs(0 - goff) <= global_cut_off THEN 0 ELSE goff
    BY <1>1 DEF Correction
  <2> HIDE DEF off, left
  <2> QED
    BY <1>3, <2>1, <2>2
<1>12. MaxGlobalCorrection \in Nat
  BY LimitsAreNat
<1> DEFINE c == Clip(Correction(0, goff), MaxGlobalCorrection)
<1>13. /\ c \in Int
       /\ (0 <= c /\ c <= goff) \/ (goff <= c /\ c <= 0) \/ c = 0
       /\ left = 0 => c = 0
  <2> HIDE DEF off, left, m, e
  <2>1. CASE Correction(0, goff) = 0
    <3>1. Clip(0, MaxGlobalCorrection) = 0
      BY <1>12, ClipIsBetween
    <3> QED
      BY <2>1, <3>1
  <2>2. CASE Correction(0, goff) = goff /\ Abs(goff) > global_cut_off
    <3>1. /\ Clip(goff, MaxGlobalCorrection) \in Int
          /\ goff >= 0 => /\ 0 <= Clip(goff, MaxGlobalCorrection)
                          /\ Clip(goff, MaxGlobalCorrection) <= goff
          /\ goff <= 0 => /\ goff <= Clip(goff, MaxGlobalCorrection)
                          /\ Clip(goff, MaxGlobalCorrection) <= 0
      BY <1>3, <1>12, ClipIsBetween
    <3>2. left # 0
      <4>1. measurement_error <= global_cut_off
        BY DEF ConvergenceSetting
      <4> QED
        BY <1>3, <1>9, <1>10, <2>2, <4>1 DEF Abs
    <3> QED
      BY <1>3, <2>2, <3>1, <3>2
  <2> QED
    BY <1>11, <2>1, <2>2
<1>14. err'[s] = e + c
  BY <1>3
<1> HIDE DEF off, left, m, e, c
<1>15. LeftByGlobal(left) =
         IF left = 0 THEN window_drift ELSE left + measurement_error + window_drift
  BY DEF LeftByGlobal
<1>16. e + c <= LeftByGlobal(left) /\ -(e + c) <= LeftByGlobal(left)
  <2>1. left \in Nat
    BY <1>2 DEF left
  <2>2. CASE left = 0
    BY <1>10, <1>13, <1>15, <2>1, <2>2
  <2>3. CASE left # 0
    BY <1>3, <1>9, <1>10, <1>13, <1>15, <2>1, <2>3
  <2> QED
    BY <2>2, <2>3
<1>17. Abs(err'[s]) <= LeftByGlobal(left)
  BY <1>10, <1>13, <1>14, <1>16 DEF Abs
<1> QED
  BY <1>17 DEF left

LEMMA ContinueConvergence ==
  ASSUME ConvergenceSetting, NEW bound \in Nat, ConvergenceInv(bound), TypeOK',
         NEW s \in pending,
         NEW error \in [Servers \ {s} -> (-measurement_error)..measurement_error],
         NEW missing \in SUBSET {p \in Servers : <<s, p>> \in Pathless},
         ContinueGlobalTimeSync(s, error, missing), rounds' = rounds
  PROVE  ConvergenceInv(bound)'
<1>1. /\ alg_v = "V4" /\ TypeOK /\ s \in Servers /\ rounds \in Nat
      /\ phase = "continue" /\ pending' = pending \ {s}
      /\ IF pending = {s} THEN phase' = "idle" ELSE phase' = "continue" /\ measured' = measured
      /\ synchronization_round = 1 % g
      /\ UNCHANGED <<synchronization_round, reference_time_type>>
  BY DEF ConvergenceSetting, ConvergenceInv, TypeOK, ContinueGlobalTimeSync
<1> DEFINE left == Left(Limit(bound, rounds, 0))
           q == synchronization_round
           m == IF q = 0 THEN rounds + 1 ELSE rounds
<1>2. /\ left \in Nat /\ Limit(bound, m, q) \in Nat
      /\ LeftByGlobal(left) + (max_drift - window_drift) <= Limit(bound, m, q)
  <2>1. 0 \in 0..(g - 1) /\ q = (0 + 1) % g
    BY <1>1
  <2> QED
    BY <1>1, <2>1, LimitStep
<1>3. \A p \in Servers \ {s} : err'[p] = err[p]
  BY <1>1, ContinueEffect
<1>4. left' = left /\ LeftByGlobal(left)' = LeftByGlobal(left)
  BY <1>1 DEF LeftByGlobal, Left, Limit, Excess, Gain, Margin, MaxLocalCorrection
<1> HIDE DEF left
<1>5. ASSUME NEW p \in RightServers PROVE Shrinking(bound, p)'
  <2>1. p \in Servers /\ err'[p] \in Int
    BY DEF TypeOK, RightServers
  <2>2. p \notin pending' => Abs(err'[p]) <= LeftByGlobal(left)
    <3>1. CASE p = s
      BY <3>1, GlobalCorrectionShrinks DEF left
    <3>2. CASE p # s
      BY <1>1, <1>3, <2>1, <3>2 DEF ConvergenceInv, Shrinking, left
    <3> QED
      BY <3>1, <3>2
  <2>3. CASE pending = {s}
    <3>1. phase' = "idle" /\ p \notin pending' /\ Coming' = m
      BY <1>1, <2>3 DEF Coming
    <3>2. RestOfDrift' = max_drift - window_drift
      BY <1>1 DEF RestOfDrift
    <3>3. Abs(err'[p]) + RestOfDrift' <= Limit(bound, m, q)
      <4> DEFINE a == Abs(err'[p])
                 z == Limit(bound, m, q)
                 lg == LeftByGlobal(left)
      <4>1. /\ a <= lg /\ a \in Int /\ lg \in Int /\ z \in Nat
            /\ lg + (max_drift - window_drift) <= z
        BY <1>2, <2>1, <2>2, <3>1 DEF Abs, LeftByGlobal
      <4> HIDE DEF a, z, lg
      <4>2. a + (max_drift - window_drift) <= z
        BY <4>1
      <4> QED
        BY <3>2, <4>2 DEF a, z
    <3>4. Limit(bound, Coming, synchronization_round)' = Limit(bound, m, q)
      BY <1>1, <3>1 DEF Limit, Excess, Gain, Margin, MaxLocalCorrection
    <3> QED
      BY <3>1, <3>3, <3>4 DEF Shrinking
  <2>4. CASE pending # {s}
    <3>1. phase' = "continue" /\ measured' = measured
      BY <1>1, <2>4
    <3>2. Abs(measured'[p]) <= left'
      BY <1>1, <1>4, <3>1 DEF ConvergenceInv, Shrinking, left
    <3>3. CASE p \in pending'
      <4>1. p \in pending /\ err'[p] = err[p]
        BY <1>1, <1>3, <2>1, <3>3
      <4>2. Abs(err'[p] - measured'[p]) <= window_drift
        BY <1>1, <3>1, <4>1 DEF ConvergenceInv, Shrinking
      <4> QED
        BY <3>1, <3>2, <3>3, <4>2 DEF Shrinking, left
    <3>4. CASE p \notin pending'
      BY <1>4, <2>2, <3>1, <3>2, <3>4 DEF Shrinking, left
    <3> QED
      BY <3>3, <3>4
  <2> QED
    BY <2>3, <2>4
<1>6. \A p \in RightServers : reference_time_type'[p] = "ON"
  BY <1>1 DEF ConvergenceInv
<1> QED
  BY <1>1, <1>5, <1>6 DEF ConvergenceInv

LEMMA NextConvergence ==
  ASSUME ConvergenceSetting, NEW bound \in Nat, ConvergenceInv(bound),
         [Next]_vars, [CountsRounds]_<<vars, rounds>>
  PROVE  ConvergenceInv(bound)'
<1>1. TypeOK /\ TypeOK' /\ rounds \in Nat
  BY NextTypeOK DEF ConvergenceInv
<1>2. /\ phase # "idle" \/ phase' # "trigger" => rounds' = rounds
      /\ phase = "idle" /\ phase' = "trigger" => rounds' = Coming
  BY <1>1 DEF CountsRounds, Coming, vars
<1>3. CASE TriggerCoreTimeSyncAlgo
  <2>1. rounds' = rounds
    BY <1>2, <1>3 DEF TriggerCoreTimeSyncAlgo
  <2> QED
    BY <1>1, <1>3, <2>1, TriggerConvergence
<1>4. CASE ExchangePasses
  <2>1. rounds' = rounds
    BY <1>2, <1>4 DEF ExchangePasses
  <2> QED
    BY <1>1, <1>4, <2>1, ExchangeConvergence
<1>5. CASE PeriodPasses
  <2>1. rounds' = Coming
    BY <1>2, <1>5 DEF PeriodPasses
  <2> QED
    BY <1>1, <1>5, <2>1, PeriodConvergence
<1>6. ASSUME NEW s \in pending,
             NEW error \in [Servers \ {s} -> (-measurement_error)..measurement_error],
             NEW missing \in SUBSET {p \in Servers : <<s, p>> \in Pathless},
             ContinueGlobalTimeSync(s, error, missing)
      PROVE  ConvergenceInv(bound)'
  <2>1. rounds' = rounds
    BY <1>2, <1>6 DEF ContinueGlobalTimeSync
  <2> QED
    BY <1>1, <1>6, <2>1, ContinueConvergence
<1>7. ~ TimeReferencesChange("OFF") /\ ~ TimeReferencesChange("ON")
  BY <1>1 DEF TimeReferencesChange, ConvergenceSetting, TypeOK
<1>8. CASE UNCHANGED vars
  <2>1. UNCHANGED <<phase, synchronization_round, reference_time_type, err, measured, pending>>
    BY <1>8 DEF vars
  <2>2. rounds' = rounds
    BY <1>2, <2>1
  <2>3. ASSUME NEW s \in RightServers PROVE Shrinking(bound, s)'
    <3>1. Shrinking(bound, s)
      BY DEF ConvergenceInv
    <3> QED
      BY <2>1, <2>2, <3>1
         DEF Shrinking, Coming, RestOfDrift, LeftByGlobal, Left, Limit, Excess, Gain, Margin,
             MaxLocalCorrection
  <2> QED
    BY <1>1, <2>1, <2>2, <2>3 DEF ConvergenceInv
<1> QED
  BY <1>3, <1>4, <1>5, <1>6, <1>7, <1>8 DEF Next

\* In every phase of a round the error is at most that of its start and a measurement
\* error, and at most the drift of a period once it has been that.
LEMMA ShrinkingSuffices ==
  ASSUME ConvergenceSetting, NEW bound \in Nat, ConvergenceInv(bound), NEW s \in RightServers
  PROVE  Abs(err[s]) <= ErrorAfter(bound, rounds)
<1>1. /\ alg_v = "V4" /\ TypeOK /\ rounds \in Nat /\ s \in Servers
      /\ synchronization_round \in 0..(g - 1) /\ 0 \in 0..(g - 1)
      /\ err[s] \in Int /\ measured[s] \in Int
      /\ phase \in {"trigger", "exchange", "continue", "idle"}
  BY DEF ConvergenceSetting, ConvergenceInv, TypeOK, RightServers
<1> DEFINE x == bound - rounds * Gain
           r == synchronization_round
           y == Excess(bound, rounds, r)
           z == Excess(bound, rounds + 1, 0)
           top == ErrorAfter(bound, rounds)
<1>2. /\ x \in Int /\ y \in Int /\ z = x - Gain /\ z \in Int
      /\ y <= x + measurement_error
      /\ Excess(bound, rounds, 0) = x /\ Gain \in Nat
  <2>1. Gain >= 0
    BY DEF ConvergenceSetting
  <2>2. /\ Gain \in Int /\ x \in Int /\ Excess(bound, rounds, 0) = x /\ y \in Int
        /\ y <= x + measurement_error /\ z \in Int /\ z = x - Gain
    <3>1. /\ Excess(bound, rounds, 0) = x /\ x \in Int
          /\ y \in Int /\ z \in Int /\ z = x - Gain
          /\ y <= x + measurement_error /\ Gain \in Int
      BY <1>1, ExcessInRound
    <3> QED
      BY <3>1, Zenon
  <2> HIDE DEF x, y, z
  <2> QED
    BY <2>1, <2>2
<1>3. MaxLocalCorrection \in Nat /\ max_drift <= MaxLocalCorrection
  BY <1>1, LimitsOfV4, LimitsAreNat
<1>4. /\ Limit(bound, rounds, r) = IF x <= max_drift \/ y <= max_drift THEN max_drift ELSE y
      /\ Limit(bound, rounds, 0) = IF x <= max_drift THEN max_drift ELSE x
      /\ Limit(bound, rounds + 1, 0) = IF z <= max_drift THEN max_drift ELSE z
      /\ top = IF x <= max_drift THEN max_drift ELSE x + measurement_error
  BY <1>2 DEF Limit, ErrorAfter
<1> DEFINE l == Limit(bound, rounds, r)
           l0 == Limit(bound, rounds, 0)
           l1 == Limit(bound, rounds + 1, 0)
<1> HIDE DEF x, y, z, top, l, l0, l1
<1>5. /\ l \in Nat /\ l0 \in Nat /\ l1 \in Nat /\ top \in Nat
      /\ l <= top /\ l0 <= top /\ l1 <= top
      /\ max_drift <= top
  BY <1>2, <1>4 DEF l, l0, l1
<1>6. /\ Left(l0) \in Nat /\ Left(l0) <= l0
      /\ Left(l0) + window_drift <= top /\ LeftByGlobal(Left(l0)) <= top
      /\ LeftByGlobal(Left(l0)) \in Nat
  <2>1. Left(l0) = IF l0 <= MaxLocalCorrection THEN 0 ELSE l0 - MaxLocalCorrection
    BY DEF Left
  <2>2. l0 = IF x <= max_drift THEN max_drift ELSE x
    BY <1>4 DEF l0
  <2>3. Left(l0) \in Nat /\ Left(l0) <= l0 /\ Left(l0) + window_drift <= top
    BY <1>2, <1>3, <1>4, <1>5, <2>1, <2>2
  <2>4. LeftByGlobal(Left(l0)) \in Nat /\ LeftByGlobal(Left(l0)) <= top
    BY <1>2, <1>3, <1>4, <1>5, <2>1, <2>2, <2>3 DEF LeftByGlobal
  <2> QED
    BY <2>3, <2>4
<1>7. Shrinking(bound, s) /\ Abs(err[s]) \in Nat
  BY <1>1 DEF ConvergenceInv, Abs
<1>8. CASE phase = "trigger"
  <2>1. Abs(err[s]) <= l
    BY <1>7, <1>8 DEF Shrinking, l
  <2> QED
    BY <1>5, <1>7, <2>1 DEF top
<1>9. CASE phase = "exchange"
  <2>1. Abs(err[s]) <= Left(l0)
    BY <1>7, <1>9 DEF Shrinking, l0
  <2> QED
    BY <1>5, <1>6, <1>7, <2>1 DEF top
<1>10. CASE phase = "continue"
  <2>1. \/ Abs(measured[s]) <= Left(l0) /\ Abs(err[s] - measured[s]) <= window_drift
        \/ Abs(err[s]) <= LeftByGlobal(Left(l0))
    BY <1>7, <1>10 DEF Shrinking, l0
  <2> DEFINE e == err[s]
             d == measured[s]
             left == Left(l0)
  <2>2. e \in Int /\ d \in Int /\ left \in Nat
    BY <1>1, <1>6
  <2>3. \/ Abs(d) <= left /\ Abs(e - d) <= window_drift
        \/ Abs(e) <= LeftByGlobal(left)
    BY <2>1
  <2>4. left + window_drift <= top /\ LeftByGlobal(left) <= top /\ LeftByGlobal(left) \in Nat
    BY <1>6
  <2> HIDE DEF e, d, left
  <2>5. Abs(e) <= top
    BY <1>5, <2>2, <2>3, <2>4 DEF Abs
  <2> QED
    BY <2>5 DEF e, top
<1>11. CASE phase = "idle"
  <2>1. Abs(err[s]) + RestOfDrift <= l \/ Abs(err[s]) + RestOfDrift <= l1
    <3>1. Abs(err[s]) + RestOfDrift <= Limit(bound, Coming, r)
      BY <1>7, <1>11 DEF Shrinking
    <3>2. Coming = rounds \/ (Coming = rounds + 1 /\ r = 0)
      BY DEF Coming
    <3> QED
      BY <3>1, <3>2 DEF l, l1
  <2>2. RestOfDrift \in Nat
    BY RestOfDriftIsNat
  <2> QED
    BY <1>5, <1>7, <2>1, <2>2 DEF top
<1> QED
  BY <1>1, <1>8, <1>9, <1>10, <1>11

\* Whatever the errors at the start, every round takes Gain away from those of the
\* servers whose references are right, until they are as small as the drift of a
\* period: after as many rounds as Gain goes into the first error, all of these
\* servers are accurate, and stay so.
THEOREM V4BecomesAccurate ==
  ASSUME ConvergenceSetting, NEW CONSTANT bound \in Nat
  PROVE  CountedSpec /\ StartsWithin(bound) =>
           [](\A s \in RightServers : Abs(err[s]) <= ErrorAfter(bound, rounds))
<1>1. Init /\ rounds = 0 /\ StartsWithin(bound) => ConvergenceInv(bound)
  BY InitConvergence
<1>2. ConvergenceInv(bound) /\ [Next]_vars /\ [CountsRounds]_<<vars, rounds>>
        => ConvergenceInv(bound)'
  BY NextConvergence
<1>3. ConvergenceInv(bound) =>
        \A s \in RightServers : Abs(err[s]) <= ErrorAfter(bound, rounds)
  BY ShrinkingSuffices
<1> QED
  BY <1>1, <1>2, <1>3, PTL DEF CountedSpec, Spec
=============================================================================
