----------------------- MODULE EgressInterfaceProofs -----------------------
(***************************************************************************)
(* Theorems about EgressInterface, for any set of applications, any sizes  *)
(* of packets and any parameters of the interface.                         *)
(***************************************************************************)
EXTENDS EgressInterface, FiniteSetTheorems, TLAPS

USE InterfaceAssumption

-----------------------------------------------------------------------------
(* The inductive invariant *)

\* Everything the interface remembers lies in the past.
PastInv ==
  /\ last_update <= now /\ queue_last_updated <= now /\ last_sent <= now
  /\ \A a \in DOMAIN app_id_last_seen :
       app_id_last_seen[a] <= now /\ active_since[a] <= app_id_last_seen[a]

\* The estimate is the number of the applications it counts; each was seen
\* shortly before the last update; data since then shows in the counter, so
\* that the next update sets a timer; no packet leaves the estimate overdue;
\* a run of packets that began before the last update is counted.
EstimateInv ==
  /\ estimated_num_flows = Cardinality(counted)
  /\ \A a \in counted :
       a \in DOMAIN app_id_last_seen /\ app_id_last_seen[a] >= last_update - collection_period
  /\ \A a \in DOMAIN app_id_last_seen :
       /\ app_id_last_seen[a] > last_update => throughput_bytes > 0
       /\ app_id_last_seen[a] - last_update <= collection_period
       /\ active_since[a] < last_update => a \in counted

\* The byte counter never falls behind the packets that are under way: the
\* last of them leaves when the counter says that the queue is empty.
Front == queue_last_updated + transmission_delay * queue_length

QueueInv ==
  /\ \A e \in sending : /\ now <= e.at /\ e.at <= Front /\ e.id < packets
                        /\ e.at - last_sent >= transmission_delay * e.size
  /\ \A e, f \in sending : /\ e.id = f.id => e = f
                           /\ e.id < f.id => f.at - e.at >= transmission_delay * f.size

IInv == TypeOK /\ PastInv /\ EstimateInv /\ TimersInv /\ LossesAmongArrivals /\ QueueInv

-----------------------------------------------------------------------------
(* Arithmetic and finite sets *)

LEMMA ProductIsNat ==
  ASSUME NEW a \in Nat, NEW b \in Nat
  PROVE  a * b \in Nat
OBVIOUS

LEMMA Distributes ==
  ASSUME NEW a \in Nat, NEW b \in Nat, NEW c \in Nat
  PROVE  a * (b + c) = a * b + a * c
OBVIOUS

LEMMA ProductIsMonotone ==
  ASSUME NEW a \in Nat, NEW b \in Nat, NEW c \in Nat, b <= c
  PROVE  a * b <= a * c
OBVIOUS

LEMMA Quotient ==
  ASSUME NEW t \in Nat, NEW d \in Nat \ {0}
  PROVE  t \div d \in Nat /\ d * (t \div d) <= t
OBVIOUS

LEMMA AppsAreFinite ==
  ASSUME NEW S \in SUBSET Apps
  PROVE  /\ IsFiniteSet(S) /\ Cardinality(S) \in Nat
         /\ Cardinality(S) > 0 => S # {}
<1>1. IsFiniteSet(S)
  BY FS_Subset
<1> QED
  BY <1>1, FS_CardinalityType, FS_EmptySet

\* Draining the counter does not bring its front forward.
LEMMA DrainKeepsFront ==
  ASSUME TypeOK, PastInv
  PROVE  Drained \in Nat /\ Front <= now + transmission_delay * Drained
<1> DEFINE d == transmission_delay
           t == (now - queue_last_updated) \div transmission_delay
<1>1. /\ queue_length \in Nat /\ queue_last_updated \in Nat /\ now \in Nat
      /\ now - queue_last_updated \in Nat
  BY DEF TypeOK, PastInv
<1>2. t \in Nat /\ d * t <= now - queue_last_updated
  BY <1>1, Quotient
<1>3. Drained = IF queue_length > t THEN queue_length - t ELSE 0
  BY DEF Drained
<1> HIDE DEF t
<1>4. Drained \in Nat /\ queue_length <= Drained + t
  BY <1>1, <1>2, <1>3
<1>5. d * queue_length <= d * (Drained + t)
  BY <1>1, <1>2, <1>4, ProductIsMonotone
<1>6. d * (Drained + t) = d * Drained + d * t
  BY <1>2, <1>4, Distributes
<1>7. d * queue_length \in Nat /\ d * Drained \in Nat /\ d * t \in Nat
  BY <1>1, <1>2, <1>4, ProductIsNat
<1> QED
  BY <1>1, <1>2, <1>4, <1>5, <1>6, <1>7 DEF Front

-----------------------------------------------------------------------------
(* Types *)

LEMMA CountersAreNat ==
  ASSUME TypeOK
  PROVE  /\ Counters.throughput \in Nat /\ Counters.loss \in Nat
         /\ Counters.arrived \in Nat /\ Counters.lost \in Nat
         /\ UpdateDue => Counters = [throughput |-> 0, loss |-> 0, arrived |-> 0, lost |-> 0]
         /\ ~UpdateDue => Counters = [throughput |-> throughput_bytes, loss |-> loss_bytes,
                                      arrived |-> arrived_packets, lost |-> lost_packets]
BY DEF Counters, TypeOK

LEMMA EstimateType ==
  ASSUME TypeOK, UpdateEstimate
  PROVE  /\ estimated_num_flows' \in Nat /\ last_update' \in Nat /\ counted' \subseteq Apps
         /\ NextTimer \subseteq Nat
         /\ DOMAIN LastSeen \subseteq DOMAIN app_id_last_seen
         /\ LastSeen \in [DOMAIN LastSeen -> Nat]
         /\ \A a \in DOMAIN LastSeen : LastSeen[a] = app_id_last_seen[a]
<1>1. Remaining \subseteq Apps
  BY DEF Remaining, TypeOK
<1>2. estimated_num_flows' \in Nat
  BY <1>1, AppsAreFinite DEF UpdateEstimate, estimate, TypeOK
<1>3. last_update' \in Nat /\ counted' \subseteq Apps
  BY <1>1 DEF UpdateEstimate, estimate, TypeOK
<1>4. NextTimer \subseteq Nat
  BY DEF NextTimer, TypeOK
<1>5. /\ DOMAIN LastSeen \subseteq DOMAIN app_id_last_seen
      /\ LastSeen \in [DOMAIN LastSeen -> Nat]
      /\ \A a \in DOMAIN LastSeen : LastSeen[a] = app_id_last_seen[a]
  BY DEF LastSeen, Remaining, TypeOK
<1> QED
  BY <1>2, <1>3, <1>4, <1>5

\* The part of a packet's arrival that does not depend on its kind.
LEMMA CountType ==
  ASSUME TypeOK, NEW size \in Sizes, NEW lost \in BOOLEAN, Count(size, lost)
  PROVE  /\ now' = now /\ packets' = packets + 1 /\ last_sent' = last_sent
         /\ queue_last_updated' = now
         /\ throughput_bytes' \in Nat /\ loss_bytes' \in Nat
         /\ arrived_packets' \in Nat /\ lost_packets' \in Nat
         /\ estimated_num_flows' \in Nat /\ last_update' \in Nat /\ counted' \subseteq Apps
         /\ timers' \subseteq Nat
<1>1. UpdateEstimate
  BY DEF Count
<1>2. /\ throughput_bytes' = Counters.throughput + size
      /\ arrived_packets' = Counters.arrived + 1
      /\ loss_bytes' = Counters.loss + IF lost THEN size ELSE 0
      /\ lost_packets' = Counters.lost + IF lost THEN 1 ELSE 0
  BY DEF Count
<1>3. /\ throughput_bytes' \in Nat /\ loss_bytes' \in Nat
      /\ arrived_packets' \in Nat /\ lost_packets' \in Nat
  BY <1>2, CountersAreNat
<1>4. timers' \subseteq Nat
  BY <1>1, EstimateType DEF Count, TypeOK
<1> QED
  BY <1>1, <1>3, <1>4, EstimateType DEF Count

-----------------------------------------------------------------------------
(* The estimate and its timers *)

\* A step neither forgets nor sees application a.
Kept(a) ==
  /\ a \in DOMAIN LastSeen
  /\ app_id_last_seen'[a] = app_id_last_seen[a] /\ active_since'[a] = active_since[a]

\* A step sees application a.
Refreshed(a) ==
  /\ app_id_last_seen'[a] = now /\ throughput_bytes' > 0
  /\ \/ active_since'[a] = now
     \/ /\ a \in DOMAIN app_id_last_seen /\ now - app_id_last_seen[a] <= collection_period
        /\ active_since'[a] = active_since[a]

\* What every step that may update the estimate does to it.
EstimateStep ==
  /\ UpdateEstimate
  /\ now' = now
  /\ throughput_bytes' \in Nat /\ throughput_bytes' >= Counters.throughput
  /\ DOMAIN LastSeen \subseteq DOMAIN app_id_last_seen'
  /\ \A a \in DOMAIN app_id_last_seen' : Kept(a) \/ Refreshed(a)

\* An update that leaves a flow counted has seen traffic, and the older
\* timers are at their end.
LEMMA UpdateKeepsTimers ==
  ASSUME TypeOK, PastInv, EstimateInv, TimersInv, UpdateEstimate, now' = now,
         NextTimer \subseteq timers', timers \ {now} \subseteq timers',
         timers' \subseteq timers \cup NextTimer
  PROVE  TimersInv'
<1>0. /\ now \in Nat /\ last_update \in Nat /\ timers \subseteq Nat
      /\ throughput_bytes \in Nat /\ collection_period \in Nat
      /\ \A a \in DOMAIN app_id_last_seen : app_id_last_seen[a] \in Nat
  BY DEF TypeOK
<1>1. CASE UpdateDue
  <2>1. last_update' = now /\ estimated_num_flows' = Cardinality(Remaining)
    BY <1>1 DEF UpdateEstimate
  <2>2. \A t \in timers : t = now
    BY <1>0, <1>1 DEF TimersInv, UpdateDue
  <2>3. \A t \in timers' : t = now \/ t = now + collection_period + 1
    BY <2>2 DEF NextTimer
  <2>4. ASSUME estimated_num_flows' > 0 PROVE now + collection_period + 1 \in timers'
    <3>1. Remaining \subseteq Apps
      BY DEF Remaining, TypeOK
    <3>2. PICK a : a \in Remaining
      BY <2>1, <2>4, <3>1, AppsAreFinite
    <3>3. a \in DOMAIN app_id_last_seen /\ app_id_last_seen[a] > last_update
      BY <1>0, <1>1, <3>2 DEF Remaining, UpdateDue
    <3>4. throughput_bytes > 0
      BY <3>3 DEF EstimateInv
    <3> QED
      BY <1>1, <3>4 DEF NextTimer
  <2> QED
    BY <1>0, <2>1, <2>3, <2>4 DEF TimersInv
<1>2. CASE ~UpdateDue
  <2>1. last_update' = last_update /\ estimated_num_flows' = estimated_num_flows
    BY <1>2 DEF UpdateEstimate, estimate
  <2>2. timers' \subseteq timers
    BY <1>2 DEF NextTimer
  <2>3. estimated_num_flows > 0 => last_update + collection_period + 1 \in timers'
    BY <1>0, <1>2 DEF TimersInv, UpdateDue
  <2> QED
    BY <2>1, <2>2, <2>3 DEF TimersInv
<1> QED
  BY <1>1, <1>2

\* An update counts the applications that remain; between two updates every
\* application remembered has been seen within the period.
LEMMA StepKeepsEstimate ==
  ASSUME TypeOK, PastInv, EstimateInv, EstimateStep
  PROVE  /\ EstimateInv'
         /\ last_update' <= now
         /\ \A a \in DOMAIN app_id_last_seen' :
              app_id_last_seen'[a] <= now /\ active_since'[a] <= app_id_last_seen'[a]
<1>0. /\ now \in Nat /\ last_update \in Nat /\ collection_period \in Nat
      /\ last_update <= now
      /\ \A a \in DOMAIN app_id_last_seen :
           /\ app_id_last_seen[a] \in Nat /\ active_since[a] \in Nat
           /\ app_id_last_seen[a] <= now /\ active_since[a] <= app_id_last_seen[a]
  BY DEF TypeOK, PastInv
<1>1. DOMAIN LastSeen \subseteq DOMAIN app_id_last_seen
  BY DEF LastSeen, Remaining
<1>2. ASSUME NEW a \in DOMAIN app_id_last_seen'
      PROVE  /\ app_id_last_seen'[a] \in Nat /\ active_since'[a] \in Nat
             /\ app_id_last_seen'[a] <= now /\ active_since'[a] <= app_id_last_seen'[a]
  BY <1>0, <1>1, <1>2 DEF EstimateStep, Kept, Refreshed
<1>3. CASE UpdateDue
  <2>1. /\ last_update' = now /\ counted' = Remaining
        /\ estimated_num_flows' = Cardinality(counted')
        /\ DOMAIN LastSeen = Remaining
    BY <1>3 DEF EstimateStep, UpdateEstimate, LastSeen
  <2>2. \A a \in Remaining : /\ a \in DOMAIN app_id_last_seen
                             /\ app_id_last_seen[a] >= now - collection_period
    BY <1>0 DEF Remaining
  <2>3. ASSUME NEW a \in counted'
        PROVE  /\ a \in DOMAIN app_id_last_seen'
               /\ app_id_last_seen'[a] >= last_update' - collection_period
    <3>1. a \in DOMAIN app_id_last_seen'
      BY <2>1, <2>3 DEF EstimateStep
    <3>2. Kept(a) \/ Refreshed(a)
      BY <3>1 DEF EstimateStep
    <3> QED
      BY <1>0, <2>1, <2>2, <2>3, <3>1, <3>2 DEF Kept, Refreshed
  <2>4. ASSUME NEW a \in DOMAIN app_id_last_seen'
        PROVE  /\ ~(app_id_last_seen'[a] > last_update')
               /\ app_id_last_seen'[a] - last_update' <= collection_period
    BY <1>0, <1>2, <2>1, <2>4
  <2>5. ASSUME NEW a \in DOMAIN app_id_last_seen', active_since'[a] < last_update'
        PROVE  a \in counted'
    <3>1. Kept(a) \/ Refreshed(a)
      BY <2>5 DEF EstimateStep
    <3>2. Kept(a) => a \in Remaining
      BY <2>1 DEF Kept
    <3>3. Refreshed(a) => a \in Remaining
      BY <1>0, <2>1, <2>5 DEF Refreshed, Remaining
    <3> QED
      BY <2>1, <3>1, <3>2, <3>3
  <2>6. EstimateInv'
    BY <2>1, <2>3, <2>4, <2>5 DEF EstimateInv
  <2> QED
    BY <1>0, <1>2, <2>1, <2>6
<1>4. CASE ~UpdateDue
  <2>1. /\ last_update' = last_update /\ counted' = counted
        /\ estimated_num_flows' = estimated_num_flows
        /\ LastSeen = app_id_last_seen /\ Counters.throughput = throughput_bytes
    BY <1>4 DEF EstimateStep, UpdateEstimate, estimate, LastSeen, Counters
  <2>2. now - last_update <= collection_period
    BY <1>0, <1>4 DEF UpdateDue
  <2>3. ASSUME NEW a \in counted'
        PROVE  /\ a \in DOMAIN app_id_last_seen'
               /\ app_id_last_seen'[a] >= last_update' - collection_period
    <3>1. /\ a \in DOMAIN app_id_last_seen
          /\ app_id_last_seen[a] >= last_update - collection_period
      BY <2>1, <2>3 DEF EstimateInv
    <3>2. a \in DOMAIN app_id_last_seen'
      BY <2>1, <3>1 DEF EstimateStep
    <3>3. Kept(a) \/ Refreshed(a)
      BY <3>2 DEF EstimateStep
    <3> QED
      BY <1>0, <2>1, <3>1, <3>2, <3>3 DEF Kept, Refreshed
  <2>4. ASSUME NEW a \in DOMAIN app_id_last_seen'
        PROVE  /\ app_id_last_seen'[a] > last_update' => throughput_bytes' > 0
               /\ app_id_last_seen'[a] - last_update' <= collection_period
               /\ active_since'[a] < last_update' => a \in counted'
    <3>1. throughput_bytes \in Nat /\ throughput_bytes' \in Nat
          /\ throughput_bytes' >= throughput_bytes
      BY <2>1 DEF EstimateStep, TypeOK
    <3>2. CASE Kept(a)
      <4>1. /\ app_id_last_seen[a] > last_update => throughput_bytes > 0
            /\ app_id_last_seen[a] - last_update <= collection_period
            /\ active_since[a] < last_update => a \in counted
        BY <2>1, <3>2 DEF Kept, EstimateInv
      <4>2. /\ app_id_last_seen'[a] = app_id_last_seen[a]
            /\ active_since'[a] = active_since[a]
        BY <3>2 DEF Kept
      <4> QED
        BY <2>1, <3>1, <4>1, <4>2
    <3>3. CASE Refreshed(a)
      <4>1. /\ app_id_last_seen'[a] = now /\ throughput_bytes' > 0
            /\ \/ active_since'[a] = now
               \/ a \in DOMAIN app_id_last_seen /\ active_since'[a] = active_since[a]
        BY <3>3 DEF Refreshed
      <4>2. active_since'[a] < last_update => a \in counted
        BY <1>0, <4>1 DEF EstimateInv
      <4> QED
        BY <1>0, <2>1, <2>2, <4>1, <4>2
    <3> QED
      BY <2>4, <3>2, <3>3 DEF EstimateStep
  <2>5. EstimateInv'
    BY <2>1, <2>3, <2>4 DEF EstimateInv
  <2> QED
    BY <1>0, <1>2, <2>1, <2>5
<1> QED
  BY <1>3, <1>4

-----------------------------------------------------------------------------
(* The arrival of a packet *)

\* What holds after a packet whatever its kind; QueueInv and the types of
\* the variables that depend on the kind are left to the lemmas below.
LEMMA CountKeeps ==
  ASSUME IInv, NEW size \in Sizes, NEW lost \in BOOLEAN, Count(size, lost)
  PROVE  TimersInv' /\ LossesAmongArrivals'
<1>0. TypeOK /\ PastInv /\ EstimateInv /\ TimersInv /\ LossesAmongArrivals
  BY DEF IInv
<1>1. TimersInv'
  <2>1. UpdateEstimate /\ now' = now /\ timers' = timers \cup NextTimer
    BY DEF Count
  <2> QED
    BY <1>0, <2>1, UpdateKeepsTimers
<1>2. LossesAmongArrivals'
  <2>1. /\ throughput_bytes' = Counters.throughput + size
        /\ arrived_packets' = Counters.arrived + 1
        /\ loss_bytes' = Counters.loss + IF lost THEN size ELSE 0
        /\ lost_packets' = Counters.lost + IF lost THEN 1 ELSE 0
    BY DEF Count
  <2>2. /\ Counters.loss <= Counters.throughput /\ Counters.lost <= Counters.arrived
        /\ Counters.lost = Counters.arrived => Counters.loss = Counters.throughput
    BY <1>0, CountersAreNat DEF LossesAmongArrivals
  <2>3. size \in Nat
    OBVIOUS
  <2> QED
    BY <1>0, <2>1, <2>2, <2>3, CountersAreNat DEF LossesAmongArrivals
<1> QED
  BY <1>1, <1>2

LEMMA DropKeepsQueue ==
  ASSUME IInv, NEW size \in Sizes, DropPacket(size)
  PROVE  QueueInv' /\ queue_length' \in Nat /\ sending' \subseteq SendEvents
<1>0. TypeOK /\ PastInv /\ QueueInv
  BY DEF IInv
<1>1. /\ now' = now /\ packets' = packets + 1 /\ last_sent' = last_sent
      /\ queue_last_updated' = now /\ queue_length' = Drained /\ sending' = sending
  BY DEF DropPacket, Count
<1>2. Drained \in Nat /\ Front <= now + transmission_delay * Drained
  BY <1>0, DrainKeepsFront
<1>3. Front' = now + transmission_delay * Drained
  BY <1>1 DEF Front
<1>4. transmission_delay * Drained \in Nat /\ transmission_delay * queue_length \in Nat
  BY <1>0, <1>2, ProductIsNat DEF TypeOK
<1>5. now \in Nat /\ Front \in Nat /\ Front' \in Nat /\ Front <= Front' /\ packets \in Nat
  BY <1>0, <1>2, <1>3, <1>4 DEF TypeOK, Front
<1>6. \A e \in sending : e.at \in Nat /\ e.id \in Nat
  BY <1>0 DEF TypeOK, SendEvents
<1>7. \A e \in sending : now <= e.at /\ e.at <= Front' /\ e.id < packets + 1
  BY <1>0, <1>5, <1>6 DEF QueueInv
<1>8. QueueInv'
  BY <1>0, <1>1, <1>7 DEF QueueInv
<1> QED
  BY <1>0, <1>1, <1>2, <1>8 DEF TypeOK

\* The new packet leaves last, and not before the others have left.
LEMMA ScheduleKeepsQueue ==
  ASSUME IInv, NEW size \in Sizes, SchedulePacket(size)
  PROVE  QueueInv' /\ queue_length' \in Nat /\ sending' \subseteq SendEvents
<1> DEFINE d == transmission_delay
           new == [id |-> packets, at |-> now + d * (Drained + size), size |-> size]
<1>0. TypeOK /\ PastInv /\ QueueInv
  BY DEF IInv
<1>1. /\ now' = now /\ packets' = packets + 1 /\ last_sent' = last_sent
      /\ queue_last_updated' = now /\ queue_length' = Drained + size
      /\ sending' = sending \cup {new}
  BY DEF SchedulePacket, Count
<1>2. Drained \in Nat /\ Front <= now + d * Drained
  BY <1>0, DrainKeepsFront
<1>3. size \in Nat \ {0} /\ d \in Nat
  OBVIOUS
<1>4. d * (Drained + size) = d * Drained + d * size
  BY <1>2, <1>3, Distributes
<1>5. d * Drained \in Nat /\ d * size \in Nat /\ d * queue_length \in Nat
  BY <1>0, <1>2, <1>3, ProductIsNat DEF TypeOK
<1>6. /\ now \in Nat /\ last_sent \in Nat /\ last_sent <= now /\ packets \in Nat
      /\ queue_last_updated \in Nat
      /\ \A e \in sending : e.at \in Nat /\ e.id \in Nat
  BY <1>0 DEF TypeOK, PastInv, SendEvents
<1>7. Front \in Nat
  BY <1>5, <1>6 DEF Front
<1>8. Front' = new.at
  BY <1>1 DEF Front
<1>9. /\ new.id = packets /\ new.size = size /\ new.at = now + d * Drained + d * size
      /\ new \in SendEvents
  BY <1>3, <1>4, <1>5, <1>6 DEF SendEvents
<1> HIDE DEF new, d
<1>10. new.at \in Nat /\ Front <= new.at - d * size
  BY <1>2, <1>3, <1>5, <1>6, <1>7, <1>9
<1>11. \A e \in sending : /\ now <= e.at /\ e.at <= Front /\ e.id < packets
                          /\ e.at - last_sent >= d * e.size
  BY <1>0 DEF QueueInv, d
<1>12. \A e \in sending : e.at <= new.at /\ new.at - e.at >= d * new.size
  BY <1>5, <1>6, <1>7, <1>9, <1>10, <1>11
<1>13. now <= new.at /\ new.at - last_sent >= d * new.size
  BY <1>2, <1>5, <1>6, <1>9
<1>14. ASSUME NEW e \in sending'
       PROVE  /\ now' <= e.at /\ e.at <= Front' /\ e.id < packets'
              /\ e.at - last_sent' >= transmission_delay * e.size
  <2>1. CASE e = new
    BY <1>1, <1>6, <1>8, <1>9, <1>10, <1>13, <2>1 DEF d
  <2>2. CASE e \in sending
    <3>1. e.id < packets + 1
      BY <1>6, <1>11, <2>2
    <3> QED
      BY <1>1, <1>8, <1>11, <1>12, <2>2, <3>1 DEF d
  <2> QED
    BY <1>1, <2>1, <2>2
<1>15. ASSUME NEW e \in sending', NEW f \in sending'
       PROVE  /\ e.id = f.id => e = f
              /\ e.id < f.id => f.at - e.at >= transmission_delay * f.size
  <2>1. CASE e \in sending /\ f \in sending
    BY <1>0, <2>1 DEF QueueInv
  <2>2. CASE e \in sending /\ f = new
    BY <1>6, <1>9, <1>11, <1>12, <2>2 DEF d
  <2>3. CASE e = new /\ f \in sending
    BY <1>6, <1>9, <1>11, <2>3
  <2>4. CASE e = new /\ f = new
    BY <1>6, <1>9, <2>4
  <2> QED
    BY <1>1, <2>1, <2>2, <2>3, <2>4
<1>16. QueueInv'
  BY <1>14, <1>15 DEF QueueInv
<1> QED
  BY <1>0, <1>1, <1>2, <1>3, <1>9, <1>16 DEF TypeOK

-----------------------------------------------------------------------------
(* The actions preserve the invariant *)

\* Both outcomes of a packet, as far as its kind does not matter.
LEMMA PacketKeeps ==
  ASSUME IInv, NEW size \in Sizes, DropPacket(size) \/ SchedulePacket(size)
  PROVE  /\ TimersInv' /\ LossesAmongArrivals' /\ QueueInv'
         /\ UpdateEstimate /\ now' = now /\ packets' = packets + 1
         /\ last_sent' = last_sent /\ queue_last_updated' = now
         /\ throughput_bytes' = Counters.throughput + size
         /\ queue_length' \in Nat /\ sending' \subseteq SendEvents
         /\ throughput_bytes' \in Nat /\ loss_bytes' \in Nat
         /\ arrived_packets' \in Nat /\ lost_packets' \in Nat
         /\ estimated_num_flows' \in Nat /\ last_update' \in Nat /\ counted' \subseteq Apps
         /\ timers' \subseteq Nat
<1>0. TypeOK
  BY DEF IInv
<1>1. CASE DropPacket(size)
  <2>1. Count(size, TRUE)
    BY <1>1 DEF DropPacket
  <2>2. UpdateEstimate /\ throughput_bytes' = Counters.throughput + size
    BY <2>1 DEF Count
  <2>3. QueueInv' /\ queue_length' \in Nat /\ sending' \subseteq SendEvents
    BY <1>1, DropKeepsQueue
  <2>4. TimersInv' /\ LossesAmongArrivals'
    BY <2>1, CountKeeps
  <2> QED
    BY <1>0, <2>1, <2>2, <2>3, <2>4, CountType
<1>2. CASE SchedulePacket(size)
  <2>1. Count(size, FALSE)
    BY <1>2 DEF SchedulePacket
  <2>2. UpdateEstimate /\ throughput_bytes' = Counters.throughput + size
    BY <2>1 DEF Count
  <2>3. QueueInv' /\ queue_length' \in Nat /\ sending' \subseteq SendEvents
    BY <1>2, ScheduleKeepsQueue
  <2>4. TimersInv' /\ LossesAmongArrivals'
    BY <2>1, CountKeeps
  <2> QED
    BY <1>0, <2>1, <2>2, <2>3, <2>4, CountType
<1> QED
  BY <1>1, <1>2

\* A packet of either kind keeps the invariant, provided that it changes
\* what is remembered of the applications as an EstimateStep does.
LEMMA ArrivalKeeps ==
  ASSUME IInv, NEW size \in Sizes, DropPacket(size) \/ SchedulePacket(size),
         \A a \in DOMAIN app_id_last_seen' : Kept(a) \/ Refreshed(a),
         DOMAIN LastSeen \subseteq DOMAIN app_id_last_seen',
         DOMAIN app_id_last_seen' \subseteq Apps,
         app_id_last_seen' \in [DOMAIN app_id_last_seen' -> Nat],
         active_since' \in [Apps -> Nat]
  PROVE  IInv'
<1>0. TypeOK /\ PastInv /\ EstimateInv
  BY DEF IInv
<1>1. /\ TimersInv' /\ LossesAmongArrivals' /\ QueueInv'
      /\ UpdateEstimate /\ now' = now /\ packets' = packets + 1
      /\ last_sent' = last_sent /\ queue_last_updated' = now
      /\ throughput_bytes' = Counters.throughput + size
      /\ queue_length' \in Nat /\ sending' \subseteq SendEvents
      /\ throughput_bytes' \in Nat /\ loss_bytes' \in Nat
      /\ arrived_packets' \in Nat /\ lost_packets' \in Nat
      /\ estimated_num_flows' \in Nat /\ last_update' \in Nat /\ counted' \subseteq Apps
      /\ timers' \subseteq Nat
  BY PacketKeeps
<1>2. now \in Nat /\ packets + 1 \in Nat /\ last_sent \in Nat /\ last_sent <= now
  BY <1>0 DEF TypeOK, PastInv
<1>3. TypeOK'
  BY <1>1, <1>2 DEF TypeOK
<1>4. throughput_bytes' >= Counters.throughput
  BY <1>0, <1>1, CountersAreNat
<1>5. EstimateStep
  BY <1>1, <1>4 DEF EstimateStep
<1>6. /\ EstimateInv' /\ last_update' <= now
      /\ \A a \in DOMAIN app_id_last_seen' :
           app_id_last_seen'[a] <= now /\ active_since'[a] <= app_id_last_seen'[a]
  BY <1>0, <1>5, StepKeepsEstimate
<1>7. PastInv'
  BY <1>1, <1>2, <1>6 DEF PastInv
<1> QED
  BY <1>1, <1>3, <1>6, <1>7 DEF IInv

LEMMA DataKeepsInv ==
  ASSUME IInv, NEW app \in Apps, NEW size \in Sizes, ScheduleDataForSend(app, size)
  PROVE  IInv'
<1>0. TypeOK
  BY DEF IInv
<1>1. DropPacket(size) \/ SchedulePacket(size)
  BY DEF ScheduleDataForSend
<1>2. See(app)
  BY DEF ScheduleDataForSend
<1>3. /\ UpdateEstimate /\ throughput_bytes' = Counters.throughput + size
  BY <1>1, PacketKeeps
<1>4. throughput_bytes' > 0
  BY <1>0, <1>3, CountersAreNat
<1>5. /\ DOMAIN LastSeen \subseteq DOMAIN app_id_last_seen
      /\ LastSeen \in [DOMAIN LastSeen -> Nat]
      /\ \A a \in DOMAIN LastSeen : LastSeen[a] = app_id_last_seen[a]
  BY <1>0, <1>3, EstimateType
<1>6. now \in Nat /\ DOMAIN app_id_last_seen \subseteq Apps /\ active_since \in [Apps -> Nat]
  BY <1>0 DEF TypeOK
<1>7. app_id_last_seen' =
        [a \in DOMAIN LastSeen \cup {app} |-> IF a = app THEN now ELSE LastSeen[a]]
  BY <1>2 DEF See
<1>8. /\ DOMAIN app_id_last_seen' = DOMAIN LastSeen \cup {app}
      /\ DOMAIN app_id_last_seen' \subseteq Apps
      /\ app_id_last_seen' \in [DOMAIN app_id_last_seen' -> Nat]
  BY <1>5, <1>6, <1>7
<1>9. /\ active_since' \in [Apps -> Nat]
      /\ \A a \in Apps \ {app} : active_since'[a] = active_since[a]
      /\ \/ active_since'[app] = now
         \/ /\ app \in DOMAIN app_id_last_seen
            /\ now - app_id_last_seen[app] <= collection_period
            /\ active_since'[app] = active_since[app]
  BY <1>2, <1>6 DEF See
<1>10. Refreshed(app)
  BY <1>4, <1>7, <1>9 DEF Refreshed
<1>11. ASSUME NEW a \in DOMAIN LastSeen, a # app PROVE Kept(a)
  BY <1>5, <1>6, <1>7, <1>9, <1>11 DEF Kept
<1>12. \A a \in DOMAIN app_id_last_seen' : Kept(a) \/ Refreshed(a)
  BY <1>8, <1>10, <1>11
<1> QED
  BY <1>1, <1>8, <1>9, <1>12, ArrivalKeeps

LEMMA OtherKeepsInv ==
  ASSUME IInv, NEW size \in Sizes, ScheduleOtherForSend(size)
  PROVE  IInv'
<1>0. TypeOK
  BY DEF IInv
<1>1. DropPacket(size) \/ SchedulePacket(size)
  BY DEF ScheduleOtherForSend
<1>2. app_id_last_seen' = LastSeen /\ active_since' = active_since
  BY DEF ScheduleOtherForSend
<1>3. UpdateEstimate
  BY <1>1, PacketKeeps
<1>4. /\ DOMAIN LastSeen \subseteq DOMAIN app_id_last_seen
      /\ LastSeen \in [DOMAIN LastSeen -> Nat]
      /\ \A a \in DOMAIN LastSeen : LastSeen[a] = app_id_last_seen[a]
  BY <1>0, <1>3, EstimateType
<1>5. DOMAIN app_id_last_seen \subseteq Apps /\ active_since \in [Apps -> Nat]
  BY <1>0 DEF TypeOK
<1>6. \A a \in DOMAIN app_id_last_seen' : Kept(a) \/ Refreshed(a)
  BY <1>2, <1>4 DEF Kept
<1> QED
  BY <1>1, <1>2, <1>4, <1>5, <1>6, ArrivalKeeps

LEMMA TimerKeepsInv ==
  ASSUME IInv, EstimationTimer
  PROVE  IInv'
<1>0. TypeOK /\ PastInv /\ EstimateInv /\ TimersInv /\ LossesAmongArrivals /\ QueueInv
  BY DEF IInv
<1>1. /\ UpdateEstimate /\ timers' = (timers \ {now}) \cup NextTimer
      /\ app_id_last_seen' = LastSeen
      /\ throughput_bytes' = Counters.throughput /\ loss_bytes' = Counters.loss
      /\ arrived_packets' = Counters.arrived /\ lost_packets' = Counters.lost
  BY DEF EstimationTimer
<1>2. /\ now' = now /\ queue_length' = queue_length
      /\ queue_last_updated' = queue_last_updated /\ sending' = sending
      /\ packets' = packets /\ last_sent' = last_sent /\ active_since' = active_since
  BY DEF EstimationTimer, queue
<1>3. /\ DOMAIN LastSeen \subseteq DOMAIN app_id_last_seen
      /\ LastSeen \in [DOMAIN LastSeen -> Nat]
      /\ \A a \in DOMAIN LastSeen : LastSeen[a] = app_id_last_seen[a]
      /\ estimated_num_flows' \in Nat /\ last_update' \in Nat /\ counted' \subseteq Apps
      /\ NextTimer \subseteq Nat
  BY <1>0, <1>1, EstimateType
<1>4. /\ throughput_bytes' \in Nat /\ loss_bytes' \in Nat
      /\ arrived_packets' \in Nat /\ lost_packets' \in Nat
  BY <1>0, <1>1, CountersAreNat
<1>5. TypeOK'
  BY <1>0, <1>1, <1>2, <1>3, <1>4 DEF TypeOK
<1>6. \A a \in DOMAIN app_id_last_seen' : Kept(a) \/ Refreshed(a)
  BY <1>1, <1>2, <1>3 DEF Kept
<1>7. EstimateStep
  BY <1>1, <1>2, <1>4, <1>6 DEF EstimateStep
<1>8. /\ EstimateInv' /\ last_update' <= now
      /\ \A a \in DOMAIN app_id_last_seen' :
           app_id_last_seen'[a] <= now /\ active_since'[a] <= app_id_last_seen'[a]
  BY <1>0, <1>7, StepKeepsEstimate
<1>9. PastInv'
  BY <1>0, <1>2, <1>8 DEF PastInv
<1>10. TimersInv'
  BY <1>0, <1>1, <1>2, UpdateKeepsTimers
<1>11. LossesAmongArrivals'
  BY <1>0, <1>1, CountersAreNat DEF LossesAmongArrivals
<1>12. QueueInv'
  BY <1>0, <1>2 DEF QueueInv, Front
<1> QED
  BY <1>5, <1>8, <1>9, <1>10, <1>11, <1>12 DEF IInv

\* What a Send event does: the packets under way are those that came later.
LEMMA SendInOrder ==
  ASSUME IInv, NEW e, Send(e)
  PROVE  /\ e \in sending /\ e.at = now /\ sending' = sending \ {e}
         /\ now - last_sent >= transmission_delay * e.size
         /\ \A f \in sending' : /\ e.id < f.id
                                /\ f.at - now >= transmission_delay * f.size
<1>0. TypeOK /\ QueueInv
  BY DEF IInv
<1>1. e \in sending /\ e.at = now /\ sending' = sending \ {e}
  BY DEF Send
<1>2. \A f \in sending : f.at \in Nat /\ f.id \in Nat /\ f.size \in Nat \ {0}
  BY <1>0 DEF TypeOK, SendEvents
<1>3. ASSUME NEW f \in sending'
      PROVE  e.id < f.id /\ f.at - now >= transmission_delay * f.size
  <2>1. f \in sending /\ f # e /\ now <= f.at
    BY <1>0, <1>1, <1>3 DEF QueueInv
  <2>2. /\ e.id # f.id
        /\ e.id < f.id => f.at - e.at >= transmission_delay * f.size
        /\ f.id < e.id => e.at - f.at >= transmission_delay * e.size
    BY <1>0, <1>1, <2>1 DEF QueueInv
  <2>3. transmission_delay * e.size > 0
    <3>1. e.size \in Nat /\ e.size >= 1 /\ transmission_delay \in Nat /\ transmission_delay >= 1
      BY <1>1, <1>2
    <3>2. transmission_delay * 1 <= transmission_delay * e.size
      BY <3>1, ProductIsMonotone
    <3>3. transmission_delay * e.size \in Nat
      BY <3>1, ProductIsNat
    <3> QED
      BY <3>1, <3>2, <3>3
  <2>4. transmission_delay * e.size \in Nat
    BY <1>1, <1>2, ProductIsNat
  <2>5. ~(f.id < e.id)
    BY <1>1, <1>2, <2>1, <2>2, <2>3, <2>4
  <2> QED
    BY <1>1, <1>2, <2>1, <2>2, <2>5
<1>4. now - last_sent >= transmission_delay * e.size
  BY <1>0, <1>1 DEF QueueInv
<1> QED
  BY <1>1, <1>3, <1>4

LEMMA SendKeepsInv ==
  ASSUME IInv, NEW e, Send(e)
  PROVE  IInv'
<1>0. TypeOK /\ PastInv /\ EstimateInv /\ TimersInv /\ LossesAmongArrivals /\ QueueInv
  BY DEF IInv
<1>1. /\ sending' = sending \ {e} /\ last_sent' = now
      /\ UNCHANGED <<now, queue, counters, estimate, app_id_last_seen, timers, packets,
                     active_since>>
  BY DEF Send
<1>2. TypeOK'
  BY <1>0, <1>1 DEF TypeOK, queue, counters, estimate
<1>3. now \in Nat
  BY <1>0 DEF TypeOK
<1>4. PastInv'
  BY <1>0, <1>1, <1>3 DEF PastInv, queue, estimate
<1>5. EstimateInv' /\ TimersInv' /\ LossesAmongArrivals'
  BY <1>0, <1>1 DEF EstimateInv, TimersInv, LossesAmongArrivals, counters, estimate
<1>6. now' = now /\ packets' = packets /\ Front' = Front
  BY <1>1 DEF Front, queue
<1>7. \A f \in sending' : f.at - last_sent' >= transmission_delay * f.size
  BY <1>1, SendInOrder
<1>8. QueueInv'
  BY <1>0, <1>1, <1>6, <1>7 DEF QueueInv
<1> QED
  BY <1>2, <1>4, <1>5, <1>8 DEF IInv

LEMMA TickKeepsInv ==
  ASSUME IInv, Tick
  PROVE  IInv'
<1>0. TypeOK /\ PastInv /\ EstimateInv /\ TimersInv /\ LossesAmongArrivals /\ QueueInv
  BY DEF IInv
<1>1. /\ \A e \in sending : e.at # now
      /\ now \notin timers
      /\ now' = now + 1
      /\ UNCHANGED <<queue, sending, counters, estimate, app_id_last_seen, timers, packets,
                     last_sent, active_since>>
  BY DEF Tick
<1>2. now \in Nat /\ timers \subseteq Nat /\ \A e \in sending : e.at \in Nat
  BY <1>0 DEF TypeOK, SendEvents
<1>3. TypeOK'
  BY <1>0, <1>1 DEF TypeOK, queue, counters, estimate
<1>4. PastInv'
  <2>1. /\ last_update \in Nat /\ queue_last_updated \in Nat /\ last_sent \in Nat
        /\ \A a \in DOMAIN app_id_last_seen : app_id_last_seen[a] \in Nat
    BY <1>0 DEF TypeOK
  <2> QED
    BY <1>0, <1>1, <1>2, <2>1 DEF PastInv, queue, estimate
<1>5. EstimateInv' /\ LossesAmongArrivals'
  BY <1>0, <1>1 DEF EstimateInv, LossesAmongArrivals, counters, estimate
<1>6. TimersInv'
  <2>1. timers' = timers /\ last_update' = last_update
        /\ estimated_num_flows' = estimated_num_flows
    BY <1>1 DEF estimate
  <2>2. \A t \in timers : now + 1 <= t
    BY <1>0, <1>1, <1>2 DEF TimersInv
  <2>3. \A t \in timers : t > now + 1 => t = last_update + collection_period + 1
    BY <1>0, <1>2 DEF TimersInv
  <2> QED
    BY <1>0, <1>1, <2>1, <2>2, <2>3 DEF TimersInv
<1>7. QueueInv'
  <2>1. sending' = sending /\ packets' = packets /\ last_sent' = last_sent /\ Front' = Front
    BY <1>1 DEF Front, queue
  <2>2. \A e \in sending : now + 1 <= e.at
    BY <1>0, <1>1, <1>2 DEF QueueInv
  <2> QED
    BY <1>0, <1>1, <2>1, <2>2 DEF QueueInv
<1> QED
  BY <1>3, <1>4, <1>5, <1>6, <1>7 DEF IInv

LEMMA InitIInv == Init => IInv
<1> SUFFICES ASSUME Init PROVE IInv
  OBVIOUS
<1>1. TypeOK
  BY DEF Init, TypeOK
<1>2. PastInv /\ TimersInv /\ LossesAmongArrivals /\ QueueInv
  BY DEF Init, PastInv, TimersInv, LossesAmongArrivals, QueueInv
<1>3. EstimateInv
  BY FS_EmptySet DEF Init, EstimateInv
<1> QED
  BY <1>1, <1>2, <1>3 DEF IInv

LEMMA StutterKeepsInv ==
  ASSUME IInv, UNCHANGED vars
  PROVE  IInv'
<1>1. TypeOK' /\ PastInv'
  BY DEF IInv, TypeOK, PastInv, vars, queue, counters, estimate
<1>2. EstimateInv' /\ TimersInv' /\ LossesAmongArrivals'
  BY DEF IInv, EstimateInv, TimersInv, LossesAmongArrivals, vars, queue, counters, estimate
<1>3. QueueInv'
  BY DEF IInv, QueueInv, Front, vars, queue
<1> QED
  BY <1>1, <1>2, <1>3 DEF IInv

LEMMA NextKeepsInv ==
  ASSUME IInv, [Next]_vars
  PROVE  IInv'
<1>1. CASE Tick
  BY <1>1, TickKeepsInv
<1>2. CASE EstimationTimer
  BY <1>2, TimerKeepsInv
<1>3. ASSUME NEW app \in Apps, NEW size \in Sizes, ScheduleDataForSend(app, size)
      PROVE  IInv'
  BY <1>3, DataKeepsInv
<1>4. ASSUME NEW size \in Sizes, ScheduleOtherForSend(size)
      PROVE  IInv'
  BY <1>4, OtherKeepsInv
<1>5. ASSUME NEW e \in sending, Send(e)
      PROVE  IInv'
  BY <1>5, SendKeepsInv
<1>6. CASE UNCHANGED vars
  BY <1>6, StutterKeepsInv
<1> QED
  BY <1>1, <1>2, <1>3, <1>4, <1>5, <1>6, Zenon DEF Next

-----------------------------------------------------------------------------
(* The theorems *)

\* The invariant holds in every reachable state of an interface.
THEOREM Invariance == Spec => []IInv
<1>1. IInv /\ [Next]_vars => IInv'
  BY NextKeepsInv
<1> QED
  BY <1>1, InitIInv, PTL DEF Spec

\* Every variable of an interface keeps its type; in particular the byte
\* counter that stands for the queue never becomes negative.
THEOREM TypeCorrect == Spec => []TypeOK
<1>1. IInv => TypeOK
  BY DEF IInv
<1> QED
  BY <1>1, Invariance, PTL

\* UpdateInterfaceEstimation: at most one timer lies ahead, and there is one
\* as long as a flow is counted.
THEOREM TimersAreBounded == Spec => []TimersInv
<1>1. IInv => TimersInv
  BY DEF IInv
<1> QED
  BY <1>1, Invariance, PTL

\* ScheduleForSend: the losses of a period never exceed its arrivals.
THEOREM LossesAreArrivals == Spec => []LossesAmongArrivals
<1>1. IInv => LossesAmongArrivals
  BY DEF IInv
<1> QED
  BY <1>1, Invariance, PTL

\* UpdateInterfaceEstimation counts every flow that has sent, without a gap
\* of more than a period, for more than a period.
THEOREM SteadyFlowsCounted == Spec => []SteadyFlowsAreCounted
<1>1. ASSUME IInv, NEW a \in DOMAIN app_id_last_seen,
             app_id_last_seen[a] - active_since[a] > collection_period
      PROVE  a \in counted
  <2>1. /\ app_id_last_seen[a] \in Nat /\ active_since[a] \in Nat
        /\ last_update \in Nat /\ collection_period \in Nat
    BY <1>1 DEF IInv, TypeOK
  <2>2. /\ app_id_last_seen[a] - last_update <= collection_period
        /\ active_since[a] < last_update => a \in counted
    BY <1>1 DEF IInv, EstimateInv
  <2> QED
    BY <1>1, <2>1, <2>2
<1>2. IInv => SteadyFlowsAreCounted
  BY <1>1 DEF SteadyFlowsAreCounted
<1> QED
  BY <1>2, Invariance, PTL

\* No probe is told of more flows than have sent in the last two periods,
\* also when no packet passes any more.
THEOREM CountedFlowsRecent == Spec => []CountedFlowsAreRecent
<1> DEFINE Recent == {a \in DOMAIN app_id_last_seen :
                        now - app_id_last_seen[a] <= 2 * collection_period + 1}
<1>1. ASSUME IInv PROVE CountedFlowsAreRecent
  <2>0. TypeOK /\ EstimateInv /\ TimersInv
    BY <1>1 DEF IInv
  <2>1. /\ now \in Nat /\ last_update \in Nat /\ collection_period \in Nat
        /\ estimated_num_flows \in Nat /\ counted \subseteq Apps
        /\ DOMAIN app_id_last_seen \subseteq Apps
        /\ \A a \in DOMAIN app_id_last_seen : app_id_last_seen[a] \in Nat
    BY <2>0 DEF TypeOK
  <2>2. IsFiniteSet(Recent) /\ Cardinality(Recent) \in Nat
    <3>1. Recent \in SUBSET Apps
      BY <2>1
    <3> QED
      BY <3>1, AppsAreFinite
  <2>3. CASE estimated_num_flows > 0
    <3>1. now <= last_update + collection_period + 1
      BY <2>0, <2>3 DEF TimersInv
    <3>2. counted \subseteq Recent
      BY <2>0, <2>1, <3>1 DEF EstimateInv
    <3>3. Cardinality(counted) <= Cardinality(Recent)
      BY <2>2, <3>2, FS_Subset
    <3> QED
      BY <2>0, <2>1, <2>2, <3>3 DEF EstimateInv, CountedFlowsAreRecent, ProbeNumFlows
  <2>4. CASE ~(estimated_num_flows > 0)
    BY <2>1, <2>2, <2>4 DEF CountedFlowsAreRecent, ProbeNumFlows
  <2> QED
    BY <2>3, <2>4
<1> QED
  BY <1>1, Invariance, PTL

\* UpdatePolarisProbe: the delay a probe reports covers every packet that is
\* still in the queue.
THEOREM ProbesSeeQueue == Spec => []ProbesSeeTheWholeQueue
<1>1. ASSUME IInv PROVE ProbesSeeTheWholeQueue
  <2>1. /\ now \in Nat /\ queue_last_updated \in Nat /\ queue_length \in Nat
        /\ \A e \in sending : e.at \in Nat
    BY <1>1 DEF IInv, TypeOK, SendEvents
  <2>2. queue_last_updated <= now /\ \A e \in sending : e.at <= Front
    BY <1>1 DEF IInv, PastInv, QueueInv
  <2>3. transmission_delay * queue_length \in Nat
    BY <2>1, ProductIsNat
  <2> QED
    BY <2>1, <2>2, <2>3 DEF ProbesSeeTheWholeQueue, ProbeQueueingDelay, Front
<1> QED
  BY <1>1, Invariance, PTL

\* ScheduleForSend and Send: the byte counter releases packets like a queue,
\* in their order and no faster than the interface can transmit them.
THEOREM DeparturesSpaced == Spec => DepartureSpacing
<1> DEFINE Spaced == \A e \in sending \ sending' :
                       /\ \A f \in sending' : e.id < f.id
                       /\ now - last_sent >= transmission_delay * e.size
<1>1. ASSUME IInv, NEW e, Send(e)
      PROVE  Spaced
  BY <1>1, SendInOrder
<1>2. ASSUME sending \subseteq sending'
      PROVE  Spaced
  BY <1>2
<1>3. Tick \/ EstimationTimer \/ UNCHANGED vars => sending \subseteq sending'
  BY DEF Tick, EstimationTimer, vars
<1>4. ASSUME NEW size, DropPacket(size) \/ SchedulePacket(size)
      PROVE  sending \subseteq sending'
  BY <1>4 DEF DropPacket, SchedulePacket
<1>5. ASSUME NEW app \in Apps, NEW size \in Sizes, ScheduleDataForSend(app, size)
      PROVE  sending \subseteq sending'
  BY <1>4, <1>5 DEF ScheduleDataForSend
<1>6. ASSUME NEW size \in Sizes, ScheduleOtherForSend(size)
      PROVE  sending \subseteq sending'
  BY <1>4, <1>6 DEF ScheduleOtherForSend
<1>7. IInv /\ [Next]_vars => [Spaced]_vars
  <2> SUFFICES ASSUME IInv, [Next]_vars PROVE Spaced
    OBVIOUS
  <2> HIDE DEF Spaced
  <2> QED
    BY <1>1, <1>2, <1>3, <1>5, <1>6, Zenon DEF Next
<1>8. Spec => [][Spaced]_vars
  BY <1>7, Invariance, PTL DEF Spec
<1> QED
  BY <1>8 DEF DepartureSpacing
=============================================================================
