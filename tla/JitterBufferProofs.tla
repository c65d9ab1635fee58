------------------------- MODULE JitterBufferProofs -------------------------
(***************************************************************************)
(* Theorems about JitterBuffer, for all windows, latencies and bounds.     *)
(*                                                                         *)
(* The order of the packets played rests on three things: what is emitted  *)
(* is a prefix of the buffer, what is late is refused, and a buffer whose  *)
(* neighbours are in order is in order (Neighbours, by a least             *)
(* counterexample).  The waiting time rests on the next run of             *)
(* RecordMetrics (Deadline), and what has been played on the kept packets  *)
(* being the last ones of those (PlayedBefore).                            *)
(***************************************************************************)
EXTENDS JitterBuffer, SequenceTheorems, FunctionTheorems, FiniteSetTheorems,
        WellFoundedInduction, TLAPS

\* What has been played or waits has been reported.
Reported ==
  /\ SeqNos(delivered_packets) \cap unreported = {}
  /\ SeqNos(jitter_buffer) \cap unreported = {}

\* The last packet played had waited long enough.
LastWaited ==
  delivered_packets # << >> =>
    now - delivered_packets[Len(delivered_packets)].time_received > buffer_window

\* When the metrics are recorded next, no packet has waited for too long.
Deadline ==
  ~stopped => /\ now <= metrics_due /\ metrics_due <= now + metrics_interval
              /\ \A i \in DOMAIN jitter_buffer :
                   metrics_due - jitter_buffer[i].time_received <= LongestWait

\* Of the packets played, all from the first one kept on are kept.
PlayedBefore ==
  \A n \in played :
    \/ n \in SeqNos(delivered_packets)
    \/ delivered_packets # << >> /\ n < delivered_packets[1].seq_no

\* Nothing waits before a report has come.
EmptyAtFirst ==
  ~first_report_received => delivered_packets = << >> /\ jitter_buffer = << >>

IInv ==
  /\ TypeOK
  /\ PlayedInOrder
  /\ Reported
  /\ LastWaited
  /\ Deadline
  /\ PlayedBefore
  /\ EmptyAtFirst

-----------------------------------------------------------------------------
(* Numbers and sequences *)

\* A set of numbers has a least one.
LEMMA LeastExists ==
  ASSUME NEW S \in SUBSET Nat, S # {}
  PROVE  \E i \in S : \A j \in S : i <= j
<1>1. PICK i \in S : \A j \in S : <<j, i>> \notin OpToRel(<, Nat)
  BY NatLessThanWellFounded, WFMin, Zenon
<1>2. \A j \in S : ~(j < i)
  BY <1>1 DEF OpToRel
<1> QED
  BY <1>2

\* A bounded set of numbers has a greatest one.
LEMMA GreatestExists ==
  ASSUME NEW n \in Nat, NEW S \in SUBSET (1..n), S # {}
  PROVE  \E i \in S : \A j \in S : j <= i
<1> DEFINE T == {k \in Nat : \E i \in S : k = n - i}
<1>1. \A i \in S : i \in Nat /\ n - i \in Nat /\ n - i \in T
  <2> SUFFICES ASSUME NEW i \in S PROVE i \in Nat /\ n - i \in Nat /\ n - i \in T
    OBVIOUS
  <2>1. i \in 1..n
    OBVIOUS
  <2> QED
    BY <2>1
<1>2. T \in SUBSET Nat /\ T # {}
  BY <1>1
<1> HIDE DEF T
<1>3. PICK k \in T : \A l \in T : k <= l
  BY <1>2, LeastExists
<1>4. PICK i \in S : k = n - i
  BY <1>3 DEF T
<1>5. ASSUME NEW j \in S PROVE j <= i
  <2>1. k <= n - j
    BY <1>1, <1>3
  <2> QED
    BY <1>1, <1>4, <2>1
<1> QED
  BY <1>5

\* A sequence of which each element is below the next is in order.
LEMMA Neighbours ==
  ASSUME NEW s \in Seq(PacketRecord),
         \A i \in 1..(Len(s) - 1) : s[i].seq_no < s[i + 1].seq_no
  PROVE  Increasing(s)
<1> DEFINE Wrong == {j \in 1..Len(s) : \E i \in 1..Len(s) :
                       i < j /\ ~(s[i].seq_no < s[j].seq_no)}
<1>1. Len(s) \in Nat /\ DOMAIN s = 1..Len(s) /\ \A i \in 1..Len(s) : s[i].seq_no \in Int
  <2>1. Len(s) \in Nat /\ DOMAIN s = 1..Len(s) /\ \A i \in 1..Len(s) : s[i] \in PacketRecord
    BY LenProperties, ElementOfSeq
  <2> QED
    BY <2>1 DEF PacketRecord
<1>2. ASSUME Wrong # {} PROVE FALSE
  <2>1. Wrong \in SUBSET Nat
    BY <1>1
  <2>2. PICK j \in Wrong : \A k \in Wrong : j <= k
    BY <1>2, <2>1, LeastExists
  <2>3. PICK i \in 1..Len(s) : i < j /\ ~(s[i].seq_no < s[j].seq_no)
    BY <2>2
  <2>4. j - 1 \in 1..(Len(s) - 1) /\ j - 1 \notin Wrong /\ j = (j - 1) + 1
    BY <1>1, <2>1, <2>2, <2>3
  <2>5. s[j - 1].seq_no < s[j].seq_no
    BY <2>4
  <2>6. i # j - 1 /\ i < j - 1
    BY <2>3, <2>4, <2>5
  <2>7. s[i].seq_no < s[j - 1].seq_no
    BY <1>1, <2>4, <2>6
  <2> QED
    BY <1>1, <2>1, <2>2, <2>3, <2>4, <2>5, <2>7
<1>3. ASSUME NEW i \in 1..Len(s), NEW j \in 1..Len(s), i < j
      PROVE  s[i].seq_no < s[j].seq_no
  BY <1>2, <1>3
<1> QED
  BY <1>1, <1>3 DEF Increasing

\* Two sequences make one in order if they are and the one is below the other.
LEMMA IncreasingConcat ==
  ASSUME NEW s \in Seq(PacketRecord), NEW t \in Seq(PacketRecord)
  PROVE  Increasing(s \o t) <=>
           /\ Increasing(s) /\ Increasing(t)
           /\ \A i \in DOMAIN s, j \in DOMAIN t : s[i].seq_no < t[j].seq_no
<1>1. /\ Len(s) \in Nat /\ DOMAIN s = 1..Len(s)
      /\ Len(t) \in Nat /\ DOMAIN t = 1..Len(t)
  BY LenProperties
<1>2. /\ s \o t \in Seq(PacketRecord) /\ Len(s \o t) = Len(s) + Len(t)
      /\ \A i \in 1..(Len(s) + Len(t)) :
           (s \o t)[i] = IF i <= Len(s) THEN s[i] ELSE t[i - Len(s)]
  BY ConcatProperties
<1>3. DOMAIN (s \o t) = 1..(Len(s) + Len(t))
  BY <1>2, LenProperties
<1>4. ASSUME Increasing(s \o t)
      PROVE  /\ Increasing(s) /\ Increasing(t)
             /\ \A i \in DOMAIN s, j \in DOMAIN t : s[i].seq_no < t[j].seq_no
  <2>1. Increasing(s)
    BY <1>1, <1>2, <1>3, <1>4 DEF Increasing
  <2>2. ASSUME NEW j \in 1..Len(t)
        PROVE  /\ j + Len(s) \in 1..(Len(s) + Len(t))
               /\ (s \o t)[j + Len(s)] = t[j]
    BY <1>1, <1>2
  <2>3. ASSUME NEW i \in 1..Len(t), NEW j \in 1..Len(t), i < j
        PROVE  t[i].seq_no < t[j].seq_no
    <3>1. i + Len(s) < j + Len(s)
      BY <1>1, <2>3
    <3> QED
      BY <1>3, <1>4, <2>2, <3>1 DEF Increasing
  <2>4. ASSUME NEW i \in 1..Len(s), NEW j \in 1..Len(t)
        PROVE  s[i].seq_no < t[j].seq_no
    <3>1. i < j + Len(s) /\ i \in 1..(Len(s) + Len(t)) /\ (s \o t)[i] = s[i]
      BY <1>1, <1>2
    <3> QED
      BY <1>3, <1>4, <2>2, <3>1 DEF Increasing
  <2> QED
    BY <1>1, <2>1, <2>3, <2>4 DEF Increasing
<1>5. ASSUME Increasing(s), Increasing(t),
             \A i \in DOMAIN s, j \in DOMAIN t : s[i].seq_no < t[j].seq_no
      PROVE  Increasing(s \o t)
  <2> SUFFICES ASSUME NEW i \in 1..(Len(s) + Len(t)), NEW j \in 1..(Len(s) + Len(t)), i < j
               PROVE  (s \o t)[i].seq_no < (s \o t)[j].seq_no
    BY <1>3 DEF Increasing
  <2>1. CASE j <= Len(s)
    BY <1>1, <1>2, <1>5, <2>1 DEF Increasing
  <2>2. CASE i > Len(s)
    <3>1. i - Len(s) \in DOMAIN t /\ j - Len(s) \in DOMAIN t /\ i - Len(s) < j - Len(s)
      BY <1>1, <2>2
    <3>2. (s \o t)[i] = t[i - Len(s)] /\ (s \o t)[j] = t[j - Len(s)]
      BY <1>1, <1>2, <2>2
    <3> QED
      BY <1>5, <3>1, <3>2 DEF Increasing
  <2>3. CASE i <= Len(s) /\ j > Len(s)
    <3>1. i \in DOMAIN s /\ j - Len(s) \in DOMAIN t
      BY <1>1, <2>3
    <3>2. (s \o t)[i] = s[i] /\ (s \o t)[j] = t[j - Len(s)]
      BY <1>1, <1>2, <2>3
    <3> QED
      BY <1>5, <3>1, <3>2
  <2> QED
    BY <1>1, <2>1, <2>2, <2>3
<1> QED
  BY <1>4, <1>5

\* Part of a sequence in order is in order.
LEMMA IncreasingSubSeq ==
  ASSUME NEW s \in Seq(PacketRecord), Increasing(s),
         NEW m \in 1..(Len(s) + 1), NEW n \in (m - 1)..Len(s)
  PROVE  /\ SubSeq(s, m, n) \in Seq(PacketRecord)
         /\ Len(SubSeq(s, m, n)) = n - m + 1
         /\ \A i \in 1..(n - m + 1) : SubSeq(s, m, n)[i] = s[m + i - 1]
         /\ Increasing(SubSeq(s, m, n))
<1>1. Len(s) \in Nat /\ DOMAIN s = 1..Len(s) /\ \A i \in 1..Len(s) : s[i] \in PacketRecord
  BY LenProperties, ElementOfSeq
<1>2. m \in Int /\ n \in Int /\ \A i \in m..n : s[i] \in PacketRecord
  BY <1>1
<1>3. /\ SubSeq(s, m, n) \in Seq(PacketRecord)
      /\ Len(SubSeq(s, m, n)) = IF m <= n THEN n - m + 1 ELSE 0
      /\ \A i \in 1..(n - m + 1) : SubSeq(s, m, n)[i] = s[m + i - 1]
  BY <1>2, SubSeqProperties
<1>4. Len(SubSeq(s, m, n)) = n - m + 1
  BY <1>1, <1>3
<1>5. DOMAIN SubSeq(s, m, n) = 1..(n - m + 1)
  BY <1>3, <1>4, LenProperties
<1>6. ASSUME NEW i \in 1..(n - m + 1), NEW j \in 1..(n - m + 1), i < j
      PROVE  SubSeq(s, m, n)[i].seq_no < SubSeq(s, m, n)[j].seq_no
  <2>1. m + i - 1 \in DOMAIN s /\ m + j - 1 \in DOMAIN s /\ m + i - 1 < m + j - 1
    BY <1>1, <1>6
  <2> QED
    BY <1>3, <2>1 DEF Increasing
<1> QED
  BY <1>3, <1>4, <1>5, <1>6 DEF Increasing

\* The sequence numbers of two sequences one after the other.
LEMMA SeqNosOfConcat ==
  ASSUME NEW s \in Seq(PacketRecord), NEW t \in Seq(PacketRecord)
  PROVE  SeqNos(s \o t) = SeqNos(s) \cup SeqNos(t)
<1>1. /\ Len(s) \in Nat /\ DOMAIN s = 1..Len(s)
      /\ Len(t) \in Nat /\ DOMAIN t = 1..Len(t)
  BY LenProperties
<1>2. /\ s \o t \in Seq(PacketRecord) /\ Len(s \o t) = Len(s) + Len(t)
      /\ \A i \in 1..(Len(s) + Len(t)) :
           (s \o t)[i] = IF i <= Len(s) THEN s[i] ELSE t[i - Len(s)]
  BY ConcatProperties
<1>3. DOMAIN (s \o t) = 1..(Len(s) + Len(t))
  BY <1>2, LenProperties
<1>4. ASSUME NEW i \in DOMAIN s PROVE s[i].seq_no \in SeqNos(s \o t)
  <2>1. i \in DOMAIN (s \o t) /\ (s \o t)[i] = s[i]
    BY <1>1, <1>2, <1>3
  <2> QED
    BY <2>1, Zenon DEF SeqNos
<1>5. ASSUME NEW i \in DOMAIN t PROVE t[i].seq_no \in SeqNos(s \o t)
  <2>1. /\ i + Len(s) \in DOMAIN (s \o t) /\ ~(i + Len(s) <= Len(s))
        /\ (i + Len(s)) - Len(s) = i
    BY <1>1, <1>3
  <2>2. (s \o t)[i + Len(s)] = t[i]
    BY <1>2, <1>3, <2>1
  <2> QED
    BY <2>1, <2>2, Zenon DEF SeqNos
<1>6. ASSUME NEW i \in DOMAIN (s \o t)
      PROVE  (s \o t)[i].seq_no \in SeqNos(s) \cup SeqNos(t)
  <2>1. i \in 1..(Len(s) + Len(t))
    BY <1>3
  <2>2. CASE i <= Len(s)
    <3>1. i \in DOMAIN s /\ (s \o t)[i] = s[i]
      BY <1>1, <1>2, <2>1, <2>2
    <3> QED
      BY <3>1, Zenon DEF SeqNos
  <2>3. CASE ~(i <= Len(s))
    <3>1. i - Len(s) \in DOMAIN t /\ (s \o t)[i] = t[i - Len(s)]
      BY <1>1, <1>2, <2>1, <2>3
    <3> QED
      BY <3>1, Zenon DEF SeqNos
  <2> QED
    BY <2>2, <2>3
<1> QED
  BY <1>4, <1>5, <1>6 DEF SeqNos

-----------------------------------------------------------------------------
(* Arrangements of finite sets *)

\* An arrangement of a finite set is a sequence of its elements, all of them.
LEMMA ArrangementIsSeq ==
  ASSUME NEW S, IsFiniteSet(S), NEW s \in Arrangements(S)
  PROVE  /\ s \in Seq(S)
         /\ Elements(s) = S
         /\ \A i, j \in DOMAIN s : i # j => s[i] # s[j]
<1>1. Cardinality(S) \in Nat
  BY FS_CardinalityType
<1>2. /\ s \in [1..Cardinality(S) -> S]
      /\ \A i, j \in DOMAIN s : i # j => s[i] # s[j]
  BY DEF Arrangements
<1>3. s \in Injection(1..Cardinality(S), S)
  BY <1>2 DEF Injection, IsInjective
<1>4. Cardinality(1..Cardinality(S)) = Cardinality(S)
  BY <1>1, FS_Interval
<1>5. s \in Surjection(1..Cardinality(S), S)
  BY <1>3, <1>4, FS_Injection
<1>6. S \subseteq Elements(s)
  BY <1>2, <1>5 DEF Surjection, Elements
<1>7. s \in Seq(S)
  BY <1>1, <1>2, SeqDef
<1> QED
  BY <1>2, <1>6, <1>7 DEF Elements

\* The elements of a sequence are finitely many.
LEMMA ElementsFinite ==
  ASSUME NEW S, NEW s \in Seq(S)
  PROVE  IsFiniteSet(Elements(s)) /\ Elements(s) \in SUBSET S
<1>1. Len(s) \in Nat /\ DOMAIN s = 1..Len(s) /\ s \in [1..Len(s) -> S]
  BY LenProperties
<1>2. s \in Surjection(1..Len(s), Elements(s))
  BY <1>1 DEF Surjection, Elements
<1>3. IsFiniteSet(1..Len(s))
  BY <1>1, FS_Interval
<1> QED
  BY <1>1, <1>2, <1>3, FS_Surjection DEF Elements

\* A report is a finite set of packets, all of different sequence numbers
\* that have not been reported, which have arrived of late.
LEMMA ReportFacts ==
  ASSUME TypeOK, NEW packets \in Reports
  PROVE  /\ IsFiniteSet(packets) /\ packets \in SUBSET PacketRecord
         /\ \A p \in packets : /\ p.seq_no \in unreported
                               /\ p.time_received <= now
                               /\ now - p.time_received <= MaxReportLatency
         /\ \A p, q \in packets : p.seq_no = q.seq_no => p = q
<1> USE JitterBufferAssumption
<1>1. PICK S \in {T \in SUBSET unreported : T # {} /\ Cardinality(T) <= MaxReport} :
        \E time \in [S -> {t \in 0..now : now - t <= MaxReportLatency}] :
          packets = {[seq_no |-> n, time_received |-> time[n]] : n \in S}
  BY DEF Reports
<1>2. PICK time \in [S -> {t \in 0..now : now - t <= MaxReportLatency}] :
        packets = {[seq_no |-> n, time_received |-> time[n]] : n \in S}
  BY <1>1
<1>3. S \in SUBSET (1..MaxSeqNo) /\ S \subseteq unreported
  BY DEF TypeOK
<1>4. \A n \in S : time[n] \in 0..now /\ now - time[n] <= MaxReportLatency
  BY <1>2
<1>5. IsFiniteSet(S)
  <2>1. IsFiniteSet(1..MaxSeqNo)
    BY FS_Interval
  <2> QED
    BY <1>3, <2>1, FS_Subset
<1> DEFINE f == [n \in S |-> [seq_no |-> n, time_received |-> time[n]]]
<1>6. f \in Surjection(S, packets)
  BY <1>2 DEF Surjection
<1>7. IsFiniteSet(packets)
  BY <1>5, <1>6, FS_Surjection
<1>8. \A n \in S : /\ n \in 1..MaxSeqNo
                   /\ time[n] \in Nat /\ time[n] <= now
                   /\ now - time[n] <= MaxReportLatency
  BY <1>3, <1>4 DEF TypeOK
<1>9. packets \in SUBSET PacketRecord
  BY <1>2, <1>8 DEF PacketRecord
<1> QED
  BY <1>2, <1>3, <1>7, <1>8, <1>9

-----------------------------------------------------------------------------
(* EmitFromBuffer *)

\* The packets taken from the buffer: none, or all up to the last overdue one.
LEMMA EmittedFacts ==
  ASSUME TypeOK
  PROVE  /\ Emitted \in 0..Len(jitter_buffer)
         /\ Emitted > 0 => Emitted \in Overdue
         /\ \A i \in Overdue : i <= Emitted
<1>1. /\ jitter_buffer \in Seq(PacketRecord)
      /\ Len(jitter_buffer) \in Nat /\ DOMAIN jitter_buffer = 1..Len(jitter_buffer)
  BY LenProperties DEF TypeOK
<1>2. Overdue \in SUBSET (1..Len(jitter_buffer))
  BY <1>1 DEF Overdue
<1>3. CASE Overdue = {}
  BY <1>1, <1>3 DEF Emitted
<1>4. CASE Overdue # {}
  <2>1. \E i \in Overdue : \A j \in Overdue : j <= i
    BY <1>1, <1>2, <1>4, GreatestExists
  <2>2. Emitted \in Overdue /\ \A j \in Overdue : j <= Emitted
    BY <1>4, <2>1 DEF Emitted
  <2> QED
    BY <1>1, <1>2, <2>2
<1> QED
  BY <1>3, <1>4

\* What has been played and what waits after it, which are in order if they
\* were before.
LEMMA EmitFacts ==
  ASSUME TypeOK
  PROVE  /\ Delivered \in Seq(PacketRecord)
         /\ Len(Delivered) = Len(delivered_packets) + Emitted
         /\ \A i \in 1..Len(delivered_packets) : Delivered[i] = delivered_packets[i]
         /\ \A i \in 1..Emitted :
              Delivered[Len(delivered_packets) + i] = jitter_buffer[i]
         /\ Waiting \in Seq(PacketRecord)
         /\ Len(Waiting) = Len(jitter_buffer) - Emitted
         /\ \A i \in 1..(Len(jitter_buffer) - Emitted) :
              Waiting[i] = jitter_buffer[Emitted + i]
<1>1. /\ jitter_buffer \in Seq(PacketRecord) /\ Len(jitter_buffer) \in Nat
      /\ \A i \in 1..Len(jitter_buffer) : jitter_buffer[i] \in PacketRecord
      /\ delivered_packets \in Seq(PacketRecord) /\ Len(delivered_packets) \in Nat
  BY LenProperties, ElementOfSeq DEF TypeOK
<1>2. Emitted \in 0..Len(jitter_buffer)
  BY EmittedFacts
<1> DEFINE out == SubSeq(jitter_buffer, 1, Emitted)
<1>3. /\ out \in Seq(PacketRecord) /\ Len(out) = Emitted
      /\ \A i \in 1..Emitted : out[i] = jitter_buffer[i]
  <2>1. \A i \in 1..Emitted : jitter_buffer[i] \in PacketRecord
    BY <1>1, <1>2
  <2>2. /\ out \in Seq(PacketRecord)
        /\ Len(out) = IF 1 <= Emitted THEN Emitted - 1 + 1 ELSE 0
        /\ \A i \in 1..(Emitted - 1 + 1) : out[i] = jitter_buffer[1 + i - 1]
    BY <1>2, <2>1, SubSeqProperties
  <2> QED
    BY <1>2, <2>2
<1>4. /\ Waiting \in Seq(PacketRecord) /\ Len(Waiting) = Len(jitter_buffer) - Emitted
      /\ \A i \in 1..(Len(jitter_buffer) - Emitted) :
           Waiting[i] = jitter_buffer[Emitted + i]
  <2> DEFINE m == Emitted + 1
             n == Len(jitter_buffer)
  <2>1. m \in Int /\ n \in Int /\ \A i \in m..n : jitter_buffer[i] \in PacketRecord
    BY <1>1, <1>2
  <2>2. /\ Waiting \in Seq(PacketRecord)
        /\ Len(Waiting) = IF m <= n THEN n - m + 1 ELSE 0
        /\ \A i \in 1..(n - m + 1) : Waiting[i] = jitter_buffer[m + i - 1]
    BY <2>1, SubSeqProperties DEF Waiting
  <2> QED
    BY <1>1, <1>2, <2>2
<1>5. /\ Delivered \in Seq(PacketRecord)
      /\ Len(Delivered) = Len(delivered_packets) + Len(out)
      /\ \A i \in 1..(Len(delivered_packets) + Len(out)) :
           Delivered[i] = IF i <= Len(delivered_packets) THEN delivered_packets[i]
                          ELSE out[i - Len(delivered_packets)]
  BY <1>1, <1>3, ConcatProperties DEF Delivered
<1>6. \A i \in 1..Len(delivered_packets) : Delivered[i] = delivered_packets[i]
  BY <1>1, <1>2, <1>3, <1>5
<1>7. ASSUME NEW i \in 1..Emitted
      PROVE  Delivered[Len(delivered_packets) + i] = jitter_buffer[i]
  <2> DEFINE k == Len(delivered_packets) + i
  <2>1. /\ k \in 1..(Len(delivered_packets) + Len(out)) /\ ~(k <= Len(delivered_packets))
        /\ k - Len(delivered_packets) = i
    BY <1>1, <1>2, <1>3
  <2>2. Delivered[k] = out[k - Len(delivered_packets)]
    BY <1>5, <2>1
  <2> QED
    BY <1>3, <2>1, <2>2
<1> QED
  BY <1>3, <1>4, <1>5, <1>6, <1>7

\* EmitFromBuffer keeps the order of the packets, loses none of them and adds
\* none.
LEMMA OrderKept ==
  ASSUME TypeOK, PlayedInOrder
  PROVE  /\ Increasing(Delivered) /\ Increasing(Waiting)
         /\ \A i \in DOMAIN Delivered, j \in DOMAIN Waiting :
              Delivered[i].seq_no < Waiting[j].seq_no
         /\ SeqNos(Delivered) =
              SeqNos(delivered_packets) \cup SeqNos(SubSeq(jitter_buffer, 1, Emitted))
         /\ SeqNos(Delivered) \cup SeqNos(Waiting) =
              SeqNos(delivered_packets) \cup SeqNos(jitter_buffer)
<1> DEFINE out == SubSeq(jitter_buffer, 1, Emitted)
<1>1. /\ jitter_buffer \in Seq(PacketRecord) /\ Len(jitter_buffer) \in Nat
      /\ delivered_packets \in Seq(PacketRecord)
      /\ DOMAIN jitter_buffer = 1..Len(jitter_buffer)
  BY LenProperties DEF TypeOK
<1>2. Emitted \in 0..Len(jitter_buffer)
  BY EmittedFacts
<1>3. Increasing(jitter_buffer) /\ Increasing(delivered_packets)
  BY <1>1, IncreasingConcat DEF PlayedInOrder
<1>4. /\ out \in Seq(PacketRecord) /\ Len(out) = Emitted
      /\ \A i \in 1..Emitted : out[i] = jitter_buffer[i]
  <2>1. 1 \in 1..(Len(jitter_buffer) + 1) /\ Emitted \in (1 - 1)..Len(jitter_buffer)
    BY <1>1, <1>2
  <2>2. /\ out \in Seq(PacketRecord) /\ Len(out) = Emitted - 1 + 1
        /\ \A i \in 1..(Emitted - 1 + 1) : out[i] = jitter_buffer[1 + i - 1]
    BY <1>1, <1>3, <2>1, IncreasingSubSeq
  <2> QED
    BY <1>2, <2>2
<1>5. /\ Waiting \in Seq(PacketRecord) /\ Delivered \in Seq(PacketRecord)
      /\ Len(Waiting) = Len(jitter_buffer) - Emitted
      /\ \A i \in 1..(Len(jitter_buffer) - Emitted) :
           Waiting[i] = jitter_buffer[Emitted + i]
  BY EmitFacts
<1>6. out \o Waiting = jitter_buffer
  <2>1. /\ 1 \in 1..(Len(jitter_buffer) + 1) /\ Emitted \in (1 - 1)..Len(jitter_buffer)
        /\ Len(jitter_buffer) \in Emitted..Len(jitter_buffer)
    BY <1>1, <1>2
  <2> QED
    BY <1>1, <2>1, ConcatAdjacentSubSeq, SubSeqFull DEF Waiting
<1>7. Delivered \o Waiting = delivered_packets \o jitter_buffer
  <2>1. Delivered = delivered_packets \o out
    BY DEF Delivered
  <2> HIDE DEF out
  <2>2. (delivered_packets \o out) \o Waiting = delivered_packets \o (out \o Waiting)
    <3>1. ASSUME NEW s \in Seq(PacketRecord), NEW t \in Seq(PacketRecord),
                 NEW u \in Seq(PacketRecord)
          PROVE  (s \o t) \o u = s \o (t \o u)
      BY ConcatAssociative
    <3> QED
      BY <1>1, <1>4, <1>5, <3>1, Zenon
  <2> QED
    BY <1>6, <2>1, <2>2, Zenon
<1>8. /\ Increasing(Delivered) /\ Increasing(Waiting)
      /\ \A i \in DOMAIN Delivered, j \in DOMAIN Waiting :
           Delivered[i].seq_no < Waiting[j].seq_no
  BY <1>5, <1>7, IncreasingConcat DEF PlayedInOrder
<1>9. SeqNos(Delivered) = SeqNos(delivered_packets) \cup SeqNos(out)
  BY <1>1, <1>4, SeqNosOfConcat DEF Delivered
<1>10. SeqNos(jitter_buffer) = SeqNos(out) \cup SeqNos(Waiting)
  BY <1>4, <1>5, <1>6, SeqNosOfConcat
<1> QED
  BY <1>8, <1>9, <1>10

\* The packets that wait have not waited too long, and the last one played has.
LEMMA EmitTimes ==
  ASSUME TypeOK, LastWaited
  PROVE  /\ \A i \in DOMAIN Waiting : now - Waiting[i].time_received <= buffer_window
         /\ Delivered # << >> =>
              now - Delivered[Len(Delivered)].time_received > buffer_window
<1>1. /\ jitter_buffer \in Seq(PacketRecord) /\ Len(jitter_buffer) \in Nat
      /\ DOMAIN jitter_buffer = 1..Len(jitter_buffer)
      /\ \A i \in 1..Len(jitter_buffer) : jitter_buffer[i].time_received \in Nat
      /\ delivered_packets \in Seq(PacketRecord) /\ Len(delivered_packets) \in Nat
      /\ now \in Nat /\ buffer_window \in Nat
  <2>1. /\ jitter_buffer \in Seq(PacketRecord) /\ Len(jitter_buffer) \in Nat
        /\ DOMAIN jitter_buffer = 1..Len(jitter_buffer)
        /\ \A i \in 1..Len(jitter_buffer) : jitter_buffer[i] \in PacketRecord
        /\ delivered_packets \in Seq(PacketRecord) /\ Len(delivered_packets) \in Nat
    BY LenProperties, ElementOfSeq DEF TypeOK
  <2> QED
    BY <2>1, JitterBufferAssumption DEF TypeOK, PacketRecord
<1>2. /\ Emitted \in 0..Len(jitter_buffer)
      /\ Emitted > 0 => Emitted \in Overdue
      /\ \A i \in Overdue : i <= Emitted
  BY EmittedFacts
<1>3. /\ Delivered \in Seq(PacketRecord)
      /\ Len(Delivered) = Len(delivered_packets) + Emitted
      /\ \A i \in 1..Len(delivered_packets) : Delivered[i] = delivered_packets[i]
      /\ \A i \in 1..Emitted :
           Delivered[Len(delivered_packets) + i] = jitter_buffer[i]
      /\ Waiting \in Seq(PacketRecord)
      /\ Len(Waiting) = Len(jitter_buffer) - Emitted
      /\ \A i \in 1..(Len(jitter_buffer) - Emitted) :
           Waiting[i] = jitter_buffer[Emitted + i]
  BY EmitFacts
<1>4. ASSUME NEW i \in DOMAIN Waiting
      PROVE  now - Waiting[i].time_received <= buffer_window
  <2>1. i \in 1..(Len(jitter_buffer) - Emitted)
    BY <1>3, LenProperties
  <2>2. Emitted + i \in DOMAIN jitter_buffer /\ ~(Emitted + i <= Emitted)
    BY <1>1, <1>2, <2>1
  <2>3. Emitted + i \notin Overdue
    BY <1>2, <2>2
  <2>4. ~(now - jitter_buffer[Emitted + i].time_received > buffer_window)
    BY <2>2, <2>3 DEF Overdue
  <2> QED
    BY <1>1, <1>3, <2>1, <2>2, <2>4
<1>5. ASSUME Delivered # << >>
      PROVE  now - Delivered[Len(Delivered)].time_received > buffer_window
  <2>1. CASE Emitted > 0
    <3>1. Emitted \in 1..Emitted /\ Emitted \in Overdue
      BY <1>2, <2>1
    <3> QED
      BY <1>3, <3>1 DEF Overdue
  <2>2. CASE Emitted = 0
    <3>1. Len(Delivered) = Len(delivered_packets)
      BY <1>1, <1>3, <2>2
    <3>2. Len(Delivered) \in Nat \ {0}
      BY <1>3, <1>5, EmptySeq
    <3>3. delivered_packets # << >> /\ Len(delivered_packets) \in 1..Len(delivered_packets)
      BY <3>1, <3>2, EmptySeq
    <3> QED
      BY <1>3, <3>1, <3>3 DEF LastWaited
  <2> QED
    BY <1>2, <2>1, <2>2
<1> QED
  BY <1>4, <1>5

-----------------------------------------------------------------------------
(* BufferPackets *)

\* The elements of two sequences one after the other.
LEMMA ElementsOfConcat ==
  ASSUME NEW s \in Seq(PacketRecord), NEW t \in Seq(PacketRecord)
  PROVE  Elements(s \o t) = Elements(s) \cup Elements(t)
<1>1. /\ Len(s) \in Nat /\ DOMAIN s = 1..Len(s)
      /\ Len(t) \in Nat /\ DOMAIN t = 1..Len(t)
  BY LenProperties
<1>2. /\ s \o t \in Seq(PacketRecord) /\ Len(s \o t) = Len(s) + Len(t)
      /\ \A i \in 1..(Len(s) + Len(t)) :
           (s \o t)[i] = IF i <= Len(s) THEN s[i] ELSE t[i - Len(s)]
  BY ConcatProperties
<1>3. DOMAIN (s \o t) = 1..(Len(s) + Len(t))
  BY <1>2, LenProperties
<1>4. ASSUME NEW i \in DOMAIN s PROVE s[i] \in Elements(s \o t)
  <2>1. i \in DOMAIN (s \o t) /\ (s \o t)[i] = s[i]
    BY <1>1, <1>2, <1>3
  <2> QED
    BY <2>1, Zenon DEF Elements
<1>5. ASSUME NEW i \in DOMAIN t PROVE t[i] \in Elements(s \o t)
  <2>1. /\ i + Len(s) \in DOMAIN (s \o t) /\ ~(i + Len(s) <= Len(s))
        /\ (i + Len(s)) - Len(s) = i
    BY <1>1, <1>3
  <2>2. (s \o t)[i + Len(s)] = t[i]
    BY <1>2, <1>3, <2>1
  <2> QED
    BY <2>1, <2>2, Zenon DEF Elements
<1>6. ASSUME NEW i \in DOMAIN (s \o t)
      PROVE  (s \o t)[i] \in Elements(s) \cup Elements(t)
  <2>1. i \in 1..(Len(s) + Len(t))
    BY <1>3
  <2>2. CASE i <= Len(s)
    <3>1. i \in DOMAIN s /\ (s \o t)[i] = s[i]
      BY <1>1, <1>2, <2>1, <2>2
    <3> QED
      BY <3>1, Zenon DEF Elements
  <2>3. CASE ~(i <= Len(s))
    <3>1. i - Len(s) \in DOMAIN t /\ (s \o t)[i] = t[i - Len(s)]
      BY <1>1, <1>2, <2>1, <2>3
    <3> QED
      BY <3>1, Zenon DEF Elements
  <2> QED
    BY <2>2, <2>3
<1> QED
  BY <1>4, <1>5, <1>6 DEF Elements

\* What BufferPackets appends is in order if no neighbours from the old end on
\* are out of order; otherwise it is sorted.
LEMMA SortedIsIncreasing ==
  ASSUME NEW w \in Seq(PacketRecord), NEW a \in Seq(PacketRecord), Increasing(w),
         \A i, j \in DOMAIN a : i # j => a[i].seq_no # a[j].seq_no,
         \A i \in DOMAIN w, j \in DOMAIN a : w[i].seq_no # a[j].seq_no,
         NEW s \in SortedIfNeeded(w \o a, Len(w))
  PROVE  /\ s \in Seq(PacketRecord)
         /\ Elements(s) = Elements(w) \cup Elements(a)
         /\ Increasing(s)
<1>1. /\ w \o a \in Seq(PacketRecord) /\ Len(w \o a) = Len(w) + Len(a)
      /\ \A i \in 1..(Len(w) + Len(a)) :
           (w \o a)[i] = IF i <= Len(w) THEN w[i] ELSE a[i - Len(w)]
  BY ConcatProperties
<1>2. /\ Len(w) \in Nat /\ DOMAIN w = 1..Len(w) /\ Len(a) \in Nat /\ DOMAIN a = 1..Len(a)
      /\ \A i \in 1..Len(w \o a) : (w \o a)[i] \in PacketRecord
  BY <1>1, LenProperties, ElementOfSeq
<1>3. IsFiniteSet(Elements(w \o a)) /\ Elements(w \o a) \in SUBSET PacketRecord
  BY <1>1, ElementsFinite
<1>4. s \in Arrangements(Elements(w \o a))
  BY DEF SortedIfNeeded
<1>5. s \in Seq(Elements(w \o a)) /\ Elements(s) = Elements(w \o a)
  BY <1>3, <1>4, ArrangementIsSeq
<1>6. s \in Seq(PacketRecord)
  BY <1>3, <1>5, SeqMonotonic
<1>7. Elements(s) = Elements(w) \cup Elements(a)
  BY <1>5, ElementsOfConcat
<1> DEFINE Descent == \E i \in Len(w)..(Len(w \o a) - 1) :
                        i > 0 /\ (w \o a)[i].seq_no > (w \o a)[i + 1].seq_no
<1>8. CASE Descent
  BY <1>6, <1>7, <1>8 DEF SortedIfNeeded
<1>9. CASE ~Descent
  <2>1. s = w \o a
    BY <1>9 DEF SortedIfNeeded
  <2>2. ASSUME NEW i \in 1..(Len(w \o a) - 1)
        PROVE  (w \o a)[i].seq_no < (w \o a)[i + 1].seq_no
    <3>1. /\ i \in 1..Len(w \o a) /\ i + 1 \in 1..Len(w \o a)
          /\ i \in 1..(Len(w) + Len(a)) /\ i + 1 \in 1..(Len(w) + Len(a))
      BY <1>1, <1>2
    <3>2. CASE i < Len(w)
      <4>1. /\ i \in DOMAIN w /\ i + 1 \in DOMAIN w /\ i < i + 1
            /\ (w \o a)[i] = w[i] /\ (w \o a)[i + 1] = w[i + 1]
        BY <1>1, <1>2, <3>1, <3>2
      <4> QED
        BY <4>1 DEF Increasing
    <3>3. CASE ~(i < Len(w))
      <4>1. i \in Len(w)..(Len(w \o a) - 1) /\ i > 0
        BY <1>1, <1>2, <3>1, <3>3
      <4>2. ~((w \o a)[i].seq_no > (w \o a)[i + 1].seq_no)
        BY <1>9, <4>1
      <4>3. (w \o a)[i].seq_no \in Int /\ (w \o a)[i + 1].seq_no \in Int
        <5>1. (w \o a)[i] \in PacketRecord /\ (w \o a)[i + 1] \in PacketRecord
          BY <1>2, <3>1, Zenon
        <5> QED
          BY <5>1 DEF PacketRecord
      <4>4. i + 1 - Len(w) \in DOMAIN a /\ (w \o a)[i + 1] = a[i + 1 - Len(w)]
        BY <1>1, <1>2, <3>1, <3>3
      <4>5. (w \o a)[i].seq_no # (w \o a)[i + 1].seq_no
        <5>1. CASE i = Len(w)
          <6>1. i \in DOMAIN w /\ (w \o a)[i] = w[i]
            BY <1>1, <1>2, <3>1, <5>1
          <6> QED
            BY <4>4, <6>1
        <5>2. CASE i # Len(w)
          <6>1. Len(w) \in Nat /\ Len(a) \in Nat /\ i \in 1..(Len(w) + Len(a))
            BY <1>2, <3>1
          <6>2. /\ i - Len(w) \in 1..Len(a) /\ i - Len(w) # i + 1 - Len(w)
                /\ ~(i <= Len(w))
            BY <3>3, <5>2, <6>1
          <6>3. i - Len(w) \in DOMAIN a
            BY <1>2, <6>2
          <6>4. (w \o a)[i] = a[i - Len(w)]
            BY <1>1, <6>1, <6>2
          <6> QED
            BY <4>4, <6>2, <6>3, <6>4
        <5> QED
          BY <5>1, <5>2
      <4> QED
        BY <4>2, <4>3, <4>5
    <3> QED
      BY <3>2, <3>3
  <2>3. Increasing(w \o a)
    BY <1>1, <2>2, Neighbours
  <2> QED
    BY <1>6, <1>7, <2>1, <2>3
<1> QED
  BY <1>8, <1>9

\* The buffer after a report: what waited and what is not too late, in order
\* and above all that has been played.
LEMMA ReceiveFacts ==
  ASSUME TypeOK, PlayedInOrder, Reported, NEW packets \in Reports,
         ReceiveAppResponse(packets)
  PROVE  /\ jitter_buffer' \in Seq(PacketRecord)
         /\ Elements(jitter_buffer') = Elements(Waiting) \cup {p \in packets : ~TooLate(p)}
         /\ Increasing(jitter_buffer')
         /\ \A i \in DOMAIN Delivered, j \in DOMAIN jitter_buffer' :
              Delivered[i].seq_no < jitter_buffer'[j].seq_no
<1> DEFINE A == {p \in packets : ~TooLate(p)}
<1>1. PICK accepted \in Arrangements(A) :
        jitter_buffer' \in SortedIfNeeded(Waiting \o accepted, Len(Waiting))
  BY DEF ReceiveAppResponse
<1>2. /\ IsFiniteSet(packets) /\ packets \in SUBSET PacketRecord
      /\ \A p \in packets : p.seq_no \in unreported
      /\ \A p, q \in packets : p.seq_no = q.seq_no => p = q
  BY ReportFacts
<1>3. IsFiniteSet(A) /\ A \in SUBSET PacketRecord
  BY <1>2, FS_Subset
<1>4. /\ accepted \in Seq(A) /\ Elements(accepted) = A
      /\ \A i, j \in DOMAIN accepted : i # j => accepted[i] # accepted[j]
  BY <1>3, ArrangementIsSeq
<1>5. accepted \in Seq(PacketRecord)
  BY <1>3, <1>4, SeqMonotonic
<1>6. \A i \in DOMAIN accepted : accepted[i] \in A
  BY <1>4 DEF Elements
<1>7. \A i, j \in DOMAIN accepted : i # j => accepted[i].seq_no # accepted[j].seq_no
  BY <1>2, <1>4, <1>6
<1>8. /\ Increasing(Delivered) /\ Increasing(Waiting)
      /\ \A i \in DOMAIN Delivered, j \in DOMAIN Waiting :
           Delivered[i].seq_no < Waiting[j].seq_no
      /\ SeqNos(Delivered) \cup SeqNos(Waiting) =
              SeqNos(delivered_packets) \cup SeqNos(jitter_buffer)
  BY OrderKept
<1>9. SeqNos(Delivered) \cap unreported = {} /\ SeqNos(Waiting) \cap unreported = {}
  BY <1>8 DEF Reported
<1>10. /\ \A i \in DOMAIN Waiting : Waiting[i].seq_no \notin unreported
       /\ \A i \in DOMAIN Delivered : Delivered[i].seq_no \notin unreported
  BY <1>9 DEF SeqNos
<1>11. \A i \in DOMAIN Waiting, j \in DOMAIN accepted :
         Waiting[i].seq_no # accepted[j].seq_no
  BY <1>2, <1>6, <1>10
<1>12. Waiting \in Seq(PacketRecord) /\ Delivered \in Seq(PacketRecord)
  BY EmitFacts
<1>13. /\ jitter_buffer' \in Seq(PacketRecord)
       /\ Elements(jitter_buffer') = Elements(Waiting) \cup A
       /\ Increasing(jitter_buffer')
  BY <1>1, <1>4, <1>5, <1>7, <1>8, <1>11, <1>12, SortedIsIncreasing
<1>14. ASSUME NEW i \in DOMAIN Delivered, NEW p \in A
       PROVE  Delivered[i].seq_no < p.seq_no
  <2>1. /\ DOMAIN Delivered = 1..Len(Delivered) /\ Len(Delivered) \in Nat
        /\ \A k \in 1..Len(Delivered) : Delivered[k] \in PacketRecord
    BY <1>12, LenProperties, ElementOfSeq
  <2>2. Delivered # << >> /\ Len(Delivered) \in DOMAIN Delivered
    BY <2>1
  <2>3. ~(p.seq_no < Delivered[Len(Delivered)].seq_no)
    BY <2>2 DEF TooLate
  <2>4. p.seq_no # Delivered[Len(Delivered)].seq_no
    BY <1>2, <1>10, <2>2
  <2>5. /\ p.seq_no \in Int /\ Delivered[i].seq_no \in Int
        /\ Delivered[Len(Delivered)].seq_no \in Int
    BY <1>3, <2>1, <2>2 DEF PacketRecord
  <2>6. i = Len(Delivered) \/ Delivered[i].seq_no < Delivered[Len(Delivered)].seq_no
    BY <1>8, <2>1, <2>2 DEF Increasing
  <2> QED
    BY <2>3, <2>4, <2>5, <2>6
<1>15. ASSUME NEW i \in DOMAIN Delivered, NEW j \in DOMAIN jitter_buffer'
       PROVE  Delivered[i].seq_no < jitter_buffer'[j].seq_no
  <2>1. jitter_buffer'[j] \in Elements(Waiting) \cup A
    BY <1>13, Zenon DEF Elements
  <2>2. CASE jitter_buffer'[j] \in A
    BY <1>14, <2>2
  <2>3. CASE jitter_buffer'[j] \in Elements(Waiting)
    <3>1. PICK k \in DOMAIN Waiting : jitter_buffer'[j] = Waiting[k]
      BY <2>3 DEF Elements
    <3> QED
      BY <1>8, <3>1
  <2> QED
    BY <2>1, <2>2, <2>3
<1> QED
  BY <1>13, <1>15

-----------------------------------------------------------------------------
(* UpdateStatistics *)

\* What is kept of the packets played: the last of them, with all between.
LEMMA InWindowFacts ==
  ASSUME NEW s \in Seq(PacketRecord), Increasing(s)
  PROVE  /\ InWindow(s) \in Seq(PacketRecord) /\ Increasing(InWindow(s))
         /\ SeqNos(InWindow(s)) \subseteq SeqNos(s)
         /\ InWindow(s) # << >> =>
              /\ s # << >> /\ InWindow(s)[Len(InWindow(s))] = s[Len(s)]
              /\ s[1].seq_no <= InWindow(s)[1].seq_no
              /\ \A n \in SeqNos(s) : n \in SeqNos(InWindow(s)) \/ n < InWindow(s)[1].seq_no
<1>1. /\ Len(s) \in Nat /\ DOMAIN s = 1..Len(s)
      /\ \A i \in 1..Len(s) : s[i] \in PacketRecord /\ s[i].seq_no \in Int
  <2>1. Len(s) \in Nat /\ DOMAIN s = 1..Len(s) /\ \A i \in 1..Len(s) : s[i] \in PacketRecord
    BY LenProperties, ElementOfSeq
  <2> QED
    BY <2>1 DEF PacketRecord
<1>2. PICK f \in 1..(Len(s) + 1) : InWindow(s) = SubSeq(s, f, Len(s))
  <2>1. CASE Recent(s) = {}
    <3>1. SubSeq(s, Len(s) + 1, Len(s)) = << >>
      <4>1. Len(s) + 1 \in Int /\ Len(s) \in Int /\ Len(s) < Len(s) + 1
        BY <1>1
      <4> QED
        BY <4>1, SubSeqEmpty
    <3>2. Len(s) + 1 \in 1..(Len(s) + 1)
      BY <1>1
    <3> QED
      BY <2>1, <3>1, <3>2 DEF InWindow
  <2>2. CASE Recent(s) # {}
    <3>1. Recent(s) \in SUBSET Nat /\ Recent(s) \subseteq 1..Len(s)
      BY <1>1 DEF Recent
    <3>2. \E i \in Recent(s) : \A j \in Recent(s) : i <= j
      BY <2>2, <3>1, LeastExists
    <3>3. (CHOOSE i \in Recent(s) : \A j \in Recent(s) : i <= j) \in Recent(s)
      BY <3>2
    <3>4. (CHOOSE i \in Recent(s) : \A j \in Recent(s) : i <= j) \in 1..(Len(s) + 1)
      BY <1>1, <3>1, <3>3
    <3> QED
      BY <2>2, <3>4 DEF InWindow
  <2> QED
    BY <2>1, <2>2
<1> DEFINE k == InWindow(s)
<1>3. /\ k \in Seq(PacketRecord) /\ Len(k) = Len(s) - f + 1 /\ Increasing(k)
      /\ \A i \in 1..(Len(s) - f + 1) : k[i] = s[f + i - 1]
  <2>1. Len(s) \in (f - 1)..Len(s)
    BY <1>1
  <2> QED
    BY <1>2, <2>1, IncreasingSubSeq
<1>4. DOMAIN k = 1..(Len(s) - f + 1)
  BY <1>3, LenProperties
<1>5. SeqNos(k) \subseteq SeqNos(s)
  <2> SUFFICES ASSUME NEW i \in DOMAIN k PROVE k[i].seq_no \in SeqNos(s)
    BY DEF SeqNos
  <2>1. f + i - 1 \in 1..Len(s) /\ i \in 1..(Len(s) - f + 1)
    BY <1>1, <1>4
  <2>2. f + i - 1 \in DOMAIN s /\ k[i] = s[f + i - 1]
    BY <1>1, <1>3, <2>1
  <2> QED
    BY <2>2, Zenon DEF SeqNos
<1>6. ASSUME k # << >>
      PROVE  /\ s # << >> /\ k[Len(k)] = s[Len(s)]
             /\ s[1].seq_no <= k[1].seq_no
             /\ \A n \in SeqNos(s) : n \in SeqNos(k) \/ n < k[1].seq_no
  <2>1. Len(k) \in Nat \ {0}
    BY <1>3, <1>6, EmptySeq
  <2>2. f \in 1..Len(s) /\ Len(s) \in Nat \ {0}
    BY <1>1, <1>3, <2>1
  <2>3. k[1] = s[f]
    BY <1>3, <2>2
  <2>4. k[Len(k)] = s[Len(s)]
    <3>1. Len(k) \in 1..(Len(s) - f + 1) /\ f + Len(k) - 1 = Len(s)
      BY <1>1, <1>3, <2>1
    <3> QED
      BY <1>3, <3>1
  <2>5. ASSUME NEW i \in 1..Len(s), i < f PROVE s[i].seq_no < k[1].seq_no
    BY <1>1, <2>2, <2>3, <2>5 DEF Increasing
  <2>6. s[1].seq_no <= k[1].seq_no
    <3>1. CASE f = 1
      BY <1>1, <2>2, <2>3, <3>1
    <3>2. CASE f # 1
      <4>1. 1 \in 1..Len(s) /\ 1 < f
        BY <2>2, <3>2
      <4>2. s[1].seq_no < k[1].seq_no
        BY <2>5, <4>1
      <4> QED
        BY <1>1, <2>2, <2>3, <4>1, <4>2
    <3> QED
      BY <3>1, <3>2
  <2>7. ASSUME NEW i \in 1..Len(s), ~(i < f) PROVE s[i].seq_no \in SeqNos(k)
    <3>1. i - f + 1 \in 1..(Len(s) - f + 1) /\ f + (i - f + 1) - 1 = i
      BY <1>1, <2>2, <2>7
    <3>2. i - f + 1 \in DOMAIN k /\ k[i - f + 1] = s[i]
      BY <1>3, <1>4, <3>1
    <3> QED
      BY <3>2, Zenon DEF SeqNos
  <2>8. \A n \in SeqNos(s) : n \in SeqNos(k) \/ n < k[1].seq_no
    <3> SUFFICES ASSUME NEW i \in 1..Len(s)
                 PROVE  s[i].seq_no \in SeqNos(k) \/ s[i].seq_no < k[1].seq_no
      BY <1>1 DEF SeqNos
    <3> QED
      BY <2>5, <2>7
  <2>9. s # << >>
    BY <2>2, EmptySeq
  <2> QED
    BY <2>4, <2>6, <2>8, <2>9
<1> QED
  BY <1>3, <1>5, <1>6

\* The sequence numbers of packets in order are as many as the packets.
LEMMA SeqNosCardinality ==
  ASSUME NEW s \in Seq(PacketRecord), Increasing(s)
  PROVE  IsFiniteSet(SeqNos(s)) /\ Cardinality(SeqNos(s)) = Len(s)
<1>1. /\ Len(s) \in Nat /\ DOMAIN s = 1..Len(s)
      /\ \A i \in 1..Len(s) : s[i] \in PacketRecord
  BY LenProperties, ElementOfSeq
<1> DEFINE f == [i \in 1..Len(s) |-> s[i].seq_no]
<1>2. \A i \in 1..Len(s) : s[i].seq_no \in Int
  BY <1>1 DEF PacketRecord
<1>3. f \in [1..Len(s) -> SeqNos(s)]
  BY <1>1 DEF SeqNos
<1>4. f \in Surjection(1..Len(s), SeqNos(s))
  BY <1>1, <1>3 DEF Surjection, SeqNos
<1>5. ASSUME NEW i \in 1..Len(s), NEW j \in 1..Len(s), f[i] = f[j] PROVE i = j
  <2>1. s[i].seq_no = s[j].seq_no
    BY <1>5
  <2>2. ~(i < j) /\ ~(j < i)
    BY <1>1, <1>2, <2>1 DEF Increasing
  <2> QED
    BY <1>1, <2>2
<1>6. f \in Injection(1..Len(s), SeqNos(s))
  BY <1>3, <1>5 DEF Injection, IsInjective
<1>7. IsFiniteSet(1..Len(s)) /\ Cardinality(1..Len(s)) = Len(s)
  <2>1. 1 \in Int /\ Len(s) \in Int /\ (IF 1 > Len(s) THEN 0 ELSE Len(s) - 1 + 1) = Len(s)
    BY <1>1
  <2>2. /\ IsFiniteSet(1..Len(s))
        /\ Cardinality(1..Len(s)) = IF 1 > Len(s) THEN 0 ELSE Len(s) - 1 + 1
    BY <2>1, FS_Interval, Zenon
  <2> QED
    BY <2>1, <2>2
<1> QED
  BY <1>4, <1>6, <1>7, FS_Surjection

\* The loss that is computed of packets in order counts the missing numbers.
LEMMA LossOfCounts ==
  ASSUME NEW s \in Seq(PacketRecord), Increasing(s), Len(s) >= 2
  PROVE  /\ LossOf(s) = [lost |-> Cardinality(Gaps(s)),
                         expected |-> Cardinality(Gaps(s)) + Len(s)]
         /\ LossOf(s) \in [lost : Nat, expected : Nat]
<1>1. /\ Len(s) \in Nat /\ DOMAIN s = 1..Len(s)
      /\ \A i \in 1..Len(s) : s[i] \in PacketRecord
  BY LenProperties, ElementOfSeq
<1>2. \A i \in 1..Len(s) : s[i].seq_no \in Int
  BY <1>1 DEF PacketRecord
<1> DEFINE a == s[1].seq_no
           b == s[Len(s)].seq_no
<1>3. a \in Int /\ b \in Int /\ a < b
  <2>1. 1 \in DOMAIN s /\ Len(s) \in DOMAIN s /\ 1 < Len(s)
    BY <1>1
  <2> QED
    BY <1>1, <1>2, <2>1 DEF Increasing
<1>4. SeqNos(s) \subseteq a..b
  <2> SUFFICES ASSUME NEW i \in 1..Len(s) PROVE s[i].seq_no \in a..b
    BY <1>1 DEF SeqNos
  <2>0. Len(s) \in Nat /\ Len(s) >= 2 /\ i \in 1..Len(s)
    BY <1>1
  <2>1. 1 \in DOMAIN s /\ Len(s) \in DOMAIN s /\ i \in DOMAIN s
    BY <1>1, <2>0
  <2>2. a <= s[i].seq_no
    <3>1. CASE i = 1
      BY <1>2, <1>3, <3>1
    <3>2. CASE i # 1
      <4>1. 1 < i
        BY <2>0, <3>2
      <4> QED
        BY <1>1, <1>2, <2>1, <4>1 DEF Increasing
    <3> QED
      BY <3>1, <3>2
  <2>3. s[i].seq_no <= b
    <3>1. CASE i = Len(s)
      BY <1>2, <1>3, <3>1
    <3>2. CASE i # Len(s)
      <4>1. i < Len(s)
        BY <2>0, <3>2
      <4> QED
        BY <1>1, <1>2, <2>1, <4>1 DEF Increasing
    <3> QED
      BY <3>1, <3>2
  <2> QED
    BY <1>2, <1>3, <2>2, <2>3
<1>5. IsFiniteSet(SeqNos(s)) /\ Cardinality(SeqNos(s)) = Len(s)
  BY SeqNosCardinality
<1>6. IsFiniteSet(a..b) /\ Cardinality(a..b) = b - a + 1
  <2>1. IsFiniteSet(a..b) /\ Cardinality(a..b) = IF a > b THEN 0 ELSE b - a + 1
    BY <1>3, FS_Interval, Zenon
  <2> QED
    BY <1>3, <2>1
<1>7. Gaps(s) \cup SeqNos(s) = a..b /\ Gaps(s) \cap SeqNos(s) = {} /\ Gaps(s) \in SUBSET (a..b)
  BY <1>4 DEF Gaps
<1>8. IsFiniteSet(Gaps(s)) /\ Cardinality(Gaps(s)) \in Nat
  BY <1>6, <1>7, FS_Subset, FS_CardinalityType
<1>9. Cardinality(Gaps(s)) + Len(s) = b - a + 1
  <2>1. Cardinality(Gaps(s) \cup SeqNos(s)) =
          Cardinality(Gaps(s)) + Cardinality(SeqNos(s)) - Cardinality(Gaps(s) \cap SeqNos(s))
    BY <1>5, <1>8, FS_Union
  <2>2. Cardinality(Gaps(s) \cap SeqNos(s)) = 0
    BY <1>7, FS_EmptySet
  <2> QED
    <3> DEFINE g == Cardinality(Gaps(s))
               l == Len(s)
    <3>1. g \in Nat /\ l \in Nat
      BY <1>1, <1>8
    <3>2. b - a + 1 = g + l - 0
      BY <1>5, <1>6, <1>7, <2>1, <2>2, Zenon
    <3> QED
      BY <3>1, <3>2
<1>10. LossOf(s) = [lost |-> Cardinality(Gaps(s)),
                    expected |-> Cardinality(Gaps(s)) + Len(s)]
  <2>1. CASE Len(s) < b - a + 1
    <3>1. b - a + 1 - Len(s) = Cardinality(Gaps(s))
      BY <1>1, <1>3, <1>8, <1>9
    <3>2. LossOf(s) = [lost |-> b - a + 1 - Len(s), expected |-> b - a + 1]
      BY <1>1, <1>3, <2>1 DEF LossOf
    <3> QED
      BY <1>9, <3>1, <3>2
  <2>2. CASE ~(Len(s) < b - a + 1)
    <3>1. Cardinality(Gaps(s)) = 0
      BY <1>1, <1>3, <1>8, <1>9, <2>2
    <3>2. LossOf(s) = [lost |-> 0, expected |-> b - a + 1]
      BY <2>2 DEF LossOf
    <3> QED
      BY <1>9, <3>1, <3>2
  <2> QED
    BY <2>1, <2>2
<1>11. Cardinality(Gaps(s)) + Len(s) \in Nat
  BY <1>1, <1>8
<1> QED
  BY <1>8, <1>10, <1>11

-----------------------------------------------------------------------------
(* The steps *)

\* Init establishes the invariant.
LEMMA InitIInv == Init => IInv
<1> SUFFICES ASSUME Init PROVE IInv
  OBVIOUS
<1> USE JitterBufferAssumption
<1>1. << >> \in Seq(PacketRecord)
  OBVIOUS
<1>2. TypeOK
  <2>1. [lost |-> 0, expected |-> 0] \in [lost : Nat, expected : Nat]
    OBVIOUS
  <2>2. 1 + metrics_interval \in Nat /\ 1 \in Nat
    OBVIOUS
  <2> QED
    BY <1>1, <2>1, <2>2, Zenon DEF Init, TypeOK
<1>3. PlayedInOrder
  <2>1. << >> \o << >> = << >>
    BY <1>1, ConcatEmptySeq
  <2>2. Increasing(<< >>)
    BY DEF Increasing
  <2> QED
    BY <2>1, <2>2 DEF Init, PlayedInOrder
<1>4. Reported /\ LastWaited /\ PlayedBefore /\ EmptyAtFirst
  BY DEF Init, Reported, LastWaited, PlayedBefore, EmptyAtFirst, SeqNos
<1>5. Deadline
  BY DEF Init, Deadline
<1> QED
  BY <1>2, <1>3, <1>4, <1>5 DEF IInv

\* The longest wait covers both windows.
LEMMA LongestWaitFacts ==
  /\ LongestWait \in Nat
  /\ metrics_interval + buffer_window <= LongestWait
  /\ metrics_interval + MaxReportLatency <= LongestWait
BY JitterBufferAssumption DEF LongestWait

\* Every element of the buffer after a report is one that waited or a new one.
LEMMA InvReceive ==
  ASSUME IInv, NEW packets \in Reports, ReceiveAppResponse(packets)
  PROVE  IInv'
<1> USE JitterBufferAssumption
<1>1. /\ delivered_packets' = Delivered
      /\ unreported' = unreported \ {p.seq_no : p \in packets}
      /\ played' = played \cup SeqNos(SubSeq(jitter_buffer, 1, Emitted))
      /\ first_report_received' = TRUE
      /\ UNCHANGED <<now, loss, metrics_due, stopped>>
  BY DEF ReceiveAppResponse
<1>2. TypeOK /\ PlayedInOrder /\ Reported /\ LastWaited /\ Deadline /\ PlayedBefore
  BY DEF IInv
<1>3. /\ jitter_buffer' \in Seq(PacketRecord)
      /\ Elements(jitter_buffer') = Elements(Waiting) \cup {p \in packets : ~TooLate(p)}
      /\ Increasing(jitter_buffer')
      /\ \A i \in DOMAIN Delivered, j \in DOMAIN jitter_buffer' :
           Delivered[i].seq_no < jitter_buffer'[j].seq_no
  BY <1>2, ReceiveFacts
<1>4. /\ Delivered \in Seq(PacketRecord)
      /\ Len(Delivered) = Len(delivered_packets) + Emitted
      /\ \A i \in 1..Len(delivered_packets) : Delivered[i] = delivered_packets[i]
      /\ Waiting \in Seq(PacketRecord)
      /\ Len(Waiting) = Len(jitter_buffer) - Emitted
      /\ \A i \in 1..(Len(jitter_buffer) - Emitted) :
           Waiting[i] = jitter_buffer[Emitted + i]
  BY <1>2, EmitFacts
<1>5. /\ Increasing(Delivered)
      /\ SeqNos(Delivered) =
           SeqNos(delivered_packets) \cup SeqNos(SubSeq(jitter_buffer, 1, Emitted))
      /\ SeqNos(Delivered) \cup SeqNos(Waiting) =
           SeqNos(delivered_packets) \cup SeqNos(jitter_buffer)
  BY <1>2, OrderKept
<1>6. /\ packets \in SUBSET PacketRecord
      /\ \A p \in packets : now - p.time_received <= MaxReportLatency
  BY <1>2, ReportFacts
<1>7. \A j \in DOMAIN jitter_buffer' :
        jitter_buffer'[j] \in packets \/ \E i \in DOMAIN Waiting : jitter_buffer'[j] = Waiting[i]
  BY <1>3 DEF Elements
<1>8. TypeOK'
  <2>1. SeqNos(Delivered) \subseteq 1..MaxSeqNo
    <3>1. \A i \in DOMAIN Delivered : Delivered[i] \in PacketRecord
      BY <1>4, LenProperties, ElementOfSeq
    <3> QED
      BY <3>1 DEF SeqNos, PacketRecord
  <2>2. played' \subseteq 1..MaxSeqNo
    BY <1>1, <1>2, <1>5, <2>1 DEF TypeOK
  <2> QED
    BY <1>1, <1>2, <1>3, <1>4, <2>2 DEF TypeOK
<1>9. PlayedInOrder'
  BY <1>1, <1>3, <1>4, <1>5, IncreasingConcat DEF PlayedInOrder
<1>10. Reported'
  <2>1. SeqNos(delivered_packets)' \cap unreported' = {}
    BY <1>1, <1>2, <1>5 DEF Reported
  <2>2. ASSUME NEW j \in DOMAIN jitter_buffer'
        PROVE  jitter_buffer'[j].seq_no \notin unreported'
    <3>1. CASE jitter_buffer'[j] \in packets
      BY <1>1, <3>1
    <3>2. CASE \E i \in DOMAIN Waiting : jitter_buffer'[j] = Waiting[i]
      <4>1. jitter_buffer'[j].seq_no \in SeqNos(Waiting)
        BY <3>2 DEF SeqNos
      <4> QED
        BY <1>1, <1>2, <1>5, <4>1 DEF Reported
    <3> QED
      BY <1>7, <3>1, <3>2
  <2>3. SeqNos(jitter_buffer)' \cap unreported' = {}
    BY <2>2 DEF SeqNos
  <2> QED
    BY <2>1, <2>3 DEF Reported
<1>11. LastWaited'
  BY <1>1, <1>2, EmitTimes DEF LastWaited
<1>12. Deadline'
  <2> SUFFICES ASSUME ~stopped
               PROVE  \A j \in DOMAIN jitter_buffer' :
                        metrics_due - jitter_buffer'[j].time_received <= LongestWait
    BY <1>1, <1>2 DEF Deadline, LongestWait
  <2> TAKE j \in DOMAIN jitter_buffer'
  <2>1. /\ now <= metrics_due /\ metrics_due <= now + metrics_interval
        /\ now \in Nat /\ metrics_due \in Nat
        /\ \A i \in DOMAIN jitter_buffer :
             metrics_due - jitter_buffer[i].time_received <= LongestWait
    BY <1>2 DEF Deadline, TypeOK
  <2>2. CASE jitter_buffer'[j] \in packets
    <3>1. jitter_buffer'[j].time_received \in Nat
      BY <1>6, <2>2 DEF PacketRecord
    <3>2. now - jitter_buffer'[j].time_received <= MaxReportLatency
      BY <1>6, <2>2
    <3> QED
      BY <2>1, <3>1, <3>2, LongestWaitFacts
  <2>3. CASE \E i \in DOMAIN Waiting : jitter_buffer'[j] = Waiting[i]
    <3>1. PICK i \in DOMAIN Waiting : jitter_buffer'[j] = Waiting[i]
      BY <2>3
    <3>2. i \in 1..(Len(jitter_buffer) - Emitted)
      BY <1>4, LenProperties
    <3>3. /\ Emitted \in 0..Len(jitter_buffer) /\ Len(jitter_buffer) \in Nat
          /\ DOMAIN jitter_buffer = 1..Len(jitter_buffer)
      BY <1>2, EmittedFacts, LenProperties DEF TypeOK
    <3>4. Emitted + i \in DOMAIN jitter_buffer
      BY <3>2, <3>3
    <3> QED
      BY <1>4, <2>1, <3>1, <3>2, <3>4
  <2> QED
    BY <1>7, <2>2, <2>3
<1>13. PlayedBefore'
  <2> SUFFICES ASSUME NEW n \in played'
               PROVE  \/ n \in SeqNos(Delivered)
                      \/ Delivered # << >> /\ n < Delivered[1].seq_no
    BY <1>1 DEF PlayedBefore, SeqNos
  <2>1. CASE n \in SeqNos(SubSeq(jitter_buffer, 1, Emitted))
    BY <1>5, <2>1
  <2>2. CASE n \in played
    <3>1. CASE n \in SeqNos(delivered_packets)
      BY <1>5, <3>1
    <3>2. CASE delivered_packets # << >> /\ n < delivered_packets[1].seq_no
      <4>1. delivered_packets \in Seq(PacketRecord) /\ Emitted \in Nat
        BY <1>2, EmittedFacts DEF TypeOK
      <4>2. Len(delivered_packets) \in Nat \ {0}
        BY <3>2, <4>1, EmptySeq
      <4>3. Delivered[1] = delivered_packets[1] /\ Len(Delivered) # 0
        BY <1>4, <4>1, <4>2
      <4> QED
        BY <3>2, <4>3, EmptySeq
    <3> QED
      BY <1>2, <2>2, <3>1, <3>2 DEF PlayedBefore
  <2> QED
    BY <1>1, <2>1, <2>2
<1>14. EmptyAtFirst'
  BY <1>1 DEF EmptyAtFirst
<1> QED
  BY <1>8, <1>9, <1>10, <1>11, <1>12, <1>13, <1>14 DEF IInv

\* What UpdateStatistics keeps of the packets played, and what waits after it.
LEMMA UpdateFacts ==
  ASSUME IInv, UpdateStatistics
  PROVE  /\ jitter_buffer' = Waiting
         /\ delivered_packets' \in Seq(PacketRecord) /\ Increasing(delivered_packets')
         /\ SeqNos(delivered_packets') \subseteq SeqNos(Delivered)
         /\ played' = IF delivered_packets' = << >> THEN {}
                      ELSE played \cup SeqNos(SubSeq(jitter_buffer, 1, Emitted))
         /\ delivered_packets' # << >> =>
              /\ Delivered # << >>
              /\ delivered_packets'[Len(delivered_packets')] = Delivered[Len(Delivered)]
              /\ \A n \in played' : \/ n \in SeqNos(delivered_packets')
                                    \/ n < delivered_packets'[1].seq_no
         /\ Len(delivered_packets') >= 2 => loss' = LossOf(delivered_packets')
         /\ ~(Len(delivered_packets') >= 2) => loss' = loss
<1>1. TypeOK /\ PlayedInOrder /\ PlayedBefore
  BY DEF IInv
<1>2. /\ Delivered \in Seq(PacketRecord)
      /\ Len(Delivered) = Len(delivered_packets) + Emitted
      /\ \A i \in 1..Len(delivered_packets) : Delivered[i] = delivered_packets[i]
  BY <1>1, EmitFacts
<1>3. /\ Increasing(Delivered)
      /\ SeqNos(Delivered) =
           SeqNos(delivered_packets) \cup SeqNos(SubSeq(jitter_buffer, 1, Emitted))
  BY <1>1, OrderKept
<1>4. /\ jitter_buffer' = Waiting
      /\ delivered_packets' = InWindow(Delivered)
      /\ loss' = IF Len(delivered_packets') < 2 THEN loss ELSE LossOf(delivered_packets')
      /\ played' = IF delivered_packets' = << >> THEN {}
                   ELSE played \cup SeqNos(SubSeq(jitter_buffer, 1, Emitted))
  BY Zenon DEF UpdateStatistics
<1> DEFINE k == InWindow(Delivered)
<1>5. /\ k \in Seq(PacketRecord) /\ Increasing(k) /\ SeqNos(k) \subseteq SeqNos(Delivered)
      /\ k # << >> =>
           /\ Delivered # << >> /\ k[Len(k)] = Delivered[Len(Delivered)]
           /\ Delivered[1].seq_no <= k[1].seq_no
           /\ \A n \in SeqNos(Delivered) : n \in SeqNos(k) \/ n < k[1].seq_no
  BY <1>2, <1>3, InWindowFacts
<1>6. ASSUME k # << >>, NEW n \in played'
      PROVE  n \in SeqNos(k) \/ n < k[1].seq_no
  <2>1. n \in played \/ n \in SeqNos(Delivered)
    BY <1>3, <1>4, <1>6
  <2>2. CASE n \in SeqNos(Delivered)
    BY <1>5, <1>6, <2>2
  <2>3. CASE n \in played /\ n \notin SeqNos(Delivered)
    <3>1. delivered_packets # << >> /\ n < delivered_packets[1].seq_no
      BY <1>1, <1>3, <2>3 DEF PlayedBefore
    <3>2. Len(delivered_packets) \in Nat \ {0}
      BY <1>1, <3>1, EmptySeq DEF TypeOK
    <3>3. Delivered[1] = delivered_packets[1]
      BY <1>2, <3>2
    <3>4. Len(Delivered) \in Nat \ {0} /\ Len(k) \in Nat \ {0}
      BY <1>2, <1>5, <1>6, EmptySeq
    <3>5. Delivered[1] \in PacketRecord /\ k[1] \in PacketRecord
      BY <1>2, <1>5, <3>4, ElementOfSeq
    <3>6. /\ n \in Int /\ Delivered[1].seq_no \in Int /\ k[1].seq_no \in Int
          /\ n < Delivered[1].seq_no /\ Delivered[1].seq_no <= k[1].seq_no
      BY <1>1, <1>5, <1>6, <2>3, <3>1, <3>3, <3>5 DEF TypeOK, PacketRecord
    <3> QED
      BY <3>6
  <2> QED
    BY <2>1, <2>2, <2>3
<1>7. Len(delivered_packets') \in Nat
  BY <1>4, <1>5, LenProperties
<1>8. /\ Len(delivered_packets') >= 2 => loss' = LossOf(delivered_packets')
      /\ ~(Len(delivered_packets') >= 2) => loss' = loss
  BY <1>4, <1>7
<1> HIDE DEF k
<1> QED
  BY <1>4, <1>5, <1>6, <1>8 DEF k

\* RecordMetrics keeps the invariant.
LEMMA InvRecordMetrics ==
  ASSUME IInv, RecordMetrics
  PROVE  IInv'
<1> USE JitterBufferAssumption
<1>1. TypeOK /\ PlayedInOrder /\ Reported /\ LastWaited /\ Deadline /\ PlayedBefore
      /\ EmptyAtFirst
  BY DEF IInv
<1>2. /\ metrics_due = now
      /\ metrics_due' = IF stopped THEN 0 ELSE now + metrics_interval
      /\ UNCHANGED <<now, first_report_received, stopped, unreported>>
  BY DEF RecordMetrics
<1>3. metrics_due' \in Nat /\ now \in Nat
  BY <1>1, <1>2 DEF TypeOK
<1>4. CASE ~stopped /\ first_report_received
  <2>1. UpdateStatistics
    BY <1>4 DEF RecordMetrics
  <2>2. /\ jitter_buffer' = Waiting
        /\ delivered_packets' \in Seq(PacketRecord) /\ Increasing(delivered_packets')
        /\ SeqNos(delivered_packets') \subseteq SeqNos(Delivered)
        /\ played' = IF delivered_packets' = << >> THEN {}
                     ELSE played \cup SeqNos(SubSeq(jitter_buffer, 1, Emitted))
        /\ delivered_packets' # << >> =>
             /\ Delivered # << >>
             /\ delivered_packets'[Len(delivered_packets')] = Delivered[Len(Delivered)]
             /\ \A n \in played' : \/ n \in SeqNos(delivered_packets')
                                   \/ n < delivered_packets'[1].seq_no
        /\ Len(delivered_packets') >= 2 => loss' = LossOf(delivered_packets')
        /\ ~(Len(delivered_packets') >= 2) => loss' = loss
    BY <2>1, UpdateFacts
  <2>3. Waiting \in Seq(PacketRecord) /\ Delivered \in Seq(PacketRecord)
    BY <1>1, EmitFacts
  <2>4. /\ Increasing(Waiting)
        /\ \A i \in DOMAIN Delivered, j \in DOMAIN Waiting :
             Delivered[i].seq_no < Waiting[j].seq_no
        /\ SeqNos(Delivered) =
             SeqNos(delivered_packets) \cup SeqNos(SubSeq(jitter_buffer, 1, Emitted))
        /\ SeqNos(Delivered) \cup SeqNos(Waiting) =
             SeqNos(delivered_packets) \cup SeqNos(jitter_buffer)
    BY <1>1, OrderKept
  <2>5. TypeOK'
    <3>1. SeqNos(Delivered) \subseteq 1..MaxSeqNo
      <4>1. \A i \in DOMAIN Delivered : Delivered[i] \in PacketRecord
        BY <2>3, LenProperties, ElementOfSeq
      <4> QED
        BY <4>1 DEF SeqNos, PacketRecord
    <3>2. played' \subseteq 1..MaxSeqNo
      BY <1>1, <2>2, <2>4, <3>1 DEF TypeOK
    <3>3. loss' \in [lost : Nat, expected : Nat]
      <4>1. CASE Len(delivered_packets') >= 2
        BY <2>2, <4>1, LossOfCounts
      <4>2. CASE ~(Len(delivered_packets') >= 2)
        BY <1>1, <2>2, <4>2 DEF TypeOK
      <4> QED
        BY <4>1, <4>2
    <3> QED
      BY <1>1, <1>2, <1>3, <2>2, <2>3, <3>2, <3>3 DEF TypeOK
  <2>6. PlayedInOrder'
    <3> SUFFICES ASSUME NEW i \in DOMAIN delivered_packets', NEW j \in DOMAIN Waiting
                 PROVE  delivered_packets'[i].seq_no < Waiting[j].seq_no
      BY <2>2, <2>3, <2>4, IncreasingConcat DEF PlayedInOrder
    <3>1. delivered_packets'[i].seq_no \in SeqNos(Delivered)
      BY <2>2 DEF SeqNos
    <3>2. PICK k \in DOMAIN Delivered : delivered_packets'[i].seq_no = Delivered[k].seq_no
      BY <3>1 DEF SeqNos
    <3> QED
      BY <2>4, <3>2
  <2>7. Reported'
    <3>1. SeqNos(delivered_packets)' = SeqNos(delivered_packets')
          /\ SeqNos(jitter_buffer)' = SeqNos(Waiting)
      BY <2>2 DEF SeqNos
    <3> QED
      BY <1>1, <1>2, <2>2, <2>4, <3>1 DEF Reported
  <2>8. LastWaited'
    BY <1>1, <1>2, <2>2, EmitTimes DEF LastWaited
  <2>9. Deadline'
    <3>1. metrics_due' = now + metrics_interval
      BY <1>2, <1>4
    <3>2. ASSUME NEW i \in DOMAIN Waiting
          PROVE  metrics_due' - Waiting[i].time_received <= LongestWait
      <4>1. now - Waiting[i].time_received <= buffer_window
        BY <1>1, EmitTimes
      <4>2. Waiting[i] \in PacketRecord
        BY <2>3, LenProperties, ElementOfSeq
      <4>3. Waiting[i].time_received \in Nat
        BY <4>2 DEF PacketRecord
      <4> QED
        BY <1>3, <3>1, <4>1, <4>3, LongestWaitFacts
    <3>3. LongestWait' = LongestWait
      BY DEF LongestWait
    <3>4. now <= metrics_due' /\ metrics_due' <= now + metrics_interval
      BY <1>3, <3>1
    <3> QED
      BY <1>2, <2>2, <3>2, <3>3, <3>4 DEF Deadline
  <2>10. PlayedBefore'
    <3>1. SeqNos(delivered_packets)' = SeqNos(delivered_packets')
      BY DEF SeqNos
    <3> QED
      BY <2>2, <3>1 DEF PlayedBefore
  <2>11. EmptyAtFirst'
    BY <1>2, <1>4 DEF EmptyAtFirst
  <2> QED
    BY <2>5, <2>6, <2>7, <2>8, <2>9, <2>10, <2>11 DEF IInv
<1>5. CASE stopped \/ ~first_report_received
  <2>1. UNCHANGED <<jitter_buffer, delivered_packets, loss, played>>
    BY <1>5 DEF RecordMetrics
  <2>2. TypeOK'
    BY <1>1, <1>2, <1>3, <2>1 DEF TypeOK
  <2>3. PlayedInOrder' /\ Reported' /\ LastWaited' /\ PlayedBefore' /\ EmptyAtFirst'
    BY <1>1, <1>2, <2>1
       DEF PlayedInOrder, Reported, LastWaited, PlayedBefore, EmptyAtFirst, SeqNos, Increasing
  <2>4. Deadline'
    <3> SUFFICES ASSUME ~stopped PROVE Deadline'
      BY <1>2 DEF Deadline
    <3>1. DOMAIN jitter_buffer' = {}
      BY <1>1, <1>5, <2>1 DEF EmptyAtFirst
    <3>2. now <= metrics_due' /\ metrics_due' <= now + metrics_interval
      BY <1>2, <1>3
    <3> QED
      BY <1>2, <3>1, <3>2 DEF Deadline
  <2> QED
    BY <2>2, <2>3, <2>4 DEF IInv
<1> QED
  BY <1>4, <1>5

\* Every step keeps the invariant.
LEMMA NextIInv == IInv /\ [Next]_vars => IInv'
<1> SUFFICES ASSUME IInv, [Next]_vars PROVE IInv'
  OBVIOUS
<1>1. ASSUME NEW packets \in Reports, ReceiveAppResponse(packets) PROVE IInv'
  BY <1>1, InvReceive
<1>2. CASE RecordMetrics
  BY <1>2, InvRecordMetrics
<1>3. CASE StopAppTraffic
  BY <1>3 DEF StopAppTraffic, IInv, TypeOK, PlayedInOrder, Reported, LastWaited, Deadline,
              PlayedBefore, EmptyAtFirst, SeqNos, Increasing
<1>4. CASE Tick
  <2>1. /\ now' = now + 1 /\ metrics_due # now
        /\ UNCHANGED <<jitter_buffer, delivered_packets, loss, first_report_received,
                       metrics_due, stopped, unreported, played>>
    BY <1>4 DEF Tick
  <2>2. /\ TypeOK /\ PlayedInOrder /\ Reported /\ LastWaited /\ Deadline /\ PlayedBefore
        /\ EmptyAtFirst
    BY DEF IInv
  <2>3. now \in Nat /\ metrics_due \in Nat
    BY <2>2 DEF TypeOK
  <2>4. TypeOK'
    BY <2>1, <2>2, <2>3 DEF TypeOK
  <2>5. PlayedInOrder' /\ Reported' /\ PlayedBefore' /\ EmptyAtFirst'
    BY <2>1, <2>2 DEF PlayedInOrder, Reported, PlayedBefore, EmptyAtFirst, SeqNos, Increasing
  <2>6. LastWaited'
    <3> SUFFICES ASSUME delivered_packets' # << >>
                 PROVE  now' - delivered_packets'[Len(delivered_packets')].time_received
                          > buffer_window
      BY DEF LastWaited
    <3>1. delivered_packets \in Seq(PacketRecord) /\ Len(delivered_packets) \in Nat \ {0}
      BY <2>1, <2>2, EmptySeq DEF TypeOK
    <3>2. delivered_packets[Len(delivered_packets)] \in PacketRecord
      BY <3>1, ElementOfSeq
    <3>3. delivered_packets[Len(delivered_packets)].time_received \in Nat
      BY <3>2 DEF PacketRecord
    <3> QED
      BY <2>1, <2>2, <2>3, <3>3, JitterBufferAssumption DEF LastWaited
  <2>7. Deadline'
    <3>1. LongestWait' = LongestWait
      BY DEF LongestWait
    <3>2. ASSUME ~stopped PROVE now + 1 <= metrics_due /\ metrics_due <= now + 1 + metrics_interval
      BY <2>1, <2>2, <2>3, <3>2, JitterBufferAssumption DEF Deadline
    <3> QED
      BY <2>1, <2>2, <3>1, <3>2 DEF Deadline
  <2> QED
    BY <2>4, <2>5, <2>6, <2>7 DEF IInv
<1>5. CASE UNCHANGED vars
  BY <1>5 DEF vars, IInv, TypeOK, PlayedInOrder, Reported, LastWaited, Deadline,
              PlayedBefore, EmptyAtFirst, SeqNos, Increasing
<1> QED
  BY <1>1, <1>2, <1>3, <1>4, <1>5 DEF Next

-----------------------------------------------------------------------------
(* The theorems *)

\* The inductive invariant holds in every reachable state.
THEOREM Invariant == Spec => []IInv
BY InitIInv, NextIInv, PTL DEF Spec

\* Every variable keeps its type; the loss is never negative.
THEOREM TypeCorrect == Spec => []TypeOK
<1>1. IInv => TypeOK
  BY DEF IInv
<1> QED
  BY Invariant, <1>1, PTL

\* Packets are played in the order of their numbers, whatever the order of
\* the reports.
THEOREM PlayedInOrderAlways == Spec => []PlayedInOrder
<1>1. IInv => PlayedInOrder
  BY DEF IInv
<1> QED
  BY Invariant, <1>1, PTL

\* No packet waits longer than one of the windows and one metrics_interval.
THEOREM BufferedAtMostAlways == Spec => []BufferedAtMost
<1>1. IInv => BufferedAtMost
  <2> SUFFICES ASSUME IInv, ~stopped, NEW i \in DOMAIN jitter_buffer
               PROVE  now - jitter_buffer[i].time_received <= LongestWait
    BY DEF BufferedAtMost
  <2>1. /\ now <= metrics_due /\ now \in Nat /\ metrics_due \in Nat
        /\ metrics_due - jitter_buffer[i].time_received <= LongestWait
    BY DEF IInv, Deadline, TypeOK
  <2>2. jitter_buffer[i] \in PacketRecord
    BY LenProperties, ElementOfSeq DEF IInv, TypeOK
  <2>3. jitter_buffer[i].time_received \in Nat
    BY <2>2 DEF PacketRecord
  <2> QED
    BY <2>1, <2>3, LongestWaitFacts
<1> QED
  BY Invariant, <1>1, PTL

\* A packet is refused only if a later one arrived more than buffer_window ago.
THEOREM RefusedOnlyIfLate == Spec => LateIsReallyLate
<1> DEFINE A == \A n \in unreported \ unreported' :
                  n \in SeqNos(jitter_buffer')
                  \/ \E i \in DOMAIN delivered_packets' :
                       /\ delivered_packets'[i].seq_no > n
                       /\ now - delivered_packets'[i].time_received > buffer_window
<1>1. ASSUME IInv, [Next]_vars PROVE [A]_vars
  <2> SUFFICES ASSUME NEW n \in unreported \ unreported' PROVE
                  \/ n \in SeqNos(jitter_buffer')
                  \/ \E i \in DOMAIN delivered_packets' :
                       /\ delivered_packets'[i].seq_no > n
                       /\ now - delivered_packets'[i].time_received > buffer_window
    OBVIOUS
  <2>1. PICK packets \in Reports : ReceiveAppResponse(packets)
    BY <1>1 DEF Next, RecordMetrics, StopAppTraffic, Tick, vars
  <2>2. delivered_packets' = Delivered /\ unreported' = unreported \ {p.seq_no : p \in packets}
    BY <2>1 DEF ReceiveAppResponse
  <2>3. PICK p \in packets : p.seq_no = n
    BY <2>2
  <2>4. TypeOK /\ PlayedInOrder /\ Reported /\ LastWaited
    BY <1>1 DEF IInv
  <2>5. Elements(jitter_buffer') = Elements(Waiting) \cup {q \in packets : ~TooLate(q)}
    BY <2>1, <2>4, ReceiveFacts
  <2>6. CASE ~TooLate(p)
    <3>1. p \in Elements(jitter_buffer')
      BY <2>5, <2>6
    <3> QED
      BY <2>3, <3>1 DEF Elements, SeqNos
  <2>7. CASE TooLate(p)
    <3>1. Delivered # << >> /\ n < Delivered[Len(Delivered)].seq_no
      BY <2>3, <2>7 DEF TooLate
    <3>2. Delivered \in Seq(PacketRecord)
      BY <2>4, EmitFacts
    <3>3. Len(Delivered) \in Nat \ {0}
      BY <3>1, <3>2, EmptySeq
    <3>4. Len(Delivered) \in DOMAIN Delivered /\ Delivered[Len(Delivered)] \in PacketRecord
      BY <3>2, <3>3, LenProperties, ElementOfSeq
    <3>5. now - Delivered[Len(Delivered)].time_received > buffer_window
      BY <2>4, <3>1, EmitTimes
    <3>6. Delivered[Len(Delivered)].seq_no > n
      <4>1. Delivered[Len(Delivered)].seq_no \in Int /\ n \in Int
        BY <2>4, <3>4 DEF PacketRecord, TypeOK
      <4> QED
        BY <3>1, <4>1
    <3> QED
      BY <2>2, <3>4, <3>5, <3>6
  <2> QED
    BY <2>6, <2>7
<1> HIDE DEF A
<1>2. [][A]_vars => LateIsReallyLate
  BY PTL DEF A, LateIsReallyLate
<1> QED
  BY Invariant, <1>1, <1>2, PTL DEF Spec

\* The loss counts the numbers missing among the packets kept.
LEMMA LossCountsGapsAlways == Spec => LossCountsGaps
<1> DEFINE A == RecordMetrics /\ ~stopped /\ Len(delivered_packets') >= 2
                  => loss' = [lost |-> Cardinality(Gaps(delivered_packets')),
                              expected |-> Cardinality(Gaps(delivered_packets'))
                                           + Len(delivered_packets')]
<1>1. ASSUME IInv, [Next]_vars PROVE [A]_vars
  <2> SUFFICES ASSUME RecordMetrics, ~stopped, Len(delivered_packets') >= 2
               PROVE  loss' = [lost |-> Cardinality(Gaps(delivered_packets')),
                               expected |-> Cardinality(Gaps(delivered_packets'))
                                            + Len(delivered_packets')]
    OBVIOUS
  <2>1. UpdateStatistics
    <3>1. CASE first_report_received
      BY <3>1 DEF RecordMetrics
    <3>2. CASE ~first_report_received
      <4>1. delivered_packets' = << >>
        BY <1>1, <3>2 DEF RecordMetrics, IInv, EmptyAtFirst
      <4> QED
        BY <4>1
    <3> QED
      BY <3>1, <3>2
  <2>2. /\ delivered_packets' \in Seq(PacketRecord) /\ Increasing(delivered_packets')
        /\ loss' = LossOf(delivered_packets')
    BY <1>1, <2>1, UpdateFacts
  <2> QED
    BY <2>2, LossOfCounts
<1> HIDE DEF A
<1>2. [][A]_vars => LossCountsGaps
  BY PTL DEF A, LossCountsGaps
<1> QED
  BY Invariant, <1>1, <1>2, PTL DEF Spec

\* No packet that has been played is counted as lost.
LEMMA LostWasNotPlayedAlways == Spec => LostWasNotPlayed
<1> DEFINE A == RecordMetrics /\ ~stopped /\ Len(delivered_packets') >= 2
                  => Gaps(delivered_packets') \cap played' = {}
<1>1. ASSUME IInv, [Next]_vars PROVE [A]_vars
  <2> SUFFICES ASSUME RecordMetrics, ~stopped, Len(delivered_packets') >= 2,
                      NEW n \in Gaps(delivered_packets'), n \in played'
               PROVE  FALSE
    BY Zenon
  <2>1. UpdateStatistics
    <3>1. CASE first_report_received
      BY <3>1 DEF RecordMetrics
    <3>2. CASE ~first_report_received
      <4>1. delivered_packets' = << >>
        BY <1>1, <3>2 DEF RecordMetrics, IInv, EmptyAtFirst
      <4> QED
        BY <4>1
    <3> QED
      BY <3>1, <3>2
  <2>2. delivered_packets' # << >> /\ delivered_packets' \in Seq(PacketRecord)
    BY <1>1, <2>1, UpdateFacts
  <2>3. n \in SeqNos(delivered_packets') \/ n < delivered_packets'[1].seq_no
    BY <1>1, <2>1, <2>2, UpdateFacts
  <2>4. /\ n \in delivered_packets'[1].seq_no
                 .. delivered_packets'[Len(delivered_packets')].seq_no
        /\ n \notin SeqNos(delivered_packets')
    BY DEF Gaps
  <2>5. 1 \in 1..Len(delivered_packets')
    BY <2>2, LenProperties
  <2>6. delivered_packets'[1] \in PacketRecord
    BY <2>2, <2>5, ElementOfSeq
  <2>7. delivered_packets'[1].seq_no \in Int
    BY <2>6 DEF PacketRecord
  <2> QED
    BY <2>3, <2>4, <2>7
<1> HIDE DEF A
<1>2. [][A]_vars => LostWasNotPlayed
  BY PTL DEF A, LostWasNotPlayed
<1> QED
  BY Invariant, <1>1, <1>2, PTL DEF Spec

\* The difference of two numbers that the code computes as the loss counts the
\* packets that are missing, none of which has been played.
THEOREM LossIsAlwaysRight == Spec => LossIsRight
BY LossCountsGapsAlways, LostWasNotPlayedAlways DEF LossIsRight

=============================================================================
