---------------------------- MODULE JitterBuffer ----------------------------
(***************************************************************************)
(* The metrics of a Polaris connection (connection-metrics.cc and what     *)
(* polaris.cc calls of it): the packets that the reports of the receiver   *)
(* tell of go through a jitter buffer, in which they wait for those of     *)
(* lower sequence numbers; the ones played are kept for a tracking window, *)
(* of which every metrics_interval the loss is computed.                   *)
(*                                                                         *)
(* The reports come from two paths and overtake one another.  Only the     *)
(* sequence number and the time of arrival of a packet are modelled: its   *)
(* size, and the latency and jitter that are printed, are not.             *)
(***************************************************************************)
EXTENDS Integers, Sequences, FiniteSets

CONSTANTS
  buffer_window,     \* how long a packet waits for those before it
  tracking_window,   \* how long a packet that has been played is kept
  metrics_interval,
  MaxReportLatency,  \* longest time from a packet's arrival to its report's
  MaxReport,         \* bound of the number of packets of a report
  MaxSeqNo,          \* bound of the sequence numbers
  MaxTime            \* bound of the clock

ASSUME JitterBufferAssumption ==
  /\ buffer_window \in Nat /\ tracking_window \in Nat
  /\ metrics_interval \in Nat \ {0}
  /\ MaxReportLatency \in Nat /\ MaxReport \in Nat
  /\ MaxSeqNo \in Nat /\ MaxTime \in Nat

VARIABLES
  now,                   \* Simulator::Now()
  jitter_buffer,         \* the packets that wait
  delivered_packets,     \* the packets played, as far as they are kept
  loss,                  \* packets lost, of how many expected
  first_report_received,
  metrics_due,           \* when RecordMetrics runs next, 0 for never
  stopped,
  unreported,            \* the sequence numbers no report has told of
  played                 \* those played since delivered_packets was cleared

vars == <<now, jitter_buffer, delivered_packets, loss, first_report_received,
          metrics_due, stopped, unreported, played>>

\* The fields of a PacketRecord that matter.
PacketRecord == [seq_no : 1..MaxSeqNo, time_received : Nat]

TypeOK ==
  /\ now \in Nat
  /\ jitter_buffer \in Seq(PacketRecord) /\ delivered_packets \in Seq(PacketRecord)
  /\ loss \in [lost : Nat, expected : Nat]
  /\ first_report_received \in BOOLEAN
  /\ metrics_due \in Nat
  /\ stopped \in BOOLEAN
  /\ unreported \subseteq 1..MaxSeqNo
  /\ played \subseteq 1..MaxSeqNo

Elements(s) == {s[i] : i \in DOMAIN s}
SeqNos(s) == {s[i].seq_no : i \in DOMAIN s}

\* The orders in which the packets of a set can stand.
Arrangements(S) ==
  {s \in [1..Cardinality(S) -> S] : \A i, j \in DOMAIN s : i # j => s[i] # s[j]}

\* The packets stand in the order of their sequence numbers.
Increasing(s) == \A i, j \in DOMAIN s : i < j => s[i].seq_no < s[j].seq_no

-----------------------------------------------------------------------------
(* The jitter buffer *)

\* Places in the buffer of the packets that have waited long enough.
Overdue == {i \in DOMAIN jitter_buffer : now - jitter_buffer[i].time_received > buffer_window}

\* Mutant: the buffer is searched from its front.
EmittedUpToFirst ==
  IF Overdue = {} THEN 0 ELSE CHOOSE i \in Overdue : \A j \in Overdue : i <= j

\* Mutant: the packet after the last overdue one goes along with it.
EmittedAndNext ==
  LET last == CHOOSE i \in Overdue : \A j \in Overdue : j <= i
  IN  IF Overdue = {} THEN 0 ELSE IF last < Len(jitter_buffer) THEN last + 1 ELSE last

\* How many packets EmitFromBuffer takes: up to the last overdue one,
\* however short those before it have waited.
Emitted == IF Overdue = {} THEN 0 ELSE CHOOSE i \in Overdue : \A j \in Overdue : j <= i

\* The packets played and the packets that wait, after EmitFromBuffer.
Delivered == delivered_packets \o SubSeq(jitter_buffer, 1, Emitted)
Waiting == SubSeq(jitter_buffer, Emitted + 1, Len(jitter_buffer))

\* A packet is ignored if one with a higher sequence number has been played.
TooLate(packet) ==
  Delivered # << >> /\ packet.seq_no < Delivered[Len(Delivered)].seq_no

\* Mutant: the order of the first new packet and the buffer is not looked at.
SortedFromFirstNew(appended, old) ==
  {s \in Arrangements(Elements(appended)) :
     IF \E i \in (old + 1)..(Len(appended) - 1) :
          appended[i].seq_no > appended[i + 1].seq_no
       THEN Increasing(s) ELSE s = appended}

\* The buffer with new packets after its old ones: it is sorted, unless no
\* packet stands before one with a lower sequence number.
SortedIfNeeded(appended, old) ==
  {s \in Arrangements(Elements(appended)) :
     IF \E i \in old..(Len(appended) - 1) :
          i > 0 /\ appended[i].seq_no > appended[i + 1].seq_no
       THEN Increasing(s) ELSE s = appended}

\* ReceiveAppResponse and BufferPackets.  Packets stand in a report in the
\* order in which they arrived, which may be any.
ReceiveAppResponse(packets) ==
  /\ first_report_received' = TRUE
  /\ unreported' = unreported \ {p.seq_no : p \in packets}
  /\ delivered_packets' = Delivered
  /\ played' = played \cup SeqNos(SubSeq(jitter_buffer, 1, Emitted))
  /\ \E accepted \in Arrangements({p \in packets : ~TooLate(p)}) :
       jitter_buffer' \in SortedIfNeeded(Waiting \o accepted, Len(Waiting))
  /\ UNCHANGED <<now, loss, metrics_due, stopped>>

-----------------------------------------------------------------------------
(* The statistics *)

\* Places in s of the packets that are within the tracking window.
Recent(s) == {i \in DOMAIN s : now - s[i].time_received <= tracking_window}

\* Mutant: every packet out of the tracking window is erased, wherever it stands.
RecentOnly(s) == SelectSeq(s, LAMBDA p : now - p.time_received <= tracking_window)

\* What is kept of s: all from the first recent packet on.
InWindow(s) ==
  IF Recent(s) = {} THEN << >>
    ELSE SubSeq(s, CHOOSE i \in Recent(s) : \A j \in Recent(s) : i <= j, Len(s))

\* Mutant: the last packet is not counted as expected.
LossWithoutLast(s) ==
  LET expected == s[Len(s)].seq_no - s[1].seq_no
  IN  IF Len(s) < expected THEN [lost |-> expected - Len(s), expected |-> expected]
        ELSE [lost |-> 0, expected |-> expected]

\* The packets missing between the first and the last one of s.
LossOf(s) ==
  LET expected == s[Len(s)].seq_no - s[1].seq_no + 1
  IN  IF Len(s) < expected THEN [lost |-> expected - Len(s), expected |-> expected]
        ELSE [lost |-> 0, expected |-> expected]

\* UpdateStatistics.  With fewer than two packets the loss stays as it was.
UpdateStatistics ==
  LET kept == InWindow(Delivered) IN
  /\ jitter_buffer' = Waiting
  /\ delivered_packets' = kept
  /\ loss' = IF Len(kept) < 2 THEN loss ELSE LossOf(kept)
  /\ played' = IF kept = << >> THEN {}
               ELSE played \cup SeqNos(SubSeq(jitter_buffer, 1, Emitted))

\* RecordMetrics, which runs every metrics_interval until the sender stops.
RecordMetrics ==
  /\ metrics_due = now
  /\ metrics_due' = IF stopped THEN 0 ELSE now + metrics_interval
  /\ IF ~stopped /\ first_report_received
       THEN UpdateStatistics
       ELSE UNCHANGED <<jitter_buffer, delivered_packets, loss, played>>
  /\ UNCHANGED <<now, first_report_received, stopped, unreported>>

-----------------------------------------------------------------------------
StopAppTraffic ==
  /\ ~stopped
  /\ stopped' = TRUE
  /\ UNCHANGED <<now, jitter_buffer, delivered_packets, loss, first_report_received,
                 metrics_due, unreported, played>>

Tick ==
  /\ now < MaxTime /\ metrics_due # now
  /\ now' = now + 1
  /\ UNCHANGED <<jitter_buffer, delivered_packets, loss, first_report_received,
                 metrics_due, stopped, unreported, played>>

Init ==
  /\ now = 1
  /\ jitter_buffer = << >> /\ delivered_packets = << >>
  /\ loss = [lost |-> 0, expected |-> 0]
  /\ first_report_received = FALSE
  /\ metrics_due = 1 + metrics_interval
  /\ stopped = FALSE
  /\ unreported = 1..MaxSeqNo
  /\ played = {}

\* The reports that may come: some packets not reported before, each with
\* the time at which it arrived.
Reports ==
  UNION {{{[seq_no |-> n, time_received |-> time[n]] : n \in S} :
            time \in [S -> {t \in 0..now : now - t <= MaxReportLatency}]} :
           S \in {T \in SUBSET unreported : T # {} /\ Cardinality(T) <= MaxReport}}

Next ==
  \/ \E packets \in Reports : ReceiveAppResponse(packets)
  \/ RecordMetrics
  \/ StopAppTraffic
  \/ Tick

Spec == Init /\ [][Next]_vars

-----------------------------------------------------------------------------
(* Properties *)

\* Whatever the order of the reports and of the packets in them, the packets
\* played are in the order of their sequence numbers, none of them twice, and
\* before all that wait.  The statistics rely on it: they take the first and
\* the last packet played for the lowest and the highest.
PlayedInOrder == Increasing(delivered_packets \o jitter_buffer)

\* How late a packet is played, counted from its arrival.
LongestWait ==
  metrics_interval + IF buffer_window > MaxReportLatency THEN buffer_window
                                                         ELSE MaxReportLatency

\* "Max duration a packet is buffered": the buffer is emptied only when a
\* report comes or the metrics are recorded, so that a packet may wait up to
\* one metrics_interval more, and one whose report comes late as well.
BufferedAtMost ==
  ~stopped => \A i \in DOMAIN jitter_buffer :
                now - jitter_buffer[i].time_received <= LongestWait

\* The buffer makes up for reordering: a packet is ignored only if one with a
\* higher sequence number arrived more than buffer_window ago.
LateIsReallyLate ==
  [][\A n \in unreported \ unreported' :
       n \in SeqNos(jitter_buffer')
       \/ \E i \in DOMAIN delivered_packets' :
            /\ delivered_packets'[i].seq_no > n
            /\ now - delivered_packets'[i].time_received > buffer_window]_vars

\* The sequence numbers missing in s.
Gaps(s) == (s[1].seq_no .. s[Len(s)].seq_no) \ SeqNos(s)

\* Whenever the loss is computed it is the number of sequence numbers missing
\* between the first packet kept and the last, the last one included.
LossCountsGaps ==
  [][RecordMetrics /\ ~stopped /\ Len(delivered_packets') >= 2
       => loss' = [lost |-> Cardinality(Gaps(delivered_packets')),
                   expected |-> Cardinality(Gaps(delivered_packets'))
                                + Len(delivered_packets')]]_vars

\* A packet that has been played is not counted as lost when it leaves the
\* tracking window, so long as delivered_packets has not been cleared since.
LostWasNotPlayed ==
  [][RecordMetrics /\ ~stopped /\ Len(delivered_packets') >= 2
       => Gaps(delivered_packets') \cap played' = {}]_vars

\* The loss of UpdateStatistics, a difference of numbers of packets that were
\* played, counts just the packets that are missing, and none that was played.
LossIsRight == LossCountsGaps /\ LostWasNotPlayed
=============================================================================
