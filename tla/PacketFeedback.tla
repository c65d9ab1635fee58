--------------------------- MODULE PacketFeedback ---------------------------
(***************************************************************************)
(* What the reports of a receiver promise to the congestion controller of  *)
(* the sender (polaris.cc, ReceiveAppResponse): of every packet it is told *)
(* to be in flight the controller hears at most once, in the order of the  *)
(* sequence numbers, and it hears "received" only of a packet that arrived.*)
(* A packet that is not in flight when a report comes is not spoken of.    *)
(***************************************************************************)
EXTENDS Naturals

CONSTANT Numbers   \* sequence numbers

VARIABLES
  in_flight,   \* packets sent and not answered
  arrived,     \* packets the receiver has accepted
  received,    \* packets answered with a time of receipt
  lost         \* packets answered without one

vars == <<in_flight, arrived, received, lost>>

Init == in_flight = {} /\ arrived = {} /\ received = {} /\ lost = {}

\* A packet is sent: its number is above all that were in use.
Send(s) ==
  /\ \A r \in in_flight \cup arrived \cup received \cup lost : r < s
  /\ in_flight' = in_flight \cup {s}
  /\ UNCHANGED <<arrived, received, lost>>

Arrive(s) ==
  /\ s \notin arrived
  /\ arrived' = arrived \cup {s}
  /\ UNCHANGED <<in_flight, received, lost>>

\* A report answers all packets in flight up to the highest it names.
Answer(reported) ==
  LET answered == {s \in in_flight : \E r \in reported : s <= r} IN
  /\ reported \subseteq arrived
  /\ in_flight' = in_flight \ answered
  /\ received' = received \cup (answered \cap reported)
  /\ lost' = lost \cup (answered \ reported)
  /\ UNCHANGED arrived

\* The sender comes back to the path and forgets what it sent there before.
Forget ==
  /\ in_flight' = {}
  /\ UNCHANGED <<arrived, received, lost>>

Next ==
  \/ \E s \in Numbers : Send(s) \/ Arrive(s)
  \/ \E reported \in SUBSET arrived : Answer(reported)
  \/ Forget

Spec == Init /\ [][Next]_vars
=============================================================================
