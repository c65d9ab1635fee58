----------------------------- MODULE Forwarding -----------------------------
(***************************************************************************)
(* Packets and how they are forwarded (scion-capable-node.cc,              *)
(* border-router.cc).  A packet carries its path, a segment of hop fields, *)
(* and a pointer to the current one; whoever sends it chooses the next     *)
(* interface by the hop field, and the border router that takes it out of  *)
(* an AS moves the pointer.  A packet stays in the memory of the node that *)
(* created it (on_the_flight_packets) until whoever receives it last has   *)
(* it destroyed.                                                           *)
(*                                                                         *)
(* Every interface of an AS has a border router of its own, and all the    *)
(* nodes of an AS are connected to one another (ConnectInternalNodes).     *)
(* The hop fields of a segment are numbered from 1.                        *)
(***************************************************************************)
EXTENDS Integers, Sequences, FiniteSets

CONSTANTS
  ASes,
  Interfaces,  \* the numbers of interfaces
  Hosts,       \* nodes
  Link,        \* the border router at the other end of a border router's link
  Segments,    \* the path segments that there may be
  NoPath,      \* the path of a packet that stays in its AS
  Ids          \* the numbers of packets, a bound of those on the way at a time

\* A node, by its AS, its kind and its interface or address.
BR(as, if) == [as |-> as, kind |-> "br", no |-> if]
PathServer(as) == [as |-> as, kind |-> "ps", no |-> 1]
BorderRouters == {BR(as, if) : as \in ASes, if \in Interfaces}
PathServers == {PathServer(as) : as \in ASes}
Nodes == BorderRouters \cup PathServers \cup Hosts

HopField == [as : ASes, ing : Interfaces \cup {0}, eg : Interfaces \cup {0}]

\* The interfaces by which a segment leaves and enters its i-th AS when it is
\* gone from its first hop to its last.
LeavesBy(seg, i) == IF seg.reverse THEN seg.hops[i].ing ELSE seg.hops[i].eg
EntersBy(seg, i) == IF seg.reverse THEN seg.hops[i].eg ELSE seg.hops[i].ing

\* A segment is a walk along links that comes to no AS twice.
IsSegment(seg) ==
  /\ seg.reverse \in BOOLEAN
  /\ seg.hops \in Seq(HopField) /\ Len(seg.hops) >= 2
  /\ \A i, j \in DOMAIN seg.hops : i # j => seg.hops[i].as # seg.hops[j].as
  /\ \A i \in 1..(Len(seg.hops) - 1) :
       /\ LeavesBy(seg, i) \in Interfaces /\ EntersBy(seg, i + 1) \in Interfaces
       /\ Link[BR(seg.hops[i].as, LeavesBy(seg, i))]
            = BR(seg.hops[i + 1].as, EntersBy(seg, i + 1))
       /\ Link[BR(seg.hops[i + 1].as, EntersBy(seg, i + 1))]
            = BR(seg.hops[i].as, LeavesBy(seg, i))

ASSUME ForwardingAssumption ==
  /\ \A h \in Hosts : h.as \in ASes /\ h.kind = "host"
  /\ \A seg \in Segments : IsSegment(seg)
  /\ NoPath \notin Segments
  /\ IsFiniteSet(Ids)

VARIABLES
  on_the_flight_packets,  \* the numbers of the packets that exist
  scheduled               \* the packets under way to the next node

LookupTypes == {"UP_REQ", "CORE_REQ", "DOWN_REQ", "REG_PATHS"}
TrafficTypes == {"PROBE", "PROBE_ECHO", "APP_DATA", "APP_RESP"}

\* about: the AS that a request or its answer is about.
Packet ==
  [id : Ids, type : LookupTypes \cup TrafficTypes, about : ASes,
   src : Nodes, dst : Nodes, path : Segments \cup {NoPath},
   path_reversed : BOOLEAN, cur_hopf : Nat]

Scheduled == [at : Nodes, received_from_local_as : BOOLEAN, packet : Packet]

ForwardingTypeOK ==
  /\ on_the_flight_packets \subseteq Ids
  /\ scheduled \subseteq Scheduled
  /\ \A s \in scheduled :
       s.packet.path # NoPath => s.packet.cur_hopf \in DOMAIN s.packet.path.hops

-----------------------------------------------------------------------------
(* Sending *)

\* The hop field the packet points to.
Hop(packet) == packet.path.hops[packet.cur_hopf]

\* The interface by which the packet leaves the AS of its hop field.
InterfaceToSend(packet) ==
  IF packet.path_reversed # packet.path.reverse THEN Hop(packet).ing ELSE Hop(packet).eg

\* The packet on its way from one node to the next.
OnTheWay(packet, from, to) ==
  [at |-> to, received_from_local_as |-> from.as = to.as, packet |-> packet]

\* SendScionPacket: to the node itself, or to the border router of the
\* interface of the first hop.
SendScionPacket(packet, node) ==
  OnTheWay(packet, node,
           IF packet.dst.as = node.as THEN packet.dst
             ELSE BR(node.as, InterfaceToSend(packet)))

\* The numbers that CreateScionPacket may give, next_packet_id being new.
FreeIds == Ids \ on_the_flight_packets

\* Ways to number some packets.
Numberings(packets) ==
  {f \in [packets -> FreeIds] : \A p, q \in packets : f[p] = f[q] => p = q}

\* The packets, created: each with a number of its own.
Created(packets) ==
  LET number == CHOOSE f \in Numberings(packets) : TRUE
  IN  {[p EXCEPT !.id = number[p]] : p \in packets}

IdsOf(packets) == {p.id : p \in packets}

\* A node is done with some of the packets that came to it, has the numbers
\* "destroyed" removed (DestroyScionPacket), and creates and sends some packets.
Exchange(done, destroyed, packets, node) ==
  /\ Numberings(packets) # {}
  /\ on_the_flight_packets' = (on_the_flight_packets \cup IdsOf(Created(packets))) \ destroyed
  /\ scheduled' = (scheduled \ done) \cup {SendScionPacket(p, node) : p \in Created(packets)}

-----------------------------------------------------------------------------
(* The border router *)

\* Mutant: the pointer is moved at every border router.
HopMovedAlways(packet, local) ==
  IF packet.path_reversed THEN packet.cur_hopf - 1 ELSE packet.cur_hopf + 1

\* The pointer is moved when the packet leaves the AS, that is, when it comes
\* from within it.
HopMoved(packet, local) ==
  IF ~local THEN packet.cur_hopf
    ELSE IF packet.path_reversed THEN packet.cur_hopf - 1 ELSE packet.cur_hopf + 1

\* The packet goes to its host, over the link of the border router, or to the
\* border router of the interface by which it leaves the AS.
NextNode(s) ==
  LET if == InterfaceToSend(s.packet) IN
    IF s.packet.dst.as = s.at.as THEN s.packet.dst
      ELSE IF if = s.at.no THEN Link[s.at] ELSE BR(s.at.as, if)

\* The packet as the border router sends it on.
Forwarded(s) ==
  IF s.packet.dst.as = s.at.as THEN s.packet
    ELSE [s.packet EXCEPT !.cur_hopf = HopMoved(s.packet, s.received_from_local_as)]

\* BorderRouter::ProcessReceivedPacket.
ForwardPacket(s) ==
  /\ scheduled' = (scheduled \ {s}) \cup {OnTheWay(Forwarded(s), s.at, NextNode(s))}
  /\ UNCHANGED on_the_flight_packets

\* Drop: the queue of the next interface is full.  Only data of applications is
\* dropped.
DropPacket(s) ==
  /\ s.packet.type = "APP_DATA"
  /\ scheduled' = scheduled \ {s}
  /\ on_the_flight_packets' = on_the_flight_packets \ {s.packet.id}

-----------------------------------------------------------------------------
(* Properties *)

\* The assertions of the nodes hold for every packet that comes: at a host or
\* path server it is for that node; at a border router its hop field is one of
\* this AS, and if it goes on the hop it goes to is one of its path.
AssertionsHold ==
  \A s \in scheduled :
    IF s.at.kind # "br" THEN s.at = s.packet.dst
      ELSE /\ s.packet.path # NoPath
           /\ Hop(s.packet).as = s.at.as
           /\ s.packet.dst.as # s.at.as =>
                IF s.packet.path_reversed THEN s.packet.cur_hopf > 1
                  ELSE s.packet.cur_hopf < Len(s.packet.path.hops)

\* Each packet in the memory of its creator is on its way to one node, and none
\* on its way has been destroyed: the pointers never dangle and nothing leaks.
ExistsWhileUnderWay ==
  /\ {s.packet.id : s \in scheduled} = on_the_flight_packets
  /\ \A s, t \in scheduled : s.packet.id = t.packet.id => s = t
=============================================================================
