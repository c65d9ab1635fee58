---------------------------- MODULE NetworkProofs ---------------------------
(***************************************************************************)
(* Theorems about Network, for all topologies, segments, applications and  *)
(* bounds.  First the lemmas about Forwarding: a packet that is sent or    *)
(* forwarded stays on its path (Travelling), and nodes that exchange       *)
(* packets keep the record of those that exist.  Then the invariants of    *)
(* the run become inductive with Travelling, with who sends what to whom   *)
(* (Roles), and with what the caches and the connections hold.  The last   *)
(* part shows that every packet comes closer to its destination with every *)
(* node that takes it, which bounds its way.                               *)
(***************************************************************************)
EXTENDS Network, SequenceTheorems, TLAPS

\* The AS and the hop field at which a packet starts, and those at which it ends.
FirstHop(packet) == IF packet.path_reversed THEN Len(packet.path.hops) ELSE 1
LastHop(packet) == IF packet.path_reversed THEN 1 ELSE Len(packet.path.hops)

\* The packet goes from one end of its path to the other.
Ends(packet) ==
  /\ packet.path \in Segments
  /\ packet.src.as = packet.path.hops[FirstHop(packet)].as
  /\ packet.dst.as = packet.path.hops[LastHop(packet)].as

\* The interface by which the packet enters the AS of a hop, and by which it has
\* entered that of its own hop field.
EntryAt(packet, i) ==
  IF packet.path_reversed # packet.path.reverse THEN packet.path.hops[i].eg
    ELSE packet.path.hops[i].ing
InterfaceOfEntry(packet) == EntryAt(packet, packet.cur_hopf)

\* The hop to which the pointer is moved.
HopAfter(packet) ==
  IF packet.path_reversed THEN packet.cur_hopf - 1 ELSE packet.cur_hopf + 1

\* A packet without a path is at its destination.
InsideAS(s) == s.packet.path = NoPath /\ s.at = s.packet.dst

\* A packet has arrived with its pointer at the end.
Arrived(s) ==
  /\ Ends(s.packet)
  /\ s.at = s.packet.dst /\ s.packet.cur_hopf = LastHop(s.packet)

\* A packet is at the border router by which it leaves the AS it points to, or
\* at that by which it has come into it.
OnItsPath(s) ==
  /\ Ends(s.packet)
  /\ s.packet.cur_hopf \in DOMAIN s.packet.path.hops
  /\ s.at.kind = "br" /\ s.at.as = Hop(s.packet).as
  /\ IF s.received_from_local_as
       THEN s.at.no = InterfaceToSend(s.packet) /\ s.packet.cur_hopf # LastHop(s.packet)
       ELSE s.at.no = InterfaceOfEntry(s.packet) /\ s.packet.cur_hopf # FirstHop(s.packet)

Travelling(s) ==
  /\ s \in Scheduled /\ s.packet.dst.kind # "br"
  /\ InsideAS(s) \/ Arrived(s) \/ OnItsPath(s)

\* A packet about to be sent by a node.
Ready(packet, node) ==
  /\ node \in Nodes /\ packet.dst \in Nodes /\ packet.dst.kind # "br"
  /\ \/ packet.path = NoPath /\ packet.dst.as = node.as
     \/ /\ Ends(packet) /\ packet.src.as = node.as
        /\ packet.cur_hopf = FirstHop(packet)

\* A packet that has no number yet.
Draft ==
  [id : {0}, type : LookupTypes \cup TrafficTypes, about : ASes,
   src : Nodes, dst : Nodes, path : Segments \cup {NoPath},
   path_reversed : BOOLEAN, cur_hopf : Nat]

-----------------------------------------------------------------------------
(* Nodes and segments *)

\* The kind of a node tells what it is.
LEMMA NodesByKind ==
  ASSUME NEW n \in Nodes
  PROVE  /\ n.as \in ASes
         /\ n.kind = "br" => n = BR(n.as, n.no) /\ n.no \in Interfaces
         /\ n.kind = "ps" => n = PathServer(n.as)
         /\ n.kind = "host" => n \in Hosts
         /\ n.kind \in {"br", "ps", "host"}
<1>1. CASE n \in BorderRouters
  BY <1>1 DEF BorderRouters, BR
<1>2. CASE n \in PathServers
  BY <1>2 DEF PathServers, PathServer
<1>3. CASE n \in Hosts
  BY <1>3, ForwardingAssumption
<1> QED
  BY <1>1, <1>2, <1>3 DEF Nodes

\* Border routers are told apart by AS and interface.
LEMMA BRsDiffer ==
  ASSUME NEW as1, NEW as2, NEW if1, NEW if2, BR(as1, if1) = BR(as2, if2)
  PROVE  as1 = as2 /\ if1 = if2
<1>1. BR(as1, if1).as = BR(as2, if2).as /\ BR(as1, if1).no = BR(as2, if2).no
  OBVIOUS
<1> QED
  BY <1>1 DEF BR

\* The domain of the hops of a segment, and its ends.
LEMMA HopsOf ==
  ASSUME NEW seg \in Segments
  PROVE  /\ Len(seg.hops) \in Nat /\ Len(seg.hops) >= 2
         /\ DOMAIN seg.hops = 1..Len(seg.hops)
         /\ \A i \in 1..Len(seg.hops) : seg.hops[i] \in HopField
         /\ \A i, j \in 1..Len(seg.hops) : i # j => seg.hops[i].as # seg.hops[j].as
         /\ seg.reverse \in BOOLEAN
<1>1. IsSegment(seg)
  BY ForwardingAssumption
<1>2. seg.hops \in Seq(HopField)
  BY <1>1 DEF IsSegment
<1>3. Len(seg.hops) \in Nat /\ DOMAIN seg.hops = 1..Len(seg.hops)
  BY <1>2, LenProperties
<1>4. \A i \in 1..Len(seg.hops) : seg.hops[i] \in HopField
  BY <1>2, ElementOfSeq
<1> QED
  BY <1>1, <1>3, <1>4 DEF IsSegment

\* The link between two neighbours of a segment.
LEMMA LinkOf ==
  ASSUME NEW seg \in Segments, NEW i \in 1..(Len(seg.hops) - 1)
  PROVE  /\ i \in 1..Len(seg.hops) /\ i + 1 \in 1..Len(seg.hops)
         /\ LeavesBy(seg, i) \in Interfaces /\ EntersBy(seg, i + 1) \in Interfaces
         /\ Link[BR(seg.hops[i].as, LeavesBy(seg, i))]
              = BR(seg.hops[i + 1].as, EntersBy(seg, i + 1))
         /\ Link[BR(seg.hops[i + 1].as, EntersBy(seg, i + 1))]
              = BR(seg.hops[i].as, LeavesBy(seg, i))
<1>1. IsSegment(seg)
  BY ForwardingAssumption
<1>2. Len(seg.hops) \in Nat
  BY HopsOf
<1>3. i \in 1..Len(seg.hops) /\ i + 1 \in 1..Len(seg.hops)
  BY <1>2
<1> QED
  BY <1>1, <1>3 DEF IsSegment

\* Within a segment an AS is left by another interface than it was entered by.
LEMMA EntryIsNotExit ==
  ASSUME NEW seg \in Segments, NEW i \in 2..(Len(seg.hops) - 1)
  PROVE  EntersBy(seg, i) # LeavesBy(seg, i)
<1>1. Len(seg.hops) \in Nat
  BY HopsOf
<1>2. i - 1 \in 1..(Len(seg.hops) - 1) /\ i \in 1..(Len(seg.hops) - 1) /\ (i - 1) + 1 = i
  BY <1>1
<1>3. Link[BR(seg.hops[i].as, EntersBy(seg, i))] = BR(seg.hops[i - 1].as, LeavesBy(seg, i - 1))
  BY <1>2, LinkOf
<1>4. Link[BR(seg.hops[i].as, LeavesBy(seg, i))]
        = BR(seg.hops[i + 1].as, EntersBy(seg, i + 1))
  BY <1>2, LinkOf
<1>5. seg.hops[i - 1].as # seg.hops[i + 1].as
  <2>1. i - 1 \in 1..Len(seg.hops) /\ i + 1 \in 1..Len(seg.hops) /\ i - 1 # i + 1
    BY <1>1
  <2> QED
    BY <2>1, HopsOf
<1> QED
  BY <1>3, <1>4, <1>5, BRsDiffer

-----------------------------------------------------------------------------
(* Packets *)

\* The last hop and the first are different, and so are the ASes there.
LEMMA EndsDiffer ==
  ASSUME NEW p, p.path_reversed \in BOOLEAN, Ends(p)
  PROVE  /\ FirstHop(p) \in 1..Len(p.path.hops) /\ LastHop(p) \in 1..Len(p.path.hops)
         /\ FirstHop(p) # LastHop(p) /\ p.src.as # p.dst.as
<1>1. p.path \in Segments
  BY DEF Ends
<1>2. Len(p.path.hops) \in Nat /\ Len(p.path.hops) >= 2
  BY <1>1, HopsOf
<1>3. /\ FirstHop(p) \in 1..Len(p.path.hops) /\ LastHop(p) \in 1..Len(p.path.hops)
      /\ FirstHop(p) # LastHop(p)
  BY <1>2 DEF FirstHop, LastHop
<1>4. p.path.hops[FirstHop(p)].as # p.path.hops[LastHop(p)].as
  BY <1>1, <1>3, HopsOf
<1> QED
  BY <1>3, <1>4 DEF Ends

\* A packet that is not at its last hop leaves by an interface of the AS, and
\* comes by its link to the AS of the hop to which the pointer is moved.
LEMMA NextHop ==
  ASSUME NEW p, p.path_reversed \in BOOLEAN, Ends(p),
         p.cur_hopf \in 1..Len(p.path.hops), p.cur_hopf # LastHop(p)
  PROVE  /\ HopAfter(p) \in 1..Len(p.path.hops)
         /\ HopAfter(p) # FirstHop(p)
         /\ p.path.hops[HopAfter(p)].as # Hop(p).as
         /\ InterfaceToSend(p) \in Interfaces
         /\ Link[BR(Hop(p).as, InterfaceToSend(p))]
              = BR(p.path.hops[HopAfter(p)].as, EntryAt(p, HopAfter(p)))
<1> DEFINE seg == p.path
           c == p.cur_hopf
           d == HopAfter(p)
<1> SUFFICES /\ d \in 1..Len(seg.hops) /\ d # c /\ d # FirstHop(p)
             /\ InterfaceToSend(p) \in Interfaces
             /\ Link[BR(seg.hops[c].as, InterfaceToSend(p))] = BR(seg.hops[d].as, EntryAt(p, d))
  BY HopsOf DEF Ends, Hop
<1>1. /\ seg \in Segments /\ Len(seg.hops) \in Nat /\ Len(seg.hops) >= 2
      /\ seg.reverse \in BOOLEAN
  BY HopsOf DEF Ends
<1>2. c \in 1..Len(seg.hops) /\ c # LastHop(p)
  OBVIOUS
<1>3. d = IF p.path_reversed THEN c - 1 ELSE c + 1
  BY DEF HopAfter
<1> HIDE DEF d
<1>4. CASE p.path_reversed
  <2>1. c # 1 /\ FirstHop(p) = Len(seg.hops) /\ d = c - 1
    BY <1>2, <1>3, <1>4 DEF FirstHop, LastHop
  <2>2. /\ d \in 1..(Len(seg.hops) - 1) /\ c = d + 1
        /\ d \in 1..Len(seg.hops) /\ d # c /\ d # FirstHop(p)
    BY <1>1, <1>2, <2>1
  <2>3. /\ EntersBy(seg, c) \in Interfaces
        /\ Link[BR(seg.hops[c].as, EntersBy(seg, c))] = BR(seg.hops[d].as, LeavesBy(seg, d))
    BY <1>1, <2>2, LinkOf
  <2>4. InterfaceToSend(p) = EntersBy(seg, c) /\ EntryAt(p, d) = LeavesBy(seg, d)
    BY <1>1, <1>4 DEF InterfaceToSend, EntersBy, LeavesBy, Hop, EntryAt
  <2> QED
    BY <2>2, <2>3, <2>4
<1>5. CASE ~p.path_reversed
  <2>1. c # Len(seg.hops) /\ FirstHop(p) = 1 /\ d = c + 1
    BY <1>2, <1>3, <1>5 DEF FirstHop, LastHop
  <2>2. /\ c \in 1..(Len(seg.hops) - 1)
        /\ d \in 1..Len(seg.hops) /\ d # c /\ d # FirstHop(p)
    BY <1>1, <1>2, <2>1
  <2>3. /\ LeavesBy(seg, c) \in Interfaces
        /\ Link[BR(seg.hops[c].as, LeavesBy(seg, c))] = BR(seg.hops[d].as, EntersBy(seg, d))
    BY <1>1, <2>1, <2>2, LinkOf
  <2>4. InterfaceToSend(p) = LeavesBy(seg, c) /\ EntryAt(p, d) = EntersBy(seg, d)
    BY <1>1, <1>5 DEF InterfaceToSend, EntersBy, LeavesBy, Hop, EntryAt
  <2> QED
    BY <2>2, <2>3, <2>4
<1> QED
  BY <1>4, <1>5

\* The interface by which a packet comes into the AS after the first is one.
LEMMA EntryIsInterface ==
  ASSUME NEW p, p.path_reversed \in BOOLEAN, Ends(p),
         NEW d \in 1..Len(p.path.hops), d # FirstHop(p)
  PROVE  EntryAt(p, d) \in Interfaces /\ p.path.hops[d].as \in ASes
<1> DEFINE seg == p.path
<1>1. /\ seg \in Segments /\ Len(seg.hops) \in Nat /\ seg.reverse \in BOOLEAN
      /\ seg.hops[d] \in HopField
  BY HopsOf DEF Ends
<1>2. CASE p.path_reversed
  <2>1. d # Len(seg.hops)
    BY <1>2 DEF FirstHop
  <2>2. d \in 1..(Len(seg.hops) - 1)
    BY <1>1, <2>1
  <2>3. EntryAt(p, d) = LeavesBy(seg, d)
    BY <1>1, <1>2 DEF EntryAt, LeavesBy
  <2> QED
    BY <1>1, <2>2, <2>3, LinkOf DEF HopField
<1>3. CASE ~p.path_reversed
  <2>1. d # 1
    BY <1>3 DEF FirstHop
  <2>2. d - 1 \in 1..(Len(seg.hops) - 1) /\ (d - 1) + 1 = d
    BY <1>1, <2>1
  <2>3. EntryAt(p, d) = EntersBy(seg, d)
    BY <1>1, <1>3 DEF EntryAt, EntersBy
  <2>4. EntersBy(seg, (d - 1) + 1) \in Interfaces
    BY <1>1, <2>2, LinkOf
  <2> QED
    BY <1>1, <2>2, <2>3, <2>4 DEF HopField
<1> QED
  BY <1>2, <1>3

\* A packet on its way through an AS does not leave by the interface by which
\* it came.
LEMMA LeavesElsewhere ==
  ASSUME NEW p, p.path_reversed \in BOOLEAN, Ends(p),
         p.cur_hopf \in 1..Len(p.path.hops),
         p.cur_hopf # LastHop(p), p.cur_hopf # FirstHop(p)
  PROVE  InterfaceToSend(p) # InterfaceOfEntry(p)
<1> DEFINE seg == p.path
           c == p.cur_hopf
<1>1. seg \in Segments /\ Len(seg.hops) \in Nat /\ Len(seg.hops) >= 2 /\ seg.reverse \in BOOLEAN
  BY HopsOf DEF Ends
<1>2. c \in 2..(Len(seg.hops) - 1)
  BY <1>1 DEF FirstHop, LastHop
<1>3. EntersBy(seg, c) # LeavesBy(seg, c)
  BY <1>1, <1>2, EntryIsNotExit
<1>4. {InterfaceToSend(p), InterfaceOfEntry(p)} = {EntersBy(seg, c), LeavesBy(seg, c)}
  BY <1>1 DEF InterfaceToSend, InterfaceOfEntry, EntryAt, EntersBy, LeavesBy, Hop
<1> QED
  BY <1>3, <1>4

\* What a node sends travels.
LEMMA SentTravels ==
  ASSUME NEW p \in Packet, NEW node, Ready(p, node)
  PROVE  Travelling(SendScionPacket(p, node)) /\ SendScionPacket(p, node).packet = p
<1> DEFINE s == SendScionPacket(p, node)
<1>1. p.path_reversed \in BOOLEAN /\ p.dst \in Nodes /\ node \in Nodes /\ p.dst.kind # "br"
  BY DEF Packet, Ready
<1>2. CASE p.path = NoPath
  <2>1. p.dst.as = node.as
    BY <1>2, ForwardingAssumption DEF Ready, Ends
  <2>2. s = [at |-> p.dst, received_from_local_as |-> TRUE, packet |-> p]
    BY <2>1 DEF SendScionPacket, OnTheWay
  <2>3. s \in Scheduled /\ s.at = p.dst /\ s.packet = p
    BY <1>1, <2>2 DEF Scheduled
  <2> HIDE DEF s
  <2>4. Travelling(s)
    BY <1>1, <1>2, <2>3 DEF Travelling, InsideAS
  <2> QED
    BY <2>3, <2>4 DEF s
<1>3. CASE p.path # NoPath
  <2>1. Ends(p) /\ p.src.as = node.as /\ p.cur_hopf = FirstHop(p)
    BY <1>3 DEF Ready
  <2>2. /\ p.cur_hopf \in 1..Len(p.path.hops) /\ p.cur_hopf # LastHop(p)
        /\ p.dst.as # node.as
    BY <1>1, <2>1, EndsDiffer
  <2>3. InterfaceToSend(p) \in Interfaces
    BY <1>1, <2>1, <2>2, NextHop
  <2>4. DOMAIN p.path.hops = 1..Len(p.path.hops) /\ Hop(p).as = node.as
    BY <2>1, HopsOf DEF Ends, Hop
  <2>5. node.as \in ASes
    BY <1>1, NodesByKind
  <2>6. s = [at |-> BR(node.as, InterfaceToSend(p)), received_from_local_as |-> TRUE,
             packet |-> p]
    BY <2>2 DEF SendScionPacket, OnTheWay, BR
  <2>7. /\ BR(node.as, InterfaceToSend(p)) \in Nodes
        /\ BR(node.as, InterfaceToSend(p)).as = node.as
        /\ BR(node.as, InterfaceToSend(p)).kind = "br"
        /\ BR(node.as, InterfaceToSend(p)).no = InterfaceToSend(p)
    BY <2>3, <2>5 DEF Nodes, BorderRouters, BR
  <2>8. /\ s \in Scheduled /\ s.packet = p /\ s.received_from_local_as
        /\ s.at.kind = "br" /\ s.at.as = node.as /\ s.at.no = InterfaceToSend(p)
    BY <2>6, <2>7 DEF Scheduled
  <2> HIDE DEF s
  <2>9. OnItsPath(s)
    BY <2>1, <2>2, <2>4, <2>8 DEF OnItsPath
  <2>10. Travelling(s)
    BY <1>1, <2>8, <2>9 DEF Travelling
  <2> QED
    BY <2>8, <2>10 DEF s
<1> QED
  BY <1>2, <1>3

\* What a border router forwards travels, and is the same packet but for the
\* pointer.
LEMMA ForwardedTravels ==
  ASSUME NEW s, Travelling(s), s.at.kind = "br"
  PROVE  /\ Travelling(OnTheWay(Forwarded(s), s.at, NextNode(s)))
         /\ OnTheWay(Forwarded(s), s.at, NextNode(s)).packet = Forwarded(s)
         /\ Forwarded(s) \in {[s.packet EXCEPT !.cur_hopf = c] : c \in Nat}
<1> DEFINE p == s.packet
           t == OnTheWay(Forwarded(s), s.at, NextNode(s))
<1>1. /\ s.at \in Nodes /\ p \in Packet /\ s.received_from_local_as \in BOOLEAN
      /\ p.path_reversed \in BOOLEAN /\ p.dst \in Nodes /\ p.dst.kind # "br"
      /\ p.cur_hopf \in Nat
  BY DEF Travelling, Scheduled, Packet
<1>2. OnItsPath(s)
  BY DEF Travelling, InsideAS, Arrived
<1>3. /\ Ends(p) /\ s.at.as = Hop(p).as /\ p.path \in Segments
      /\ p.cur_hopf \in 1..Len(p.path.hops) /\ DOMAIN p.path.hops = 1..Len(p.path.hops)
  BY <1>2, HopsOf DEF OnItsPath, Ends
<1>4. s.at = BR(s.at.as, s.at.no) /\ s.at.as \in ASes
  BY <1>1, NodesByKind
<1>5. LastHop(p) \in 1..Len(p.path.hops) /\ p.dst.as = p.path.hops[LastHop(p)].as
  BY <1>1, <1>3, EndsDiffer DEF Ends
<1>6. p.dst.as = s.at.as <=> p.cur_hopf = LastHop(p)
  BY <1>3, <1>5, HopsOf DEF Hop
<1>7. CASE p.dst.as = s.at.as
  <2>1. Forwarded(s) = p /\ NextNode(s) = p.dst
    BY <1>7 DEF Forwarded, NextNode
  <2>2. t = [at |-> p.dst, received_from_local_as |-> s.at.as = p.dst.as, packet |-> p]
    BY <2>1 DEF OnTheWay
  <2>3. t \in Scheduled /\ t.at = p.dst /\ t.packet = p
    BY <1>1, <2>2 DEF Scheduled
  <2>4. Arrived(t)
    BY <1>3, <1>6, <1>7, <2>3 DEF Arrived
  <2>5. p = [p EXCEPT !.cur_hopf = p.cur_hopf]
    BY <1>1 DEF Packet
  <2> QED
    BY <1>1, <2>1, <2>3, <2>4, <2>5 DEF Travelling
<1>8. CASE p.dst.as # s.at.as /\ s.received_from_local_as
  <2> DEFINE d == HopAfter(p)
  <2> HIDE DEF d
  <2>1. s.at.no = InterfaceToSend(p) /\ p.cur_hopf # LastHop(p)
    BY <1>2, <1>8 DEF OnItsPath
  <2>2. /\ d \in 1..Len(p.path.hops) /\ d # FirstHop(p)
        /\ p.path.hops[d].as # Hop(p).as
        /\ Link[BR(Hop(p).as, InterfaceToSend(p))] = BR(p.path.hops[d].as, EntryAt(p, d))
    BY <1>1, <1>3, <2>1, NextHop DEF d
  <2>3. Forwarded(s) = [p EXCEPT !.cur_hopf = d]
    BY <1>8 DEF Forwarded, HopMoved, HopAfter, d
  <2>4. /\ Forwarded(s) \in Packet /\ Forwarded(s).cur_hopf = d
        /\ Forwarded(s).path = p.path /\ Forwarded(s).path_reversed = p.path_reversed
        /\ Forwarded(s).src = p.src /\ Forwarded(s).dst = p.dst
    BY <1>1, <1>3, <2>2, <2>3 DEF Packet
  <2>5. NextNode(s) = Link[s.at]
    BY <1>8, <2>1 DEF NextNode
  <2>6. NextNode(s) = BR(p.path.hops[d].as, InterfaceOfEntry(Forwarded(s)))
    <3>1. InterfaceOfEntry(Forwarded(s)) = EntryAt(p, d)
      BY <2>4 DEF InterfaceOfEntry, EntryAt
    <3> QED
      BY <1>3, <1>4, <2>1, <2>2, <2>5, <3>1
  <2>7. p.path.hops[d].as \in ASes /\ InterfaceOfEntry(Forwarded(s)) \in Interfaces
    <3>1. InterfaceOfEntry(Forwarded(s)) = EntryAt(p, d)
      BY <2>4 DEF InterfaceOfEntry, EntryAt
    <3> QED
      BY <1>1, <1>3, <2>2, <3>1, EntryIsInterface
  <2>8. /\ NextNode(s) \in Nodes /\ NextNode(s).kind = "br"
        /\ NextNode(s).as = p.path.hops[d].as
        /\ NextNode(s).no = InterfaceOfEntry(Forwarded(s))
    BY <2>6, <2>7 DEF Nodes, BorderRouters, BR
  <2>9. s.at.as # NextNode(s).as
    BY <1>3, <2>2, <2>8
  <2>10. /\ t.at = NextNode(s) /\ t.packet = Forwarded(s) /\ t.received_from_local_as = FALSE
         /\ t \in Scheduled
    BY <2>4, <2>8, <2>9 DEF OnTheWay, Scheduled
  <2>11. Ends(Forwarded(s)) /\ FirstHop(Forwarded(s)) = FirstHop(p)
    BY <1>3, <2>4 DEF Ends, FirstHop, LastHop
  <2> HIDE DEF t
  <2>12. OnItsPath(t)
    BY <1>3, <2>2, <2>4, <2>8, <2>10, <2>11 DEF OnItsPath, Hop
  <2>13. t.packet.dst.kind # "br"
    BY <1>1, <2>4, <2>10
  <2>14. Forwarded(s) \in {[p EXCEPT !.cur_hopf = c] : c \in Nat}
    BY <1>3, <2>2, <2>3, HopsOf
  <2> QED
    BY <2>10, <2>12, <2>13, <2>14 DEF Travelling, t
<1>9. CASE p.dst.as # s.at.as /\ ~s.received_from_local_as
  <2> DEFINE if == InterfaceToSend(p)
  <2>1. s.at.no = InterfaceOfEntry(p) /\ p.cur_hopf # FirstHop(p) /\ p.cur_hopf # LastHop(p)
    BY <1>2, <1>6, <1>9 DEF OnItsPath
  <2>2. if # s.at.no /\ if \in Interfaces
    BY <1>1, <1>3, <2>1, LeavesElsewhere, NextHop
  <2>3. NextNode(s) = BR(s.at.as, if)
    BY <1>9, <2>2 DEF NextNode
  <2>4. Forwarded(s) = [p EXCEPT !.cur_hopf = p.cur_hopf] /\ Forwarded(s) = p
    BY <1>1, <1>9 DEF Forwarded, HopMoved, Packet
  <2>5. /\ NextNode(s) \in Nodes /\ NextNode(s).kind = "br"
        /\ NextNode(s).as = s.at.as /\ NextNode(s).no = if
    BY <1>4, <2>2, <2>3 DEF Nodes, BorderRouters, BR
  <2>6. /\ t.at = NextNode(s) /\ t.packet = p /\ t.received_from_local_as = TRUE
        /\ t \in Scheduled
    BY <1>1, <2>4, <2>5 DEF OnTheWay, Scheduled
  <2> HIDE DEF t
  <2>7. OnItsPath(t)
    BY <1>3, <2>1, <2>5, <2>6 DEF OnItsPath
  <2>8. Forwarded(s) \in {[p EXCEPT !.cur_hopf = c] : c \in Nat}
    BY <1>1, <2>4
  <2> QED
    BY <1>1, <2>4, <2>6, <2>7, <2>8 DEF Travelling, t
<1> QED
  BY <1>1, <1>7, <1>8, <1>9

-----------------------------------------------------------------------------
(* Creation and destruction *)

\* A draft that is given a number is a packet.
LEMMA NumberedDraft ==
  ASSUME NEW p \in Draft, NEW id \in Ids, NEW q, q = [p EXCEPT !.id = id]
  PROVE  /\ q \in Packet /\ q.id = id /\ q.type = p.type /\ q.about = p.about
         /\ q.src = p.src /\ q.dst = p.dst /\ q.path = p.path
         /\ q.path_reversed = p.path_reversed /\ q.cur_hopf = p.cur_hopf
BY DEF Draft, Packet

\* The drafts with the numbers that f gives them.
Numbered(packets, f) == {[p EXCEPT !.id = f[p]] : p \in packets}
Injective(packets, f) == \A p, q \in packets : f[p] = f[q] => p = q

\* The packets created have numbers of their own, which are new.
LEMMA CreatedPackets ==
  ASSUME NEW packets, Numberings(packets) # {}
  PROVE  \E f \in [packets -> FreeIds] :
           Injective(packets, f) /\ Created(packets) = Numbered(packets, f)
<1> DEFINE f == CHOOSE g \in Numberings(packets) : TRUE
<1>1. f \in Numberings(packets)
  OBVIOUS
<1>2. Created(packets) = Numbered(packets, f)
  BY DEF Created, Numbered
<1> HIDE DEF f
<1>3. f \in [packets -> FreeIds] /\ Injective(packets, f)
  BY <1>1 DEF Numberings, Injective
<1> QED
  BY <1>2, <1>3, Zenon

\* What comes of a draft that a node sends.
SentDraft(t, packets, node) ==
  \E p \in packets, q \in Packet :
    /\ \E id \in Ids : q = [p EXCEPT !.id = id]
    /\ t = SendScionPacket(q, node)

\* If a node has destroyed the packets it is done with, and only these, the
\* packets that exist are still those under way.
LEMMA ExchangeKeepsTrack ==
  ASSUME ExistsWhileUnderWay, on_the_flight_packets \subseteq Ids,
         NEW done \in SUBSET scheduled, NEW packets \in SUBSET Draft, NEW node,
         Exchange(done, {s.packet.id : s \in done}, packets, node)
  PROVE  /\ ExistsWhileUnderWay' /\ on_the_flight_packets' \subseteq Ids
         /\ \A t \in scheduled' : t \in scheduled \/ SentDraft(t, packets, node)
<1> DEFINE destroyed == {s.packet.id : s \in done}
<1>1. PICK f \in [packets -> FreeIds] :
        Injective(packets, f) /\ Created(packets) = Numbered(packets, f)
  <2>1. Numberings(packets) # {}
    BY DEF Exchange
  <2> QED
    BY <2>1, CreatedPackets, Zenon
<1> DEFINE named(p) == [p EXCEPT !.id = f[p]]
           sent(p) == SendScionPacket(named(p), node)
<1>2. \A p \in packets : /\ f[p] \in Ids /\ f[p] \notin on_the_flight_packets
                         /\ named(p).id = f[p] /\ named(p) \in Packet
  BY <1>1, NumberedDraft DEF FreeIds
<1>3. \A p \in packets : sent(p).packet = named(p)
  BY DEF SendScionPacket, OnTheWay
<1>4. Created(packets) = {named(p) : p \in packets}
  BY <1>1 DEF Numbered
<1> HIDE DEF named
<1>5. IdsOf(Created(packets)) = {f[p] : p \in packets}
  BY <1>2, <1>4 DEF IdsOf
<1>6. scheduled' = (scheduled \ done) \cup {sent(p) : p \in packets}
  BY <1>4 DEF Exchange
<1>7. on_the_flight_packets' = (on_the_flight_packets \cup {f[p] : p \in packets}) \ destroyed
  BY <1>5 DEF Exchange
<1> HIDE DEF sent
<1>8. \A p \in packets : sent(p).packet.id = f[p]
  BY <1>2, <1>3
<1>9. /\ \A t \in scheduled : t.packet.id \in on_the_flight_packets
      /\ \A id \in on_the_flight_packets : \E t \in scheduled : t.packet.id = id
      /\ \A t, u \in scheduled : t.packet.id = u.packet.id => t = u
  BY DEF ExistsWhileUnderWay
<1>10. destroyed \subseteq on_the_flight_packets
  BY <1>9
<1>11. \A t \in scheduled \ done : t.packet.id \notin destroyed
  BY <1>9
<1> HIDE DEF destroyed
<1>12. {t.packet.id : t \in scheduled'} = on_the_flight_packets'
  <2>1. ASSUME NEW t \in scheduled' PROVE t.packet.id \in on_the_flight_packets'
    <3>1. CASE t \in scheduled \ done
      BY <1>7, <1>9, <1>11, <3>1
    <3>2. CASE t \in {sent(p) : p \in packets}
      BY <1>2, <1>7, <1>8, <1>10, <3>2
    <3> QED
      BY <1>6, <2>1, <3>1, <3>2
  <2>2. ASSUME NEW id \in on_the_flight_packets' PROVE \E t \in scheduled' : t.packet.id = id
    <3>1. CASE id \in on_the_flight_packets
      <4>1. PICK t \in scheduled : t.packet.id = id
        BY <1>9, <3>1
      <4>2. t \notin done
        BY <1>7, <2>2, <4>1 DEF destroyed
      <4> QED
        BY <1>6, <4>1, <4>2
    <3>2. CASE id \in {f[p] : p \in packets}
      BY <1>6, <1>8, <3>2
    <3> QED
      BY <1>7, <2>2, <3>1, <3>2
  <2> QED
    BY <2>1, <2>2
<1>13. ASSUME NEW t \in scheduled', NEW u \in scheduled', t.packet.id = u.packet.id
       PROVE  t = u
  <2>1. CASE t \in scheduled /\ u \in scheduled
    BY <1>9, <1>13, <2>1
  <2>2. CASE t \in scheduled /\ u \notin scheduled
    BY <1>2, <1>6, <1>8, <1>9, <1>13, <2>2
  <2>3. CASE t \notin scheduled /\ u \in scheduled
    BY <1>2, <1>6, <1>8, <1>9, <1>13, <2>3
  <2>4. CASE t \notin scheduled /\ u \notin scheduled
    <3>1. PICK p \in packets : t = sent(p)
      BY <1>6, <2>4
    <3>2. PICK q \in packets : u = sent(q)
      BY <1>6, <2>4
    <3> QED
      BY <1>1, <1>8, <1>13, <3>1, <3>2 DEF Injective
  <2> QED
    BY <2>1, <2>2, <2>3, <2>4
<1>14. ExistsWhileUnderWay'
  BY <1>12, <1>13 DEF ExistsWhileUnderWay
<1>15. on_the_flight_packets' \subseteq Ids
  BY <1>2, <1>7
<1>16. ASSUME NEW t \in scheduled', t \notin scheduled
       PROVE  SentDraft(t, packets, node)
  <2>1. PICK p \in packets : t = sent(p)
    BY <1>6, <1>16
  <2>2. named(p) \in Packet /\ f[p] \in Ids /\ t = SendScionPacket(named(p), node)
    BY <1>2, <2>1 DEF sent
  <2>3. named(p) = [p EXCEPT !.id = f[p]]
    BY DEF named
  <2> QED
    BY <2>2, <2>3 DEF SentDraft
<1> QED
  BY <1>14, <1>15, <1>16

\* A packet that goes on, changed but for its number, keeps existing.
LEMMA OnwardKeepsTrack ==
  ASSUME ExistsWhileUnderWay, NEW s \in scheduled, NEW t, t.packet.id = s.packet.id,
         scheduled' = (scheduled \ {s}) \cup {t}, UNCHANGED on_the_flight_packets
  PROVE  ExistsWhileUnderWay'
<1>1. /\ \A u \in scheduled : u.packet.id \in on_the_flight_packets
      /\ \A id \in on_the_flight_packets : \E u \in scheduled : u.packet.id = id
      /\ \A u, v \in scheduled : u.packet.id = v.packet.id => u = v
  BY DEF ExistsWhileUnderWay
<1>2. /\ \A u \in scheduled' : u.packet.id \in on_the_flight_packets'
      /\ \A id \in on_the_flight_packets' : \E u \in scheduled' : u.packet.id = id
  BY <1>1
<1>3. \A u, v \in scheduled' : u.packet.id = v.packet.id => u = v
  BY <1>1
<1> QED
  BY <1>2, <1>3 DEF ExistsWhileUnderWay

\* A packet that is dropped is the only one with its number.
LEMMA DropKeepsTrack ==
  ASSUME ExistsWhileUnderWay, NEW s \in scheduled, DropPacket(s)
  PROVE  ExistsWhileUnderWay'
<1>1. /\ \A u \in scheduled : u.packet.id \in on_the_flight_packets
      /\ \A id \in on_the_flight_packets : \E u \in scheduled : u.packet.id = id
      /\ \A u, v \in scheduled : u.packet.id = v.packet.id => u = v
  BY DEF ExistsWhileUnderWay
<1>2. /\ scheduled' = scheduled \ {s}
      /\ on_the_flight_packets' = on_the_flight_packets \ {s.packet.id}
  BY DEF DropPacket
<1>3. /\ \A u \in scheduled' : u.packet.id \in on_the_flight_packets'
      /\ \A id \in on_the_flight_packets' : \E u \in scheduled' : u.packet.id = id
      /\ \A u, v \in scheduled' : u.packet.id = v.packet.id => u = v
  BY <1>1, <1>2
<1> QED
  BY <1>3 DEF ExistsWhileUnderWay

\* The assertions hold for every packet that travels.
LEMMA TravellingMeetsAssertions ==
  ASSUME \A s \in scheduled : Travelling(s)
  PROVE  AssertionsHold
<1> SUFFICES ASSUME NEW s \in scheduled
             PROVE  IF s.at.kind # "br" THEN s.at = s.packet.dst
                      ELSE /\ s.packet.path # NoPath
                           /\ Hop(s.packet).as = s.at.as
                           /\ s.packet.dst.as # s.at.as =>
                                IF s.packet.path_reversed THEN s.packet.cur_hopf > 1
                                  ELSE s.packet.cur_hopf < Len(s.packet.path.hops)
  BY DEF AssertionsHold
<1>1. Travelling(s)
  OBVIOUS
<1>2. CASE s.at.kind # "br"
  BY <1>1, <1>2 DEF Travelling, InsideAS, Arrived, OnItsPath
<1>3. CASE s.at.kind = "br"
  <2> DEFINE p == s.packet
  <2>1. OnItsPath(s) /\ p.path_reversed \in BOOLEAN
    BY <1>1, <1>3 DEF Travelling, InsideAS, Arrived, Scheduled, Packet
  <2>2. /\ Ends(p) /\ p.path \in Segments /\ s.at.as = Hop(p).as
        /\ p.cur_hopf \in 1..Len(p.path.hops) /\ Len(p.path.hops) \in Nat
    BY <2>1, HopsOf DEF OnItsPath, Ends
  <2>3. p.path # NoPath
    BY <2>2, ForwardingAssumption
  <2>4. p.dst.as # s.at.as => p.cur_hopf # LastHop(p)
    BY <2>2 DEF Ends, Hop
  <2>5. CASE p.path_reversed
    <3>1. LastHop(p) = 1
      BY <2>5 DEF LastHop
    <3>2. p.cur_hopf # LastHop(p) => p.cur_hopf > 1
      BY <2>2, <3>1
    <3> QED
      BY <1>3, <2>2, <2>3, <2>4, <2>5, <3>2
  <2>6. CASE ~p.path_reversed
    <3>1. LastHop(p) = Len(p.path.hops)
      BY <2>6 DEF LastHop
    <3>2. p.cur_hopf # LastHop(p) => p.cur_hopf < Len(p.path.hops)
      BY <2>2, <3>1
    <3> QED
      BY <1>3, <2>2, <2>3, <2>4, <2>6, <3>2
  <2> QED
    BY <2>5, <2>6
<1> QED
  BY <1>2, <1>3

-----------------------------------------------------------------------------
(* The network *)

\* Lookups stay between a host and the path server of its AS.  Applications
\* send along their paths, and are answered backwards along them; "paths" are
\* the paths of the applications.
Roles(p, paths) ==
  /\ p.type \in {"UP_REQ", "CORE_REQ", "DOWN_REQ"} =>
       p.path = NoPath /\ p.src \in Hosts /\ p.dst = PathServer(p.src.as)
  /\ p.type = "REG_PATHS" => p.path = NoPath /\ p.dst \in Hosts
  /\ p.type \in {"PROBE", "APP_DATA"} =>
       /\ p.src \in Apps /\ p.dst = AppDestination[p.src]
       /\ p.path \in Elements(paths[p.src]) /\ p.path_reversed = FALSE
  /\ p.type \in {"PROBE_ECHO", "APP_RESP"} =>
       /\ p.dst \in Apps /\ p.src = AppDestination[p.dst]
       /\ p.path \in Elements(paths[p.dst]) /\ p.path_reversed = TRUE

PacketsInPlace ==
  \A s \in scheduled : Travelling(s) /\ Roles(s.packet, app_paths)

\* A host caches a segment once, and under its destination.
CachesLeadThere ==
  \A h \in Hosts, as \in ASes : \A seg \in Elements(cached_core_path_segments[h][as]) :
    /\ cached_core_path_segments[h][as][seg] = 1
    /\ Start(seg) = h.as /\ Originator(seg) = as

\* A connection is one of an application that sends to this host, by a path of
\* that application.
ConnectionsOfApps ==
  \A h \in Hosts : \A c \in connection_infos[h] :
    c.src \in Apps /\ AppDestination[c.src] = h /\ c.path \in Elements(app_paths[c.src])

\* The packets are in order.
PacketsOK == ForwardingTypeOK /\ PacketsInPlace /\ ExistsWhileUnderWay

\* What the path servers and the hosts know is.
KnowledgeOK ==
  /\ registered_core_segments \subseteq Segments /\ unexpired \subseteq registered_core_segments
  /\ cached_core_path_segments \in [Hosts -> [ASes -> List]]
  /\ app_paths \in [Apps -> List]
  /\ connection_infos \in [Hosts -> SUBSET Connection]
  /\ CachesLeadThere /\ AppPathsLeadThere /\ ConnectionsOfApps

IInv == PacketsOK /\ KnowledgeOK

-----------------------------------------------------------------------------
(* Packets *)

\* The pointer of a packet that travels is on its path.
LEMMA TypeFromPlace ==
  ASSUME NEW S, \A s \in S : Travelling(s)
  PROVE  /\ S \subseteq Scheduled
         /\ \A s \in S :
              s.packet.path # NoPath => s.packet.cur_hopf \in DOMAIN s.packet.path.hops
<1>1. S \subseteq Scheduled
  BY DEF Travelling
<1>2. ASSUME NEW s \in S, s.packet.path # NoPath
      PROVE  s.packet.cur_hopf \in DOMAIN s.packet.path.hops
  <2>1. Travelling(s) /\ s.packet.path_reversed \in BOOLEAN
    BY <1>1 DEF Scheduled, Packet
  <2>2. CASE Arrived(s)
    <3>1. s.packet.cur_hopf \in 1..Len(s.packet.path.hops)
      BY <2>1, <2>2, EndsDiffer DEF Arrived
    <3> QED
      BY <2>2, <3>1, HopsOf DEF Arrived, Ends
  <2>3. CASE OnItsPath(s)
    BY <2>3 DEF OnItsPath
  <2> QED
    BY <1>2, <2>1, <2>2, <2>3 DEF Travelling, InsideAS
<1> QED
  BY <1>1, <1>2

\* Neither a number nor the pointer matters to the role of a packet.
LEMMA RolesStay ==
  ASSUME NEW p, NEW q, NEW paths, Roles(p, paths),
         q.type = p.type, q.src = p.src, q.dst = p.dst, q.path = p.path,
         q.path_reversed = p.path_reversed
  PROVE  Roles(q, paths)
BY DEF Roles

\* A node that is ready to send drafts in their roles keeps the packets in order.
LEMMA ExchangeKeeps ==
  ASSUME PacketsOK,
         NEW done \in SUBSET scheduled, NEW packets \in SUBSET Draft, NEW node,
         \A p \in packets : Ready(p, node) /\ Roles(p, app_paths),
         Exchange(done, {s.packet.id : s \in done}, packets, node),
         UNCHANGED app_paths
  PROVE  PacketsOK'
<1>1. /\ ExistsWhileUnderWay' /\ on_the_flight_packets' \subseteq Ids
      /\ \A t \in scheduled' : t \in scheduled \/ SentDraft(t, packets, node)
  <2>1. ExistsWhileUnderWay /\ on_the_flight_packets \subseteq Ids
    BY DEF PacketsOK, ForwardingTypeOK
  <2> QED
    BY <2>1, ExchangeKeepsTrack
<1>2. ASSUME NEW t \in scheduled' PROVE Travelling(t) /\ Roles(t.packet, app_paths)
  <2>1. CASE t \in scheduled
    BY <2>1 DEF PacketsOK, PacketsInPlace
  <2>2. CASE t \notin scheduled
    <3>1. PICK p \in packets, q \in Packet :
            /\ \E id \in Ids : q = [p EXCEPT !.id = id]
            /\ t = SendScionPacket(q, node)
      BY <1>1, <2>2 DEF SentDraft
    <3>2. /\ q.type = p.type /\ q.src = p.src /\ q.dst = p.dst /\ q.path = p.path
          /\ q.path_reversed = p.path_reversed /\ q.cur_hopf = p.cur_hopf
      BY <3>1, NumberedDraft
    <3>3. Ready(q, node)
      BY <3>2 DEF Ready, Ends, FirstHop, LastHop
    <3>4. Travelling(t) /\ t.packet = q
      BY <3>1, <3>3, SentTravels
    <3>5. Roles(q, app_paths)
      BY <3>2, RolesStay
    <3> QED
      BY <3>4, <3>5
  <2> QED
    BY <2>1, <2>2
<1>3. PacketsInPlace'
  BY <1>2 DEF PacketsInPlace
<1>4. ForwardingTypeOK'
  BY <1>1, <1>2, TypeFromPlace DEF ForwardingTypeOK
<1> QED
  BY <1>1, <1>3, <1>4 DEF PacketsOK

\* A packet that goes on in its place leaves the packets in order.
LEMMA OnwardKeeps ==
  ASSUME PacketsOK, NEW s \in scheduled, NEW t,
         Travelling(t), Roles(t.packet, app_paths), t.packet.id = s.packet.id,
         scheduled' = (scheduled \ {s}) \cup {t},
         UNCHANGED <<on_the_flight_packets, app_paths>>
  PROVE  PacketsOK'
<1>1. ExistsWhileUnderWay'
  BY OnwardKeepsTrack DEF PacketsOK
<1>2. ASSUME NEW u \in scheduled' PROVE Travelling(u) /\ Roles(u.packet, app_paths)
  BY <1>2 DEF PacketsOK, PacketsInPlace
<1>3. PacketsInPlace'
  BY <1>2 DEF PacketsInPlace
<1>4. ForwardingTypeOK'
  BY <1>2, TypeFromPlace DEF ForwardingTypeOK, PacketsOK
<1> QED
  BY <1>1, <1>3, <1>4 DEF PacketsOK

\* Sending no packets needs no care.
LEMMA TakeKeeps ==
  ASSUME PacketsOK, NEW s \in scheduled, NEW node,
         Exchange({s}, {s.packet.id}, {}, node), UNCHANGED app_paths
  PROVE  PacketsOK'
<1>1. {t.packet.id : t \in {s}} = {s.packet.id}
  OBVIOUS
<1> QED
  BY <1>1, ExchangeKeeps

\* As long as only packets move, what is known stays.
LEMMA KnowledgeStays ==
  ASSUME KnowledgeOK,
         UNCHANGED <<registered_core_segments, unexpired, cached_core_path_segments,
                     app_paths, connection_infos>>
  PROVE  KnowledgeOK'
BY DEF KnowledgeOK, CachesLeadThere, AppPathsLeadThere, ConnectionsOfApps

\* A new packet is a draft, whatever direction it is given.
LEMMA NewPacketIsDraft ==
  ASSUME NEW type \in LookupTypes \cup TrafficTypes, NEW about \in ASes,
         NEW src \in Nodes, NEW dst \in Nodes, NEW path \in Segments \cup {NoPath}
  PROVE  NewPacket(type, about, src, dst, path) \in Draft
BY DEF NewPacket, Draft

\* Hosts and path servers are nodes of their ASes.
LEMMA HostsAreNodes ==
  ASSUME NEW h \in Hosts
  PROVE  /\ h \in Nodes /\ h.kind = "host" /\ h.as \in ASes
         /\ PathServer(h.as) \in Nodes /\ PathServer(h.as).kind = "ps"
         /\ PathServer(h.as).as = h.as
BY ForwardingAssumption DEF Nodes, PathServers, PathServer

-----------------------------------------------------------------------------
(* The steps: border routers and path servers *)

\* A segment is registered: nothing under way depends on it.
LEMMA RegisterKeeps ==
  ASSUME IInv, NEW seg \in Segments, Register(seg)
  PROVE  IInv'
<1>1. PacketsOK'
  BY DEF IInv, PacketsOK, ForwardingTypeOK, PacketsInPlace, ExistsWhileUnderWay, Register
<1>2. KnowledgeOK'
  BY DEF IInv, KnowledgeOK, CachesLeadThere, AppPathsLeadThere, ConnectionsOfApps, Register
<1> QED
  BY <1>1, <1>2 DEF IInv

\* A segment expires: what is cached stays.
LEMMA ExpireKeeps ==
  ASSUME IInv, NEW seg \in unexpired, Expire(seg)
  PROVE  IInv'
<1>1. PacketsOK'
  BY DEF IInv, PacketsOK, ForwardingTypeOK, PacketsInPlace, ExistsWhileUnderWay, Expire
<1>2. KnowledgeOK'
  BY DEF IInv, KnowledgeOK, CachesLeadThere, AppPathsLeadThere, ConnectionsOfApps, Expire
<1> QED
  BY <1>1, <1>2 DEF IInv

\* A border router forwards a packet to its next place, or drops it.
LEMMA BorderRouterStepKeeps ==
  ASSUME IInv, NEW s \in scheduled, BorderRouterStep(s)
  PROVE  IInv'
<1>1. KnowledgeOK'
  BY KnowledgeStays DEF IInv, BorderRouterStep
<1>2. /\ PacketsOK /\ UNCHANGED app_paths /\ s.at.kind = "br"
      /\ Travelling(s) /\ Roles(s.packet, app_paths)
  BY DEF IInv, PacketsOK, PacketsInPlace, BorderRouterStep
<1>3. CASE ForwardPacket(s)
  <2> DEFINE t == OnTheWay(Forwarded(s), s.at, NextNode(s))
  <2>1. PICK c \in Nat : Forwarded(s) = [s.packet EXCEPT !.cur_hopf = c]
    BY <1>2, ForwardedTravels
  <2>2. Travelling(t) /\ t.packet = Forwarded(s)
    BY <1>2, ForwardedTravels
  <2>3. s.packet \in Packet
    BY <1>2 DEF Travelling, Scheduled
  <2>4. /\ t.packet.id = s.packet.id
        /\ t.packet.type = s.packet.type /\ t.packet.src = s.packet.src
        /\ t.packet.dst = s.packet.dst /\ t.packet.path = s.packet.path
        /\ t.packet.path_reversed = s.packet.path_reversed
    BY <2>1, <2>2, <2>3 DEF Packet
  <2>5. scheduled' = (scheduled \ {s}) \cup {t} /\ UNCHANGED on_the_flight_packets
    BY <1>3 DEF ForwardPacket
  <2> HIDE DEF t
  <2>6. Roles(t.packet, app_paths)
    BY <1>2, <2>4, RolesStay
  <2>7. PacketsOK'
    BY <1>2, <2>2, <2>4, <2>5, <2>6, OnwardKeeps
  <2> QED
    BY <1>1, <2>7 DEF IInv
<1>4. CASE DropPacket(s)
  <2>1. ExistsWhileUnderWay'
    BY <1>2, <1>4, DropKeepsTrack DEF PacketsOK
  <2>2. scheduled' \subseteq scheduled /\ on_the_flight_packets' \subseteq on_the_flight_packets
    BY <1>4 DEF DropPacket
  <2>3. PacketsInPlace' /\ ForwardingTypeOK'
    BY <1>2, <2>2 DEF PacketsOK, PacketsInPlace, ForwardingTypeOK
  <2> QED
    BY <1>1, <2>1, <2>3 DEF IInv, PacketsOK
<1> QED
  BY <1>3, <1>4 DEF BorderRouterStep

\* A path server answers the host that asked.
LEMMA AnswerRequestKeeps ==
  ASSUME IInv, NEW s \in scheduled, s.at.kind = "ps", AnswerRequest(s)
  PROVE  IInv'
<1> DEFINE answers == {NewPacket("REG_PATHS", as, s.at, s.packet.src, NoPath) :
                         as \in AnsweredAbout(s.packet)}
<1>1. KnowledgeOK'
  BY KnowledgeStays DEF IInv, AnswerRequest
<1>2. /\ PacketsOK /\ UNCHANGED app_paths /\ s \in Scheduled
      /\ Travelling(s) /\ Roles(s.packet, app_paths)
  BY DEF IInv, PacketsOK, PacketsInPlace, Travelling, AnswerRequest
<1>3. ASSUME NEW p \in answers
      PROVE  p \in Draft /\ Ready(p, s.at) /\ Roles(p, app_paths)
  <2>1. PICK as \in AnsweredAbout(s.packet) :
          p = NewPacket("REG_PATHS", as, s.at, s.packet.src, NoPath)
    OBVIOUS
  <2>2. s.packet.type = "CORE_REQ" /\ as \in ASes
    BY DEF AnsweredAbout
  <2>3. s.packet.src \in Hosts /\ s.packet.dst = PathServer(s.packet.src.as)
        /\ s.packet.path = NoPath
    BY <1>2, <2>2 DEF Roles
  <2>4. s.at = s.packet.dst
    BY <1>2, <2>3, ForwardingAssumption DEF Travelling, InsideAS, Arrived, OnItsPath, Ends
  <2>5. s.at \in Nodes /\ s.packet.src \in Nodes /\ s.packet.src.kind = "host"
        /\ s.at.as = s.packet.src.as
    BY <2>3, <2>4, HostsAreNodes
  <2>6. p \in Draft
    BY <2>1, <2>2, <2>5, NewPacketIsDraft DEF LookupTypes
  <2>7. p.path = NoPath /\ p.dst = s.packet.src /\ p.type = "REG_PATHS"
    BY <2>1 DEF NewPacket
  <2> QED
    BY <2>3, <2>5, <2>6, <2>7 DEF Ready, Roles
<1>4. Exchange({s}, {s.packet.id}, answers, s.at)
  BY DEF AnswerRequest, DestroyedByServer
<1> HIDE DEF answers
<1>5. {t.packet.id : t \in {s}} = {s.packet.id}
  OBVIOUS
<1>6. answers \in SUBSET Draft /\ \A p \in answers : Ready(p, s.at) /\ Roles(p, app_paths)
  BY <1>3
<1>7. PacketsOK'
  BY <1>2, <1>4, <1>5, <1>6, ExchangeKeeps
<1> QED
  BY <1>1, <1>7 DEF IInv

-----------------------------------------------------------------------------
(* The steps: lookups of the hosts *)

\* A packet that has come to a host is for that host.
LEMMA AtItsHost ==
  ASSUME NEW s, Travelling(s), s.at.kind = "host"
  PROVE  /\ s \in Scheduled /\ s.at = s.packet.dst /\ s.at \in Hosts
         /\ s.packet.path # NoPath => Arrived(s)
<1>1. s \in Scheduled /\ s.at \in Nodes
  BY DEF Travelling, Scheduled
<1>2. s.at \in Hosts
  BY <1>1, NodesByKind
<1> QED
  BY <1>1, <1>2 DEF Travelling, InsideAS, Arrived, OnItsPath

\* A host caches the segments it has not cached yet.
LEMMA ReceiveAnswerKeeps ==
  ASSUME IInv, NEW s \in scheduled, s.at.kind = "host", ReceiveAnswer(s)
  PROVE  IInv'
<1> DEFINE h == s.at
           dst_ia == s.packet.about
           new == NewForCache(h, dst_ia)
<1>1. /\ PacketsOK /\ KnowledgeOK /\ UNCHANGED app_paths
      /\ Exchange({s}, {s.packet.id}, {}, s.at)
      /\ Travelling(s)
  BY DEF IInv, PacketsOK, PacketsInPlace, ReceiveAnswer
<1>2. h \in Hosts /\ dst_ia \in ASes
  BY <1>1, AtItsHost DEF Scheduled, Packet
<1>3. PacketsOK'
  BY <1>1, TakeKeeps
<1>4. cached_core_path_segments' =
        [cached_core_path_segments EXCEPT ![h][dst_ia] = With(@, new)]
  BY DEF ReceiveAnswer
<1>5. \A seg \in new : /\ seg \in Segments /\ Start(seg) = h.as /\ Originator(seg) = dst_ia
                       /\ seg \notin Elements(cached_core_path_segments[h][dst_ia])
  BY <1>1 DEF NewForCache, SegmentsTo, KnowledgeOK
<1> HIDE DEF new
<1>6. cached_core_path_segments \in [Hosts -> [ASes -> List]]
  BY <1>1 DEF KnowledgeOK
<1>7. With(cached_core_path_segments[h][dst_ia], new) \in List
  <2>1. cached_core_path_segments[h][dst_ia] \in List
    BY <1>2, <1>6
  <2> QED
    BY <2>1 DEF With, List
<1>8. cached_core_path_segments' \in [Hosts -> [ASes -> List]]
  BY <1>2, <1>4, <1>6, <1>7
<1>9. CachesLeadThere'
  <2> SUFFICES ASSUME NEW g \in Hosts, NEW as \in ASes,
                      NEW seg \in Elements(cached_core_path_segments'[g][as])
               PROVE  /\ cached_core_path_segments'[g][as][seg] = 1
                      /\ Start(seg) = g.as /\ Originator(seg) = as
    BY DEF CachesLeadThere, Elements
  <2>1. CASE g = h /\ as = dst_ia
    <3> DEFINE old == cached_core_path_segments[h][dst_ia]
    <3>1. cached_core_path_segments'[g][as] = With(old, new)
      BY <1>2, <1>4, <1>6, <2>1
    <3>2. seg \in Segments /\ old[seg] \in Nat
          /\ With(old, new)[seg] = old[seg] + (IF seg \in new THEN 1 ELSE 0)
          /\ With(old, new)[seg] > 0
      <4>1. old \in List
        BY <1>2, <1>6
      <4> QED
        BY <3>1, <4>1 DEF Elements, With, List
    <3>3. CASE seg \in new
      <4>1. old[seg] = 0
        BY <1>5, <3>2, <3>3 DEF Elements
      <4> QED
        BY <1>5, <2>1, <3>1, <3>2, <3>3, <4>1
    <3>4. CASE seg \notin new
      <4>1. seg \in Elements(old) /\ With(old, new)[seg] = old[seg]
        BY <3>2, <3>4 DEF Elements
      <4>2. old[seg] = 1 /\ Start(seg) = h.as /\ Originator(seg) = dst_ia
        BY <1>1, <1>2, <4>1 DEF KnowledgeOK, CachesLeadThere
      <4> QED
        BY <2>1, <3>1, <4>1, <4>2
    <3> QED
      BY <3>3, <3>4
  <2>2. CASE ~(g = h /\ as = dst_ia)
    <3>1. cached_core_path_segments'[g][as] = cached_core_path_segments[g][as]
      BY <1>2, <1>4, <1>6, <2>2
    <3>2. seg \in Elements(cached_core_path_segments[g][as])
      BY <3>1 DEF Elements
    <3> QED
      BY <1>1, <3>1, <3>2 DEF KnowledgeOK, CachesLeadThere
  <2> QED
    BY <2>1, <2>2
<1>10. KnowledgeOK'
  BY <1>1, <1>8, <1>9
     DEF KnowledgeOK, AppPathsLeadThere, ConnectionsOfApps, ReceiveAnswer
<1> QED
  BY <1>3, <1>10 DEF IInv

\* A host asks the path server of its AS.
LEMMA RequestForPathSegmentsKeeps ==
  ASSUME IInv, NEW h \in Apps, RequestForPathSegments(h)
  PROVE  IInv'
<1> DEFINE requests == {NewPacket(type, AppDestination[h].as, h, PathServer(h.as), NoPath) :
                          type \in RequestTypes}
<1>1. KnowledgeOK'
  BY KnowledgeStays DEF IInv, RequestForPathSegments
<1>2. PacketsOK /\ UNCHANGED app_paths
  BY DEF IInv, RequestForPathSegments
<1>3. ASSUME NEW p \in requests
      PROVE  p \in Draft /\ Ready(p, h) /\ Roles(p, app_paths)
  <2>1. PICK type \in RequestTypes :
          p = NewPacket(type, AppDestination[h].as, h, PathServer(h.as), NoPath)
    OBVIOUS
  <2>2. h \in Hosts /\ AppDestination[h] \in Hosts
    BY NetworkAssumption
  <2>3. type \in {"UP_REQ", "CORE_REQ", "DOWN_REQ"}
    BY DEF RequestTypes
  <2>4. AppDestination[h].as \in ASes /\ h \in Nodes /\ PathServer(h.as) \in Nodes
        /\ PathServer(h.as).kind = "ps" /\ PathServer(h.as).as = h.as
    BY <2>2, HostsAreNodes
  <2>5. p \in Draft
    BY <2>1, <2>3, <2>4, NewPacketIsDraft DEF LookupTypes
  <2>6. p.path = NoPath /\ p.src = h /\ p.dst = PathServer(h.as) /\ p.type = type
    BY <2>1 DEF NewPacket
  <2> QED
    BY <2>2, <2>3, <2>4, <2>5, <2>6 DEF Ready, Roles
<1>4. Exchange({}, {}, requests, h)
  BY DEF RequestForPathSegments
<1> HIDE DEF requests
<1>5. {t.packet.id : t \in {}} = {} /\ {} \in SUBSET scheduled
  OBVIOUS
<1>6. requests \in SUBSET Draft /\ \A p \in requests : Ready(p, h) /\ Roles(p, app_paths)
  BY <1>3
<1>7. PacketsOK'
  BY <1>2, <1>4, <1>5, <1>6, ExchangeKeeps
<1> QED
  BY <1>1, <1>7 DEF IInv

\* An application starts with paths that lead to its destination.
LEMMA StartApplicationKeeps ==
  ASSUME IInv, NEW h \in Apps, StartApplication(h)
  PROVE  IInv'
<1> DEFINE dst_ia == AppDestination[h].as
           cached == cached_core_path_segments[h][dst_ia]
           configured == {seg \in ConfiguredPaths : Start(seg) = h.as /\ Originator(seg) = dst_ia}
<1>1. PacketsOK /\ KnowledgeOK /\ app_paths[h] = Empty
  BY DEF IInv, StartApplication
<1>2. PICK paths \in {cached} \cup {With(Empty, {seg}) : seg \in configured} :
        app_paths' = [app_paths EXCEPT ![h] = paths]
  BY DEF StartApplication
<1>3. h \in Hosts /\ dst_ia \in ASes
  BY NetworkAssumption, HostsAreNodes
<1>4. /\ paths \in List
      /\ \A seg \in Elements(paths) :
           paths[seg] = 1 /\ Start(seg) = h.as /\ Originator(seg) = dst_ia
  <2>1. CASE paths = cached
    BY <1>1, <1>3, <2>1 DEF KnowledgeOK, CachesLeadThere
  <2>2. CASE paths \in {With(Empty, {seg}) : seg \in configured}
    <3>1. PICK seg \in configured : paths = With(Empty, {seg})
      BY <2>2
    <3>2. paths = [t \in Segments |-> IF t = seg THEN 1 ELSE 0]
      BY <3>1 DEF With, Empty
    <3>3. paths \in List /\ \A t \in Elements(paths) : t = seg /\ paths[t] = 1
      BY <3>2 DEF List, Elements
    <3> QED
      BY <3>1, <3>3
  <2> QED
    BY <2>1, <2>2
<1> HIDE DEF dst_ia, cached, configured
<1>5. app_paths \in [Apps -> List]
  BY <1>1 DEF KnowledgeOK
<1>6. app_paths' \in [Apps -> List] /\ app_paths'[h] = paths
      /\ \A g \in Apps : g # h => app_paths'[g] = app_paths[g]
  BY <1>2, <1>4, <1>5
<1>7. \A g \in Apps : Elements(app_paths[g]) \subseteq Elements(app_paths'[g])
  <2>1. Elements(app_paths[h]) = {}
    BY <1>1 DEF Elements, Empty
  <2> QED
    BY <1>6, <2>1
<1>8. AppPathsLeadThere'
  <2> SUFFICES ASSUME NEW g \in Apps, NEW path \in Elements(app_paths'[g])
               PROVE  /\ app_paths'[g][path] = 1
                      /\ Start(path) = g.as /\ Originator(path) = AppDestination[g].as
    BY DEF AppPathsLeadThere, Elements
  <2>1. CASE g = h
    BY <1>4, <1>6, <2>1 DEF dst_ia
  <2>2. CASE g # h
    BY <1>1, <1>6, <2>2 DEF KnowledgeOK, AppPathsLeadThere
  <2> QED
    BY <2>1, <2>2
<1>9. UNCHANGED <<on_the_flight_packets, scheduled, registered_core_segments, unexpired,
                  cached_core_path_segments, connection_infos>>
  BY DEF StartApplication
<1>10. ConnectionsOfApps'
  BY <1>1, <1>7, <1>9 DEF KnowledgeOK, ConnectionsOfApps
<1>11. CachesLeadThere'
  BY <1>1, <1>9 DEF KnowledgeOK, CachesLeadThere
<1>12. KnowledgeOK'
  BY <1>1, <1>6, <1>8, <1>9, <1>10, <1>11 DEF KnowledgeOK
<1>13. PacketsInPlace'
  <2> SUFFICES ASSUME NEW s \in scheduled PROVE Travelling(s) /\ Roles(s.packet, app_paths')
    BY <1>9 DEF PacketsInPlace
  <2>1. Travelling(s) /\ Roles(s.packet, app_paths)
    BY <1>1 DEF PacketsOK, PacketsInPlace
  <2> QED
    BY <1>7, <2>1 DEF Roles
<1>14. ForwardingTypeOK' /\ ExistsWhileUnderWay'
  BY <1>1, <1>9 DEF PacketsOK, ForwardingTypeOK, ExistsWhileUnderWay
<1> QED
  BY <1>12, <1>13, <1>14 DEF IInv, PacketsOK

-----------------------------------------------------------------------------
(* The steps: traffic of the hosts *)

\* The path of an application is a segment from its host to its destination.
LEMMA PathOfApp ==
  ASSUME KnowledgeOK, NEW a \in Apps, NEW path \in Elements(app_paths[a])
  PROVE  /\ path \in Segments /\ path # NoPath
         /\ Len(path.hops) \in Nat /\ Len(path.hops) >= 2
         /\ path.hops[1].as = a.as /\ path.hops[Len(path.hops)].as = AppDestination[a].as
         /\ a \in Hosts /\ AppDestination[a] \in Hosts
<1>1. path \in Segments
  BY DEF Elements
<1>2. Start(path) = a.as /\ Originator(path) = AppDestination[a].as
  BY DEF KnowledgeOK, AppPathsLeadThere
<1> QED
  BY <1>1, <1>2, HopsOf, ForwardingAssumption, NetworkAssumption DEF Start, Originator

\* An application sends along one of its paths.
LEMMA SendAppPacketKeeps ==
  ASSUME IInv, NEW h \in Apps, NEW type \in {"PROBE", "APP_DATA"},
         NEW path \in Elements(app_paths[h]), SendAppPacket(h, type, path)
  PROVE  IInv'
<1> DEFINE p == NewPacket(type, AppDestination[h].as, h, AppDestination[h], path)
<1>1. KnowledgeOK'
  BY KnowledgeStays DEF IInv, SendAppPacket
<1>2. PacketsOK /\ KnowledgeOK /\ UNCHANGED app_paths /\ Exchange({}, {}, {p}, h)
  BY DEF IInv, SendAppPacket
<1>3. /\ path \in Segments /\ path # NoPath
      /\ path.hops[1].as = h.as /\ path.hops[Len(path.hops)].as = AppDestination[h].as
      /\ h \in Hosts /\ AppDestination[h] \in Hosts
  BY <1>2, PathOfApp
<1>4. p \in Draft
  BY <1>3, HostsAreNodes, NewPacketIsDraft DEF TrafficTypes
<1>5. /\ p.type = type /\ p.src = h /\ p.dst = AppDestination[h] /\ p.path = path
      /\ p.path_reversed = FALSE /\ p.cur_hopf = 1
  BY DEF NewPacket
<1> HIDE DEF p
<1>6. Ends(p) /\ p.cur_hopf = FirstHop(p)
  BY <1>3, <1>5 DEF Ends, FirstHop, LastHop
<1>7. Ready(p, h) /\ Roles(p, app_paths)
  BY <1>3, <1>5, <1>6, HostsAreNodes DEF Ready, Roles
<1>8. {t.packet.id : t \in {}} = {} /\ {} \in SUBSET scheduled
  OBVIOUS
<1>9. PacketsOK'
  BY <1>2, <1>4, <1>7, <1>8, ExchangeKeeps
<1> QED
  BY <1>1, <1>9 DEF IInv

\* A probe turns round at the end of its path.
LEMMA EchoProbeKeeps ==
  ASSUME IInv, NEW s \in scheduled, s.at.kind = "host", EchoProbe(s)
  PROVE  IInv'
<1> DEFINE p == s.packet
           q == [Returned(p, s.at) EXCEPT !.type = EchoType]
           t == SendScionPacket(q, s.at)
<1>1. KnowledgeOK'
  BY KnowledgeStays DEF IInv, EchoProbe
<1>2. /\ PacketsOK /\ KnowledgeOK /\ p.type = "PROBE"
      /\ Travelling(s) /\ Roles(p, app_paths)
      /\ scheduled' = (scheduled \ {s}) \cup {t}
      /\ UNCHANGED <<on_the_flight_packets, app_paths>>
  BY DEF IInv, PacketsOK, PacketsInPlace, EchoProbe
<1>3. p \in Packet /\ s.at = p.dst /\ s.at \in Hosts /\ (p.path # NoPath => Arrived(s))
  BY <1>2, AtItsHost DEF Scheduled
<1>4. /\ p.src \in Apps /\ p.dst = AppDestination[p.src]
      /\ p.path \in Elements(app_paths[p.src]) /\ p.path_reversed = FALSE
  BY <1>2 DEF Roles
<1>5. p.path # NoPath /\ p.src \in Hosts /\ p.path \in Segments
  BY <1>2, <1>4, PathOfApp
<1>6. Ends(p) /\ p.cur_hopf = LastHop(p)
  BY <1>3, <1>5 DEF Arrived
<1>7. /\ q \in Packet /\ q.id = p.id /\ q.type = "PROBE_ECHO" /\ q.src = s.at /\ q.dst = p.src
      /\ q.path = p.path /\ q.path_reversed = TRUE /\ q.cur_hopf = p.cur_hopf
  BY <1>3, <1>4, <1>5, HostsAreNodes DEF Returned, EchoType, Packet, TrafficTypes
<1> HIDE DEF q
<1>8. Ends(q) /\ q.cur_hopf = FirstHop(q)
  BY <1>3, <1>4, <1>6, <1>7 DEF Ends, FirstHop, LastHop
<1>9. Ready(q, s.at)
  BY <1>3, <1>5, <1>7, <1>8, HostsAreNodes DEF Ready
<1>10. Roles(q, app_paths)
  BY <1>3, <1>4, <1>7 DEF Roles
<1>11. Travelling(t) /\ t.packet = q
  BY <1>7, <1>9, SentTravels
<1> HIDE DEF t
<1>12. PacketsOK'
  BY <1>2, <1>7, <1>10, <1>11, OnwardKeeps
<1> QED
  BY <1>1, <1>12 DEF IInv

\* A reply ends.
LEMMA ReceiveReplyKeeps ==
  ASSUME IInv, NEW s \in scheduled, ReceiveReply(s)
  PROVE  IInv'
<1>1. KnowledgeOK'
  BY KnowledgeStays DEF IInv, ReceiveReply
<1>2. PacketsOK'
  BY TakeKeeps DEF IInv, ReceiveReply
<1> QED
  BY <1>1, <1>2 DEF IInv

\* A host reports to the application of a connection.
LEMMA ReportKeeps ==
  ASSUME PacketsOK, KnowledgeOK, NEW done \in SUBSET scheduled, NEW h \in Hosts,
         NEW c, c.src \in Apps, AppDestination[c.src] = h, c.path \in Elements(app_paths[c.src]),
         ExchangeAndReport(done, {s.packet.id : s \in done}, h, c), UNCHANGED app_paths
  PROVE  PacketsOK'
<1> DEFINE p == AppResp(h, c)
<1>1. /\ c.path \in Segments /\ c.path # NoPath /\ Len(c.path.hops) \in Nat
      /\ c.path.hops[1].as = c.src.as /\ c.path.hops[Len(c.path.hops)].as = h.as
      /\ c.src \in Hosts
  BY PathOfApp
<1>2. /\ p \in Draft /\ p.type = "APP_RESP" /\ p.src = h /\ p.dst = c.src /\ p.path = c.path
      /\ p.path_reversed = TRUE /\ p.cur_hopf = Len(c.path.hops)
  <2>1. c.src.as \in ASes /\ h \in Nodes /\ c.src \in Nodes
    BY <1>1, HostsAreNodes
  <2> QED
    BY <1>1, <2>1 DEF AppResp, NewPacket, Draft, TrafficTypes
<1> HIDE DEF p
<1>3. Ends(p) /\ p.cur_hopf = FirstHop(p)
  BY <1>1, <1>2 DEF Ends, FirstHop, LastHop
<1>4. Ready(p, h) /\ Roles(p, app_paths)
  BY <1>1, <1>2, <1>3, HostsAreNodes DEF Ready, Roles
<1>5. PICK reports \in SUBSET {p} : Exchange(done, {s.packet.id : s \in done}, reports, h)
  BY DEF ExchangeAndReport, p
<1>6. reports \in SUBSET Draft /\ \A r \in reports : Ready(r, h) /\ Roles(r, app_paths)
  BY <1>2, <1>4
<1> QED
  BY <1>5, <1>6, ExchangeKeeps

\* Data opens a connection of its application.
LEMMA ReceiveAppDataKeeps ==
  ASSUME IInv, NEW s \in scheduled, s.at.kind = "host", ReceiveAppData(s)
  PROVE  IInv'
<1> DEFINE p == s.packet
           c == [src |-> p.src, path |-> p.path]
<1>1. /\ PacketsOK /\ KnowledgeOK /\ p.type = "APP_DATA"
      /\ Travelling(s) /\ Roles(p, app_paths)
      /\ connection_infos' = [connection_infos EXCEPT ![s.at] = @ \cup {c}]
      /\ ExchangeAndReport({s}, {p.id}, s.at, c)
      /\ UNCHANGED <<registered_core_segments, unexpired, cached_core_path_segments, app_paths>>
  BY DEF IInv, PacketsOK, PacketsInPlace, ReceiveAppData
<1>2. s.at = p.dst /\ s.at \in Hosts
  BY <1>1, AtItsHost
<1>3. /\ c.src \in Apps /\ AppDestination[c.src] = s.at /\ c.path \in Elements(app_paths[c.src])
      /\ c.src \in Hosts /\ c.path \in Segments
  <2>1. /\ p.src \in Apps /\ p.dst = AppDestination[p.src]
        /\ p.path \in Elements(app_paths[p.src])
    BY <1>1 DEF Roles
  <2> QED
    BY <1>1, <1>2, <2>1, PathOfApp
<1>4. c \in Connection
  BY <1>3 DEF Connection
<1> HIDE DEF c
<1>5. {t.packet.id : t \in {s}} = {p.id}
  OBVIOUS
<1>6. PacketsOK'
  BY <1>1, <1>2, <1>3, <1>5, ReportKeeps
<1>7. /\ connection_infos' \in [Hosts -> SUBSET Connection]
      /\ \A h \in Hosts : \A d \in connection_infos'[h] :
           d \in connection_infos[h] \/ (h = s.at /\ d = c)
  BY <1>1, <1>2, <1>4 DEF KnowledgeOK
<1>8. ConnectionsOfApps'
  BY <1>1, <1>3, <1>7 DEF KnowledgeOK, ConnectionsOfApps
<1>9. KnowledgeOK'
  BY <1>1, <1>7, <1>8 DEF KnowledgeOK, CachesLeadThere, AppPathsLeadThere
<1> QED
  BY <1>6, <1>9 DEF IInv

\* A connection is reported or closed.
LEMMA CheckConnectionTimeoutKeeps ==
  ASSUME IInv, NEW h \in Hosts, NEW c \in connection_infos[h], CheckConnectionTimeout(h, c)
  PROVE  IInv'
<1>1. /\ PacketsOK /\ KnowledgeOK /\ ExchangeAndReport({}, {}, h, c)
      /\ UNCHANGED <<registered_core_segments, unexpired, cached_core_path_segments, app_paths>>
      /\ connection_infos' \in {connection_infos, [connection_infos EXCEPT ![h] = @ \ {c}]}
  BY DEF IInv, CheckConnectionTimeout
<1>2. c.src \in Apps /\ AppDestination[c.src] = h /\ c.path \in Elements(app_paths[c.src])
  BY <1>1 DEF KnowledgeOK, ConnectionsOfApps
<1>3. {t.packet.id : t \in {}} = {} /\ {} \in SUBSET scheduled
  OBVIOUS
<1>4. PacketsOK'
  BY <1>1, <1>2, <1>3, ReportKeeps
<1>5. /\ connection_infos' \in [Hosts -> SUBSET Connection]
      /\ \A g \in Hosts : connection_infos'[g] \subseteq connection_infos[g]
  BY <1>1 DEF KnowledgeOK
<1>6. ConnectionsOfApps'
  BY <1>1, <1>5 DEF KnowledgeOK, ConnectionsOfApps
<1>7. KnowledgeOK'
  BY <1>1, <1>5, <1>6 DEF KnowledgeOK, CachesLeadThere, AppPathsLeadThere
<1> QED
  BY <1>4, <1>7 DEF IInv

-----------------------------------------------------------------------------
(* How far a packet has still to go *)

HopsToGo(p) ==
  IF p.path_reversed THEN p.cur_hopf - 1 ELSE Len(p.path.hops) - p.cur_hopf

\* The nodes that a packet has still to come to: for every hop the border router
\* by which it leaves the AS and the one by which it comes into the next, and its
\* destination.  A probe has the whole way back before it as well.
NodesAhead(s) ==
  (IF s.at = s.packet.dst THEN 0
     ELSE 2 * HopsToGo(s.packet) + (IF s.received_from_local_as THEN 0 ELSE 1))
  + (IF s.packet.type = "PROBE" THEN 2 * Len(s.packet.path.hops) - 1 ELSE 0)

\* Whoever takes a packet and does not end it brings it one node on.
ComesCloser ==
  \A s \in scheduled : \A t \in scheduled' :
    t.packet.id = s.packet.id => t = s \/ NodesAhead(t) = NodesAhead(s) - 1

\* New packets have numbers that no packet under way has.
LEMMA ExchangeNumbersAnew ==
  ASSUME ExistsWhileUnderWay,
         NEW done, NEW destroyed, NEW packets, NEW node,
         \A p \in packets : \A id : [p EXCEPT !.id = id].id = id,
         Exchange(done, destroyed, packets, node)
  PROVE  ComesCloser
<1>1. PICK f \in [packets -> FreeIds] : Created(packets) = Numbered(packets, f)
  BY CreatedPackets, Zenon DEF Exchange
<1>2. /\ \A s \in scheduled : s.packet.id \in on_the_flight_packets
      /\ \A s, t \in scheduled : t.packet.id = s.packet.id => t = s
  BY DEF ExistsWhileUnderWay
<1>3. ASSUME NEW t \in scheduled', t \notin scheduled
      PROVE  t.packet.id \notin on_the_flight_packets
  <2>1. PICK q \in Created(packets) : t = SendScionPacket(q, node)
    BY <1>3 DEF Exchange
  <2>2. PICK p \in packets : q = [p EXCEPT !.id = f[p]]
    BY <1>1, <2>1 DEF Numbered
  <2>3. t.packet = q
    BY <2>1 DEF SendScionPacket, OnTheWay
  <2>4. q.id = f[p] /\ f[p] \notin on_the_flight_packets
    BY <1>1, <2>2 DEF FreeIds
  <2> QED
    BY <2>3, <2>4
<1> QED
  BY <1>2, <1>3 DEF ComesCloser

\* A packet is put in the place of another with its number.
LEMMA OnwardComesCloser ==
  ASSUME ExistsWhileUnderWay, NEW s \in scheduled, NEW t,
         t.packet.id = s.packet.id, NodesAhead(t) = NodesAhead(s) - 1,
         scheduled' = (scheduled \ {s}) \cup {t}
  PROVE  ComesCloser
<1>1. \A u, v \in scheduled : v.packet.id = u.packet.id => v = u
  BY DEF ExistsWhileUnderWay
<1> QED
  BY <1>1 DEF ComesCloser

\* Nothing new is under way.
LEMMA FewerComeCloser ==
  ASSUME ExistsWhileUnderWay, scheduled' \subseteq scheduled
  PROVE  ComesCloser
BY DEF ExistsWhileUnderWay, ComesCloser

\* A border router brings a packet to the next node of its path.
LEMMA ForwardedComesCloser ==
  ASSUME NEW s, Travelling(s), s.at.kind = "br"
  PROVE  NodesAhead(OnTheWay(Forwarded(s), s.at, NextNode(s))) = NodesAhead(s) - 1
<1> DEFINE p == s.packet
           q == Forwarded(s)
           t == OnTheWay(q, s.at, NextNode(s))
<1>1. /\ s.at \in Nodes /\ p \in Packet /\ p.path_reversed \in BOOLEAN
      /\ p.dst.kind # "br" /\ s.received_from_local_as \in BOOLEAN
  BY DEF Travelling, Scheduled, Packet
<1>2. OnItsPath(s)
  BY DEF Travelling, InsideAS, Arrived
<1>3. /\ Ends(p) /\ s.at.as = Hop(p).as /\ p.path \in Segments
      /\ p.cur_hopf \in 1..Len(p.path.hops) /\ Len(p.path.hops) \in Nat
  BY <1>2, HopsOf DEF OnItsPath, Ends
<1>4. p.dst.as = s.at.as <=> p.cur_hopf = LastHop(p)
  <2>1. LastHop(p) \in 1..Len(p.path.hops) /\ p.dst.as = p.path.hops[LastHop(p)].as
    BY <1>1, <1>3, EndsDiffer DEF Ends
  <2> QED
    BY <1>3, <2>1, HopsOf DEF Hop
<1>5. /\ t.at = NextNode(s) /\ t.packet = q
      /\ t.received_from_local_as <=> s.at.as = NextNode(s).as
  BY DEF OnTheWay
<1>6. s.at = BR(s.at.as, s.at.no)
  BY <1>1, NodesByKind
<1>7. HopsToGo(p) \in Nat /\ (HopsToGo(p) = 0 <=> p.cur_hopf = LastHop(p))
  BY <1>1, <1>3 DEF HopsToGo, LastHop
<1> DEFINE back == IF p.type = "PROBE" THEN 2 * Len(p.path.hops) - 1 ELSE 0
<1>8. back \in Int
  BY <1>3
<1>9. NodesAhead(s) = 2 * HopsToGo(p) + (IF s.received_from_local_as THEN 0 ELSE 1) + back
  <2>1. s.at # p.dst
    BY <1>1
  <2> QED
    BY <2>1 DEF NodesAhead
<1> HIDE DEF t
<1>10. CASE p.dst.as = s.at.as
  <2>1. q = p /\ NextNode(s) = p.dst
    BY <1>10 DEF Forwarded, NextNode
  <2>2. NodesAhead(t) = back
    BY <1>5, <1>8, <2>1 DEF NodesAhead
  <2>3. HopsToGo(p) = 0 /\ ~s.received_from_local_as
    BY <1>2, <1>4, <1>7, <1>10 DEF OnItsPath
  <2> HIDE DEF back
  <2> QED
    BY <1>8, <1>9, <2>2, <2>3 DEF t
<1>11. CASE p.dst.as # s.at.as
  <2>1. p.cur_hopf # LastHop(p)
    BY <1>4, <1>11
  <2>2. /\ InterfaceToSend(p) \in Interfaces
        /\ p.path.hops[HopAfter(p)].as # Hop(p).as
        /\ Link[BR(Hop(p).as, InterfaceToSend(p))]
             = BR(p.path.hops[HopAfter(p)].as, EntryAt(p, HopAfter(p)))
    BY <1>1, <1>3, <2>1, NextHop
  <2>3. CASE s.received_from_local_as
    <3>1. s.at.no = InterfaceToSend(p)
      BY <1>2, <2>3 DEF OnItsPath
    <3>2. NextNode(s) = BR(p.path.hops[HopAfter(p)].as, EntryAt(p, HopAfter(p)))
      BY <1>3, <1>6, <1>11, <2>2, <3>1 DEF NextNode
    <3>3. t.at.kind = "br" /\ ~t.received_from_local_as
      <4>1. NextNode(s).kind = "br" /\ NextNode(s).as = p.path.hops[HopAfter(p)].as
        BY <3>2 DEF BR
      <4> QED
        BY <1>3, <1>5, <2>2, <4>1
    <3>4. q = [p EXCEPT !.cur_hopf = HopAfter(p)]
      BY <1>11, <2>3 DEF Forwarded, HopMoved, HopAfter
    <3>5. /\ q.cur_hopf = HopAfter(p) /\ q.path = p.path /\ q.dst = p.dst
          /\ q.path_reversed = p.path_reversed /\ q.type = p.type
      BY <1>1, <3>4 DEF Packet
    <3>6. HopsToGo(q) = HopsToGo(p) - 1
      BY <1>1, <1>3, <3>5 DEF HopsToGo, HopAfter
    <3>7. NodesAhead(t) = 2 * HopsToGo(q) + 1 + back
      <4>1. t.at # q.dst
        BY <1>1, <3>3, <3>5
      <4> QED
        BY <1>5, <3>3, <3>5, <4>1 DEF NodesAhead
    <3> HIDE DEF back
    <3> QED
      BY <1>7, <1>8, <1>9, <2>3, <3>6, <3>7 DEF t
  <2>4. CASE ~s.received_from_local_as
    <3>1. s.at.no = InterfaceOfEntry(p) /\ p.cur_hopf # FirstHop(p)
      BY <1>2, <2>4 DEF OnItsPath
    <3>2. NextNode(s) = BR(s.at.as, InterfaceToSend(p))
      BY <1>1, <1>3, <1>11, <2>1, <3>1, LeavesElsewhere DEF NextNode
    <3>3. t.at.kind = "br" /\ t.received_from_local_as
      <4>1. NextNode(s).kind = "br" /\ NextNode(s).as = s.at.as
        BY <3>2 DEF BR
      <4> QED
        BY <1>5, <4>1
    <3>4. q = p
      BY <1>1, <2>4 DEF Forwarded, HopMoved, Packet
    <3>5. NodesAhead(t) = 2 * HopsToGo(p) + back
      <4>1. t.at # p.dst
        BY <1>1, <3>3
      <4> QED
        BY <1>5, <1>7, <1>8, <3>3, <3>4, <4>1 DEF NodesAhead
    <3> HIDE DEF back
    <3> QED
      BY <1>7, <1>8, <1>9, <2>4, <3>5 DEF t
  <2> QED
    BY <2>3, <2>4
<1> QED
  BY <1>10, <1>11

\* A probe turns round with the way back before it.
LEMMA EchoComesCloser ==
  ASSUME IInv, NEW s \in scheduled, s.at.kind = "host", EchoProbe(s)
  PROVE  ComesCloser
<1> DEFINE p == s.packet
           q == [Returned(p, s.at) EXCEPT !.type = EchoType]
           t == SendScionPacket(q, s.at)
<1>1. /\ KnowledgeOK /\ ExistsWhileUnderWay /\ p.type = "PROBE"
      /\ Travelling(s) /\ Roles(p, app_paths)
      /\ scheduled' = (scheduled \ {s}) \cup {t}
  BY DEF IInv, PacketsOK, PacketsInPlace, EchoProbe
<1>2. p \in Packet /\ s.at = p.dst /\ (p.path # NoPath => Arrived(s))
  BY <1>1, AtItsHost DEF Scheduled
<1>3. /\ p.src \in Apps /\ p.path \in Elements(app_paths[p.src]) /\ p.path_reversed = FALSE
  BY <1>1 DEF Roles
<1>4. p.path # NoPath /\ p.path \in Segments /\ Len(p.path.hops) \in Nat
  BY <1>1, <1>3, PathOfApp
<1>5. Ends(p) /\ p.cur_hopf = Len(p.path.hops)
  BY <1>2, <1>3, <1>4 DEF Arrived, LastHop
<1>6. p.src.as # p.dst.as
  <2>1. p.path_reversed \in BOOLEAN
    BY <1>3
  <2> QED
    BY <1>5, <2>1, EndsDiffer
<1>7. /\ q.id = p.id /\ q.type = "PROBE_ECHO" /\ q.dst = p.src
      /\ q.path = p.path /\ q.path_reversed = TRUE /\ q.cur_hopf = p.cur_hopf
  BY <1>2, <1>3 DEF Returned, EchoType, Packet
<1> HIDE DEF q
<1>8. t = [at |-> BR(s.at.as, InterfaceToSend(q)), received_from_local_as |-> TRUE, packet |-> q]
  BY <1>2, <1>6, <1>7 DEF SendScionPacket, OnTheWay, BR
<1>9. t.at # q.dst
  <2>1. p.src \in Hosts
    BY <1>1, <1>3, PathOfApp
  <2> QED
    BY <1>7, <1>8, <2>1, ForwardingAssumption DEF BR
<1>10. NodesAhead(t) = 2 * (Len(p.path.hops) - 1)
  <2>1. t.packet = q /\ t.received_from_local_as
    BY <1>8
  <2>2. HopsToGo(q) = Len(p.path.hops) - 1
    BY <1>5, <1>7 DEF HopsToGo
  <2> HIDE DEF t
  <2>3. NodesAhead(t) = 2 * HopsToGo(q) + 0 + 0
    BY <1>7, <1>9, <2>1 DEF NodesAhead
  <2> QED
    BY <1>4, <2>2, <2>3
<1>11. NodesAhead(s) = 2 * Len(p.path.hops) - 1
  BY <1>1, <1>2, <1>4 DEF NodesAhead
<1>12. t.packet.id = s.packet.id
  BY <1>7, <1>8
<1> HIDE DEF t
<1>13. NodesAhead(t) = NodesAhead(s) - 1
  BY <1>4, <1>10, <1>11
<1> QED
  BY <1>1, <1>12, <1>13, OnwardComesCloser

\* New packets and reports can be numbered.
LEMMA CanBeNumbered ==
  /\ \A type, about, src, dst, path, id :
       [NewPacket(type, about, src, dst, path) EXCEPT !.id = id].id = id
  /\ \A h, c, id : [AppResp(h, c) EXCEPT !.id = id].id = id
BY DEF NewPacket, AppResp

\* A node takes packets and sends others, which are new.
Exchanging ==
  \E done, destroyed, packets, node :
    /\ Exchange(done, destroyed, packets, node)
    /\ \A p \in packets : \A id : [p EXCEPT !.id = id].id = id

LEMMA ReportsAreNew ==
  ASSUME NEW done, NEW destroyed, NEW h, NEW c, ExchangeAndReport(done, destroyed, h, c)
  PROVE  Exchanging
<1>1. PICK reports \in SUBSET {AppResp(h, c)} : Exchange(done, destroyed, reports, h)
  BY DEF ExchangeAndReport
<1>2. \A p \in reports : \A id : [p EXCEPT !.id = id].id = id
  BY CanBeNumbered
<1> QED
  BY <1>1, <1>2 DEF Exchanging

\* Every step brings the packets that it moves closer.
LEMMA NextComesCloser == IInv /\ [Next]_vars => ComesCloser
<1> SUFFICES ASSUME IInv, [Next]_vars PROVE ComesCloser
  OBVIOUS
<1>1. ExistsWhileUnderWay
  BY DEF IInv, PacketsOK
<1>2. ASSUME Exchanging PROVE ComesCloser
  BY <1>1, <1>2, ExchangeNumbersAnew DEF Exchanging
<1>3. ASSUME NEW s \in scheduled, ProcessReceivedPacket(s) PROVE ComesCloser
  <2>1. CASE s.at.kind = "br" /\ ForwardPacket(s)
    <3> DEFINE t == OnTheWay(Forwarded(s), s.at, NextNode(s))
    <3>1. Travelling(s)
      BY DEF IInv, PacketsOK, PacketsInPlace
    <3>2. NodesAhead(t) = NodesAhead(s) - 1
      BY <2>1, <3>1, ForwardedComesCloser
    <3>3. t.packet = Forwarded(s) /\ Forwarded(s) \in {[s.packet EXCEPT !.cur_hopf = c] : c \in Nat}
      BY <2>1, <3>1, ForwardedTravels
    <3>4. t.packet.id = s.packet.id
      <4>1. s.packet \in Packet
        BY <3>1 DEF Travelling, Scheduled
      <4> QED
        BY <3>3, <4>1 DEF Packet
    <3>5. scheduled' = (scheduled \ {s}) \cup {t}
      BY <2>1 DEF ForwardPacket
    <3> HIDE DEF t
    <3> QED
      BY <1>1, <3>2, <3>4, <3>5, OnwardComesCloser
  <2>2. CASE DropPacket(s)
    BY <1>1, <2>2, FewerComeCloser DEF DropPacket
  <2>3. CASE AnswerRequest(s)
    <3> DEFINE answers == {NewPacket("REG_PATHS", as, s.at, s.packet.src, NoPath) :
                             as \in AnsweredAbout(s.packet)}
    <3>1. Exchange({s}, DestroyedByServer(s.packet), answers, s.at)
      BY <2>3 DEF AnswerRequest
    <3>2. \A p \in answers : \A id : [p EXCEPT !.id = id].id = id
      BY CanBeNumbered
    <3> HIDE DEF answers
    <3> QED
      BY <1>2, <3>1, <3>2 DEF Exchanging
  <2>4. CASE ReceiveAnswer(s) \/ ReceiveReply(s)
    <3>1. Exchange({s}, {s.packet.id}, {}, s.at)
      BY <2>4 DEF ReceiveAnswer, ReceiveReply
    <3> QED
      BY <1>2, <3>1 DEF Exchanging
  <2>5. CASE s.at.kind = "host" /\ EchoProbe(s)
    BY <2>5, EchoComesCloser
  <2>6. CASE ReceiveAppData(s)
    BY <1>2, <2>6, ReportsAreNew DEF ReceiveAppData
  <2> QED
    BY <1>3, <2>1, <2>2, <2>3, <2>4, <2>5, <2>6 DEF ProcessReceivedPacket, BorderRouterStep
<1>4. ASSUME NEW h \in Apps, RequestForPathSegments(h) PROVE ComesCloser
  <2> DEFINE dst_ia == AppDestination[h].as
             requests == {NewPacket(type, dst_ia, h, PathServer(h.as), NoPath) :
                            type \in RequestTypes}
  <2>1. Exchange({}, {}, requests, h)
    BY <1>4 DEF RequestForPathSegments
  <2>2. \A p \in requests : \A id : [p EXCEPT !.id = id].id = id
    BY CanBeNumbered
  <2> HIDE DEF requests
  <2> QED
    BY <1>2, <2>1, <2>2 DEF Exchanging
<1>5. ASSUME NEW h \in Apps, NEW type \in {"PROBE", "APP_DATA"},
             NEW path \in Elements(app_paths[h]), SendAppPacket(h, type, path)
      PROVE  ComesCloser
  <2> DEFINE p == NewPacket(type, AppDestination[h].as, h, AppDestination[h], path)
  <2>1. Exchange({}, {}, {p}, h)
    BY <1>5 DEF SendAppPacket
  <2>2. \A q \in {p} : \A id : [q EXCEPT !.id = id].id = id
    BY CanBeNumbered
  <2> HIDE DEF p
  <2> QED
    BY <1>2, <2>1, <2>2 DEF Exchanging
<1>6. ASSUME NEW h \in Hosts, NEW c \in connection_infos[h], CheckConnectionTimeout(h, c)
      PROVE  ComesCloser
  BY <1>2, <1>6, ReportsAreNew DEF CheckConnectionTimeout
<1>7. CASE \/ \E seg \in Segments : Register(seg)
           \/ \E seg \in unexpired : Expire(seg)
           \/ \E h \in Apps : StartApplication(h)
           \/ UNCHANGED vars
  <2>1. UNCHANGED scheduled
    BY <1>7 DEF Register, Expire, StartApplication, vars
  <2> QED
    BY <1>1, <2>1, FewerComeCloser
<1> QED
  BY <1>3, <1>4, <1>5, <1>6, <1>7 DEF Next

\* The way that is left is a number, and at most there and back.
LEMMA WayIsBounded ==
  ASSUME IInv, NEW s \in scheduled
  PROVE  /\ NodesAhead(s) \in Nat
         /\ s.packet.path = NoPath => NodesAhead(s) = 0
         /\ s.packet.path # NoPath => NodesAhead(s) < 4 * Len(s.packet.path.hops)
<1> DEFINE p == s.packet
<1>1. Travelling(s) /\ Roles(p, app_paths) /\ KnowledgeOK
  BY DEF IInv, PacketsOK, PacketsInPlace
<1>2. p \in Packet /\ s.received_from_local_as \in BOOLEAN /\ p.path_reversed \in BOOLEAN
  BY <1>1 DEF Travelling, Scheduled, Packet
<1>3. CASE p.path = NoPath
  <2>1. s.at = p.dst
    BY <1>1, <1>3, ForwardingAssumption DEF Travelling, InsideAS, Arrived, OnItsPath, Ends
  <2>2. p.type # "PROBE"
    BY <1>1, <1>3, PathOfApp DEF Roles
  <2> QED
    BY <1>3, <2>1, <2>2 DEF NodesAhead
<1>4. CASE p.path # NoPath
  <2>1. Ends(p) /\ (s.at = p.dst \/ OnItsPath(s))
    BY <1>1, <1>4 DEF Travelling, InsideAS, Arrived, OnItsPath
  <2>2. Len(p.path.hops) \in Nat /\ Len(p.path.hops) >= 2
    BY <2>1, HopsOf DEF Ends
  <2> DEFINE n == Len(p.path.hops)
             ahead == IF s.at = p.dst THEN 0
                        ELSE 2 * HopsToGo(p) + (IF s.received_from_local_as THEN 0 ELSE 1)
             back == IF p.type = "PROBE" THEN 2 * n - 1 ELSE 0
  <2>3. ahead \in 0 .. 2 * n - 1
    <3>1. CASE s.at = p.dst
      BY <2>2, <3>1
    <3>2. CASE s.at # p.dst
      <4>1. OnItsPath(s) /\ p.cur_hopf \in 1 .. n
        BY <2>1, <3>2, HopsOf DEF OnItsPath, Ends
      <4>2. HopsToGo(p) \in 0 .. n - 1
        BY <1>2, <2>2, <4>1 DEF HopsToGo
      <4> QED
        BY <1>2, <2>2, <3>2, <4>2
    <3> QED
      BY <3>1, <3>2
  <2>4. back \in 0 .. 2 * n - 1
    BY <2>2
  <2>5. NodesAhead(s) = ahead + back
    BY DEF NodesAhead
  <2> HIDE DEF ahead, back
  <2> QED
    BY <1>4, <2>2, <2>3, <2>4, <2>5
<1> QED
  BY <1>3, <1>4

-----------------------------------------------------------------------------
(* The theorems *)

\* The invariant holds at first.
LEMMA InitEstablishes == Init => IInv
<1> SUFFICES ASSUME Init PROVE IInv
  OBVIOUS
<1>1. PacketsOK
  BY DEF Init, PacketsOK, ForwardingTypeOK, PacketsInPlace, ExistsWhileUnderWay
<1>2. Empty \in List /\ Elements(Empty) = {}
  BY DEF Empty, List, Elements
<1>3. /\ cached_core_path_segments \in [Hosts -> [ASes -> List]]
      /\ app_paths \in [Apps -> List]
      /\ connection_infos \in [Hosts -> SUBSET Connection]
      /\ registered_core_segments = {} /\ unexpired = {}
  BY <1>2 DEF Init
<1>4. CachesLeadThere /\ AppPathsLeadThere /\ ConnectionsOfApps
  BY <1>2 DEF Init, CachesLeadThere, AppPathsLeadThere, ConnectionsOfApps
<1> QED
  BY <1>1, <1>3, <1>4 DEF IInv, KnowledgeOK

\* Every step keeps the invariant.
LEMMA NextKeeps == IInv /\ [Next]_vars => IInv'
<1> SUFFICES ASSUME IInv, [Next]_vars PROVE IInv'
  OBVIOUS
<1>1. ASSUME NEW s \in scheduled, ProcessReceivedPacket(s) PROVE IInv'
  <2>1. CASE BorderRouterStep(s)
    BY <2>1, BorderRouterStepKeeps
  <2>2. CASE s.at.kind = "ps" /\ AnswerRequest(s)
    BY <2>2, AnswerRequestKeeps
  <2>3. CASE s.at.kind = "host" /\ ReceiveAnswer(s)
    BY <2>3, ReceiveAnswerKeeps
  <2>4. CASE s.at.kind = "host" /\ EchoProbe(s)
    BY <2>4, EchoProbeKeeps
  <2>5. CASE ReceiveReply(s)
    BY <2>5, ReceiveReplyKeeps
  <2>6. CASE s.at.kind = "host" /\ ReceiveAppData(s)
    BY <2>6, ReceiveAppDataKeeps
  <2> QED
    BY <1>1, <2>1, <2>2, <2>3, <2>4, <2>5, <2>6 DEF ProcessReceivedPacket
<1>2. ASSUME NEW seg \in Segments, Register(seg) PROVE IInv'
  BY <1>2, RegisterKeeps
<1>3. ASSUME NEW seg \in unexpired, Expire(seg) PROVE IInv'
  BY <1>3, ExpireKeeps
<1>4. ASSUME NEW h \in Apps, StartApplication(h) PROVE IInv'
  BY <1>4, StartApplicationKeeps
<1>5. ASSUME NEW h \in Apps, RequestForPathSegments(h) PROVE IInv'
  BY <1>5, RequestForPathSegmentsKeeps
<1>6. ASSUME NEW h \in Apps, NEW type \in {"PROBE", "APP_DATA"},
             NEW path \in Elements(app_paths[h]), SendAppPacket(h, type, path)
      PROVE  IInv'
  BY <1>6, SendAppPacketKeeps
<1>7. ASSUME NEW h \in Hosts, NEW c \in connection_infos[h], CheckConnectionTimeout(h, c)
      PROVE  IInv'
  BY <1>7, CheckConnectionTimeoutKeeps
<1>8. CASE UNCHANGED vars
  <2>1. KnowledgeOK'
    BY <1>8, KnowledgeStays DEF IInv, vars
  <2>2. PacketsOK'
    BY <1>8 DEF IInv, PacketsOK, ForwardingTypeOK, PacketsInPlace, ExistsWhileUnderWay, vars
  <2> QED
    BY <2>1, <2>2 DEF IInv
<1> QED
  BY <1>1, <1>2, <1>3, <1>4, <1>5, <1>6, <1>7, <1>8 DEF Next

\* The inductive invariant holds in every behaviour: packets are where their
\* pointers say, and hosts know what is true.
THEOREM Invariant == Spec => []IInv
BY InitEstablishes, NextKeeps, PTL DEF Spec

\* Packets and their pointers, the caches, the paths of the applications and
\* the connections keep their types.
THEOREM TypeCorrect == Spec => []TypeOK
<1>1. IInv => TypeOK
  BY DEF IInv, PacketsOK, KnowledgeOK, TypeOK
<1> QED
  BY <1>1, Invariant, PTL

\* The assertions of border routers, path servers and hosts hold, in every
\* topology and for every segment that is a walk along its links: the hop
\* pointer never leaves the path, in neither direction.
THEOREM AssertionsAlwaysHold == Spec => []AssertionsHold
<1>1. IInv => AssertionsHold
  BY TravellingMeetsAssertions DEF IInv, PacketsOK, PacketsInPlace
<1> QED
  BY <1>1, Invariant, PTL

\* The packets in the memory of their creators are those under way: whoever
\* handles a packet last destroys it, and only then.
THEOREM PacketsExistWhileUnderWay == Spec => []ExistsWhileUnderWay
<1>1. IInv => ExistsWhileUnderWay
  BY DEF IInv, PacketsOK
<1> QED
  BY <1>1, Invariant, PTL

\* However requests and answers overlap and segments expire, an application has
\* each of its paths once, and they lead from its host to its destination.
THEOREM AppPathsAlwaysLeadThere == Spec => []AppPathsLeadThere
<1>1. IInv => AppPathsLeadThere
  BY DEF IInv, KnowledgeOK
<1> QED
  BY <1>1, Invariant, PTL

\* Echoes and reports come to the host of the application that they are for,
\* from its destination and about a path of its own.
THEOREM RepliesAlwaysReachTheirApp == Spec => []RepliesReachTheirApp
<1>1. IInv => RepliesReachTheirApp
  BY DEF IInv, PacketsOK, PacketsInPlace, Roles, RepliesReachTheirApp
<1> QED
  BY <1>1, Invariant, PTL

\* No packet goes round: every node that takes a packet and does not end it brings
\* it exactly one node closer to its end, over the border routers of its path
\* and, for a probe, back over them.
THEOREM PacketsComeCloser == Spec => [][ComesCloser]_vars
BY Invariant, NextComesCloser, PTL DEF Spec

\* A packet passes fewer nodes than four times the hops of its path, whatever
\* else is under way.
THEOREM WaysAreBounded ==
  Spec => [](\A s \in scheduled :
               /\ NodesAhead(s) \in Nat
               /\ s.packet.path = NoPath => NodesAhead(s) = 0
               /\ s.packet.path # NoPath => NodesAhead(s) < 4 * Len(s.packet.path.hops))
<1>1. IInv => \A s \in scheduled :
                /\ NodesAhead(s) \in Nat
                /\ s.packet.path = NoPath => NodesAhead(s) = 0
                /\ s.packet.path # NoPath => NodesAhead(s) < 4 * Len(s.packet.path.hops)
  BY WayIsBounded
<1> QED
  BY <1>1, Invariant, PTL

=============================================================================
