------------------------------ MODULE Network -------------------------------
(***************************************************************************)
(* The network end to end: path servers at which segments are registered   *)
(* (path-server.cc), hosts that ask for them until they have a path to the *)
(* destination of their application, and then send (scion-host.cc), and    *)
(* the border routers between them (Forwarding).                           *)
(*                                                                         *)
(* Packets are taken in any order, those of one link as well: delays are   *)
(* not modelled.  What goes on within an application is in PolarisSender,  *)
(* within a connection in AppReports and within a queue in                 *)
(* EgressInterface; here an application sends what it likes on its paths.  *)
(***************************************************************************)
EXTENDS Forwarding

CONSTANTS
  ISD,              \* the isolation domain of each AS
  Apps,             \* the hosts that have an application
  AppDestination,   \* the host to which an application sends
  ConfiguredPaths,  \* paths that a configuration may give an application
  MaxLookups,       \* bound of the lookup packets under way when more are sent
  MaxTraffic        \* bound of the packets of applications under way

\* Where a segment starts and the AS that originated it.
Start(seg) == seg.hops[1].as
Originator(seg) == seg.hops[Len(seg.hops)].as

ASSUME NetworkAssumption ==
  /\ ISD \in [ASes -> Nat]
  /\ Apps \subseteq Hosts
  /\ AppDestination \in [Apps -> Hosts]
  /\ \A h \in Apps : AppDestination[h].as # h.as
  /\ ConfiguredPaths \subseteq Segments
  /\ MaxLookups \in Nat /\ MaxTraffic \in Nat

VARIABLES
  registered_core_segments,  \* those the path servers know
  unexpired,                 \* those of them that have not expired
  cached_core_path_segments, \* of each host, for each destination
  app_paths,                 \* of a host's application, none until it has started
  connection_infos           \* of each host: from where and by which path data came

vars == <<on_the_flight_packets, scheduled, registered_core_segments, unexpired,
          cached_core_path_segments, app_paths, connection_infos>>

Connection == [src : Hosts, path : Segments]

\* A list of segments, of which only matters how often each stands in it.
List == [Segments -> Nat]
Empty == [seg \in Segments |-> 0]
Elements(list) == {seg \in Segments : list[seg] > 0}
With(list, segs) == [seg \in Segments |-> list[seg] + (IF seg \in segs THEN 1 ELSE 0)]

TypeOK ==
  /\ ForwardingTypeOK
  /\ registered_core_segments \subseteq Segments /\ unexpired \subseteq registered_core_segments
  /\ cached_core_path_segments \in [Hosts -> [ASes -> List]]
  /\ app_paths \in [Apps -> List]
  /\ connection_infos \in [Hosts -> SUBSET Connection]

-----------------------------------------------------------------------------
(* The path server *)

\* RegisterCorePathSegment, called by the beacon server; a segment that is
\* registered already gets a new time of expiry.  Core segments have been gone
\* against the direction in which they are used.
Register(seg) ==
  /\ seg.reverse
  /\ registered_core_segments' = registered_core_segments \cup {seg}
  /\ unexpired' = unexpired \cup {seg}
  /\ UNCHANGED <<on_the_flight_packets, scheduled, cached_core_path_segments, app_paths,
                 connection_infos>>

\* Its time of expiry passes.  The path server keeps the segment.
Expire(seg) ==
  /\ unexpired' = unexpired \ {seg}
  /\ UNCHANGED <<on_the_flight_packets, scheduled, registered_core_segments,
                 cached_core_path_segments, app_paths, connection_infos>>

NewPacket(type, about, src, dst, path) ==
  [id |-> 0, type |-> type, about |-> about, src |-> src, dst |-> dst, path |-> path,
   path_reversed |-> FALSE, cur_hopf |-> 1]

\* The segments that the path server of an AS has for a destination.
SegmentsTo(as, dst_ia) ==
  {seg \in registered_core_segments : Start(seg) = as /\ Originator(seg) = dst_ia}

\* The ASes about which a request is answered: those of the isolation domain
\* asked for to which there is a segment.  Only core segments are looked up.
AnsweredAbout(request) ==
  {as \in ASes : /\ request.type = "CORE_REQ"
                 /\ ISD[as] = ISD[request.about]
                 /\ SegmentsTo(request.dst.as, as) # {}}

\* Mutant: a request that is not answered is not destroyed.
DestroyedIfAnswered(request) == IF AnsweredAbout(request) = {} THEN {} ELSE {request.id}

\* Requests are destroyed, the ones that are not answered too.
DestroyedByServer(request) == {request.id}

\* PathServer::ProcessReceivedPacket: one answer for each destination.
AnswerRequest(s) ==
  /\ Exchange({s}, DestroyedByServer(s.packet),
              {NewPacket("REG_PATHS", as, s.at, s.packet.src, NoPath) :
                 as \in AnsweredAbout(s.packet)}, s.at)
  /\ UNCHANGED <<registered_core_segments, unexpired, cached_core_path_segments, app_paths,
                 connection_infos>>

-----------------------------------------------------------------------------
(* The host: paths *)

\* Mutant: a segment is cached again.
NewForCacheAlways(h, dst_ia) == SegmentsTo(h.as, dst_ia) \cap unexpired

\* The segments of an answer that CachePathSegment adds.  The answer holds a
\* pointer to those the path server has, so that it tells of those it has now.
NewForCache(h, dst_ia) ==
  (SegmentsTo(h.as, dst_ia) \cap unexpired) \ Elements(cached_core_path_segments[h][dst_ia])

\* ReceiveRegisteredPathSegments.
ReceiveAnswer(s) ==
  /\ cached_core_path_segments' =
       [cached_core_path_segments EXCEPT
          ![s.at][s.packet.about] = With(@, NewForCache(s.at, s.packet.about))]
  /\ Exchange({s}, {s.packet.id}, {}, s.at)
  /\ UNCHANGED <<registered_core_segments, unexpired, app_paths, connection_infos>>

LookupsOf(h) == {s \in scheduled : s.packet.type \in LookupTypes /\ h \in {s.packet.src, s.packet.dst}}

\* Mutant: the core segments are not asked for.
UpAndDownSegments == {"UP_REQ", "DOWN_REQ"}

\* The kinds of segments that RequestForPathSegments asks for.
RequestTypes == {"UP_REQ", "CORE_REQ", "DOWN_REQ"}

\* StartApplication: with the paths there are, or the one of the configuration;
\* without any the host asks for paths and tries again later.
StartApplication(h) ==
  LET dst_ia == AppDestination[h].as
      cached == cached_core_path_segments[h][dst_ia]
      configured == {seg \in ConfiguredPaths : Start(seg) = h.as /\ Originator(seg) = dst_ia}
  IN  /\ app_paths[h] = Empty /\ cached # Empty
      /\ \E paths \in {cached} \cup {With(Empty, {seg}) : seg \in configured} :
           app_paths' = [app_paths EXCEPT ![h] = paths]
      /\ UNCHANGED <<on_the_flight_packets, scheduled, registered_core_segments, unexpired,
                     cached_core_path_segments, connection_infos>>

RequestForPathSegments(h) ==
  LET dst_ia == AppDestination[h].as IN
    /\ app_paths[h] = Empty /\ cached_core_path_segments[h][dst_ia] = Empty
    /\ Cardinality(LookupsOf(h)) <= MaxLookups
    /\ Exchange({}, {}, {NewPacket(type, dst_ia, h, PathServer(h.as), NoPath) :
                           type \in RequestTypes}, h)
    /\ UNCHANGED <<registered_core_segments, unexpired, cached_core_path_segments,
                   app_paths, connection_infos>>

-----------------------------------------------------------------------------
(* The host: traffic *)

\* The packets of applications under way, besides those that a node is done with.
TrafficBesides(done) == {s \in scheduled \ done : s.packet.type \in TrafficTypes}

\* SendAppPacket: a probe or data on one of the paths.
SendAppPacket(h, type, path) ==
  /\ Cardinality(TrafficBesides({})) < MaxTraffic
  /\ Exchange({}, {}, {NewPacket(type, AppDestination[h].as, h, AppDestination[h], path)}, h)
  /\ UNCHANGED <<registered_core_segments, unexpired, cached_core_path_segments, app_paths,
                 connection_infos>>

\* SendAppResp: what is sent is a new packet that goes the path of the
\* connection backwards.
AppResp(h, c) ==
  [NewPacket("APP_RESP", c.src.as, h, c.src, c.path) EXCEPT
     !.path_reversed = TRUE, !.cur_hopf = Len(c.path.hops)]

\* The host is done with some packets, and may have something to report, once
\* there is room.
ExchangeAndReport(done, destroyed, h, c) ==
  \E reports \in SUBSET {AppResp(h, c)} :
    /\ reports # {} => Cardinality(TrafficBesides(done)) < MaxTraffic
    /\ Exchange(done, destroyed, reports, h)

\* Mutant: the sender is overwritten before it becomes the destination.
ReturnedToItself(packet, node) ==
  [packet EXCEPT !.dst = node, !.src = node, !.path_reversed = ~@]

\* ReturnScionPacket.
Returned(packet, node) ==
  [packet EXCEPT !.dst = packet.src, !.src = node, !.path_reversed = ~@]

\* Mutant: the echo is still a probe.
EchoTypeKept == "PROBE"

EchoType == "PROBE_ECHO"

\* A probe is sent back the way it came.
EchoProbe(s) ==
  /\ s.packet.type = "PROBE"
  /\ scheduled' = (scheduled \ {s})
       \cup {SendScionPacket([Returned(s.packet, s.at) EXCEPT !.type = EchoType], s.at)}
  /\ UNCHANGED <<on_the_flight_packets, registered_core_segments, unexpired,
                 cached_core_path_segments, app_paths, connection_infos>>

\* An answer to the application is taken and destroyed.
ReceiveReply(s) ==
  /\ s.packet.type \in {"PROBE_ECHO", "APP_RESP"}
  /\ Exchange({s}, {s.packet.id}, {}, s.at)
  /\ UNCHANGED <<registered_core_segments, unexpired, cached_core_path_segments, app_paths,
                 connection_infos>>

\* ReceiveAppData opens a connection, if there is none.  A report is sent at
\* once when a frame is complete.
ReceiveAppData(s) ==
  LET c == [src |-> s.packet.src, path |-> s.packet.path] IN
    /\ s.packet.type = "APP_DATA"
    /\ connection_infos' = [connection_infos EXCEPT ![s.at] = @ \cup {c}]
    /\ ExchangeAndReport({s}, {s.packet.id}, s.at, c)
    /\ UNCHANGED <<registered_core_segments, unexpired, cached_core_path_segments, app_paths>>

\* CheckConnectionTimeout reports what there is, and closes the connection when
\* nothing has come for a while.
CheckConnectionTimeout(h, c) ==
  /\ connection_infos' \in {connection_infos, [connection_infos EXCEPT ![h] = @ \ {c}]}
  /\ ExchangeAndReport({}, {}, h, c)
  /\ UNCHANGED <<registered_core_segments, unexpired, cached_core_path_segments, app_paths>>

-----------------------------------------------------------------------------
Init ==
  /\ on_the_flight_packets = {} /\ scheduled = {}
  /\ registered_core_segments = {} /\ unexpired = {}
  /\ cached_core_path_segments = [h \in Hosts |-> [as \in ASes |-> Empty]]
  /\ app_paths = [h \in Apps |-> Empty]
  /\ connection_infos = [h \in Hosts |-> {}]

\* A border router takes a packet, which leaves the rest of the state alone.
BorderRouterStep(s) ==
  /\ s.at.kind = "br"
  /\ ForwardPacket(s) \/ DropPacket(s)
  /\ UNCHANGED <<registered_core_segments, unexpired, cached_core_path_segments, app_paths,
                 connection_infos>>

\* A node takes a packet.
ProcessReceivedPacket(s) ==
  \/ BorderRouterStep(s)
  \/ s.at.kind = "ps" /\ AnswerRequest(s)
  \/ s.at.kind = "host" /\ s.packet.type = "REG_PATHS" /\ ReceiveAnswer(s)
  \/ s.at.kind = "host" /\ (EchoProbe(s) \/ ReceiveReply(s) \/ ReceiveAppData(s))

Next ==
  \/ \E s \in scheduled : ProcessReceivedPacket(s)
  \/ \E seg \in Segments : Register(seg)
  \/ \E seg \in unexpired : Expire(seg)
  \/ \E h \in Apps : StartApplication(h) \/ RequestForPathSegments(h)
  \/ \E h \in Apps, type \in {"PROBE", "APP_DATA"} :
       \E path \in Elements(app_paths[h]) : SendAppPacket(h, type, path)
  \/ \E h \in Hosts : \E c \in connection_infos[h] : CheckConnectionTimeout(h, c)

Spec == Init /\ [][Next]_vars

\* The packets of some types that a node takes.
Take(types) == \E s \in scheduled : s.packet.type \in types /\ ProcessReceivedPacket(s)

\* Packets under way are taken, those of applications and those of lookups, and
\* a host without a path tries again and again.
Fairness ==
  /\ WF_vars(Take(LookupTypes)) /\ WF_vars(Take(TrafficTypes))
  /\ \A h \in Apps : WF_vars(StartApplication(h) \/ RequestForPathSegments(h))

FairSpec == Spec /\ Fairness

-----------------------------------------------------------------------------
(* Properties *)

\* However often a host asks and however late the answers come, the paths of
\* an application are all different, and lead from its host to its destination.
AppPathsLeadThere ==
  \A h \in Apps : \A path \in Elements(app_paths[h]) :
    /\ app_paths[h][path] = 1
    /\ Start(path) = h.as /\ Originator(path) = AppDestination[h].as

\* What is sent in reply to an application goes to the host of that application
\* and tells it of a path that it has.
RepliesReachTheirApp ==
  \A s \in scheduled :
    s.packet.type \in {"PROBE_ECHO", "APP_RESP"} =>
      /\ s.packet.dst \in Apps
      /\ s.packet.path \in Elements(app_paths[s.packet.dst])
      /\ s.packet.src = AppDestination[s.packet.dst]

\* No packet of an application, and no exchange of a probe and its echo or of
\* data and the report, goes on for ever: where the applications wait for each
\* other (MaxTraffic = 1) there is again and again none under way.
TrafficEnds == []<>(TrafficBesides({}) = {})

\* There is an unexpired segment to the destination of the host's application.
PathKnown(h) ==
  \E seg \in unexpired : Start(seg) = h.as /\ Originator(seg) = AppDestination[h].as

\* An application starts, if from some time on there is a path to its
\* destination, whatever comes and goes before.
AppsStart ==
  \A h \in Apps : PathKnown(h) ~> (app_paths[h] # Empty \/ ~PathKnown(h))
=============================================================================
