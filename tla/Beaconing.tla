----------------------------- MODULE Beaconing ------------------------------
(***************************************************************************)
(* Path exploration with the baseline policy: the beacon servers of all    *)
(* ASes and the registration of what they learn with the path servers      *)
(* (beaconing/beacon-server.cc, beaconing/baseline.cc, path-server.cc).    *)
(*                                                                         *)
(* Once per period the ASes run one after the other, in the order of their *)
(* numbers: an AS disseminates the valid beacons of its store, a core AS   *)
(* then originates new ones.  Sending a beacon is a call into the beacon   *)
(* server of the neighbour, which may run later or earlier in the same     *)
(* period.  Later, all new beacons are registered with the path servers,   *)
(* and then the next_ fields of every beacon are made current.             *)
(*                                                                         *)
(* The threads that serve the neighbours of an AS (omp parallel for) touch *)
(* different servers: they are taken one neighbour after the other.        *)
(*                                                                         *)
(* A path is a sequence of links.  The key of a beacon lists the AS and    *)
(* the egress interface of each of them, which identify the link: the      *)
(* path stands for the key.  Hops of a registered segment, static          *)
(* information and traffic counters are not kept.                          *)
(***************************************************************************)
EXTENDS Integers, Sequences, FiniteSets

CONSTANTS
  NumAses,               \* ASes are numbered 0 .. NumAses - 1
  CoreAses,
  Interfaces,            \* names of the interfaces of an AS
  Links,                 \* the directions of links along which beacons travel
  beaconing_period, expiration_period, last_beaconing,   \* minutes
  MAX_BEACONS_TO_STORE,  \* 20
  MAX_BEACONS_TO_SEND    \* 5

AS == 0 .. NumAses - 1

\* A link_info and the relation of the receiving AS to the sending one.
LinkInfo == [from : AS, out : Interfaces, to : AS, in : Interfaces, relation : {"CORE", "CUSTOMER"}]

\* Beacons go from core AS to core AS over core links and to other ASes over
\* customer links.  (Every AS of the topologies of the repository is core, and so
\* is every link that is read from them.)  Times are uint16_t: no configuration
\* comes near the end of that range.
ASSUME BeaconingAssumption ==
  /\ NumAses \in Nat \ {0}
  /\ CoreAses \subseteq AS
  /\ Links \subseteq LinkInfo /\ IsFiniteSet(Links)
  /\ \A l \in Links :
       /\ l.from # l.to
       /\ (l.relation = "CORE") = (l.from \in CoreAses /\ l.to \in CoreAses)
       /\ l.relation = "CUSTOMER" => l.to \notin CoreAses
       /\ \A m \in Links : l.from = m.from /\ l.out = m.out => l = m
  /\ beaconing_period \in Nat \ {0}
  /\ expiration_period \in Nat /\ expiration_period > beaconing_period
  /\ last_beaconing \in Nat
  /\ last_beaconing + expiration_period < 2^16
  /\ MAX_BEACONS_TO_STORE \in Nat \ {0} /\ MAX_BEACONS_TO_SEND \in Nat \ {0}

VARIABLES
  now,
  stage,        \* what runs next in the period
  turn,         \* the AS that runs
  advertised,   \* <<neighbour, path>> pairs it has disseminated so far
  wire,         \* beacons it is sending: [path, initiation, expiration]
  store,        \* push_based_beacon_container of each AS, by path
  valid_count,  \* valid_beacons_count_per_dst_as of each AS
  next_count,   \* next_round_valid_beacons_count_per_dst_as of each AS
  segments      \* what its path server has registered, by path

counts == <<valid_count, next_count>>
vars == <<now, stage, turn, advertised, wire, store, counts, segments>>

Path == Seq(Links)
Times == [initiation : Nat, expiration : Nat]
Message == [path : Path, initiation : Nat, expiration : Nat]
Beacon == [initiation : Nat, expiration : Nat,
           next_initiation : Nat, next_expiration : Nat,
           is_new : BOOLEAN, is_valid : BOOLEAN]

Origin(path) == path[1].from
Receiver(path) == path[Len(path)].to

\* Mutant: only the origin of the path is compared.
VisitsAtOrigin(path, a) == Origin(path) = a

Visits(path, a) == \E i \in 1 .. Len(path) : path[i].from = a

next_period == now + beaconing_period

TypeOK ==
  /\ now \in Nat /\ now <= last_beaconing
  /\ stage \in {"disseminate", "initiate", "register", "update", "idle"}
  /\ turn \in AS
  /\ advertised \subseteq AS \X Path
  /\ wire \subseteq Message
  /\ store = [a \in AS |-> [path \in DOMAIN store[a] |-> store[a][path]]]
  /\ \A a \in AS : \A path \in DOMAIN store[a] :
       path \in Path /\ store[a][path] \in Beacon
  /\ valid_count \in [AS -> [AS -> Nat]]
  /\ next_count \in [AS -> [AS -> Nat]]
  /\ segments = [a \in AS |-> [path \in DOMAIN segments[a] |-> segments[a][path]]]
  /\ \A a \in AS : \A path \in DOMAIN segments[a] :
       path \in Path /\ segments[a][path] \in Times

NoPaths == [path \in {} |-> {}]

Init ==
  /\ now = 0 /\ stage = "disseminate" /\ turn = 0
  /\ advertised = {} /\ wire = {}
  /\ store = [a \in AS |-> NoPaths]
  /\ valid_count = [a \in AS |-> [d \in AS |-> 0]]
  /\ next_count = [a \in AS |-> [d \in AS |-> 0]]
  /\ segments = [a \in AS |-> NoPaths]

-----------------------------------------------------------------------------
(* An AS sends *)

\* Mutant: what the store has received is passed on in the same period.
ExtendedWithNext(path, link) ==
  [path |-> Append(path, link),
   initiation |-> store[link.from][path].next_initiation,
   expiration |-> store[link.from][path].next_expiration]

\* The next_ fields of the beacon on the wire are those of the stored one that
\* are current, never those it has received in this period.
Extended(path, link) ==
  [path |-> Append(path, link),
   initiation |-> store[link.from][path].initiation,
   expiration |-> store[link.from][path].expiration]

Originated(link) ==
  [path |-> <<link>>, initiation |-> now, expiration |-> now + expiration_period]

Relation(a) == IF a \in CoreAses THEN "CORE" ELSE "CUSTOMER"
LinksTo(a, neighbour) ==
  {l \in Links : l.from = a /\ l.to = neighbour /\ l.relation = Relation(a)}

Sendable(a, neighbour, path) ==
  /\ path \in DOMAIN store[a] /\ store[a][path].is_valid
  /\ ~Visits(path, neighbour)

\* Mutant: sent_count is not reset for the next origin.
SentOfAny(neighbour, d) == {sent[2] : sent \in {s \in advertised : s[1] = neighbour}}

SentOfOrigin(neighbour, d) ==
  {path \in {sent[2] : sent \in {s \in advertised : s[1] = neighbour}} : Origin(path) = d}

\* Beacons of one origin go out by length, those of one length in any order,
\* until MAX_BEACONS_TO_SEND are sent.
NextToSend(a, neighbour, path) ==
  /\ Sendable(a, neighbour, path)
  /\ <<neighbour, path>> \notin advertised
  /\ Cardinality(SentOfOrigin(neighbour, Origin(path))) < MAX_BEACONS_TO_SEND
  /\ \A other \in DOMAIN store[a] :
       /\ Origin(other) = Origin(path) /\ Len(other) < Len(path)
       /\ Sendable(a, neighbour, other)
       => <<neighbour, other>> \in advertised

DoneWith(a, neighbour) ==
  LinksTo(a, neighbour) # {} =>
    \A path \in DOMAIN store[a] : ~NextToSend(a, neighbour, path)

\* DisseminateBeacons, one beacon to one neighbour over all their links: a core
\* AS to its core neighbours, any other AS to its customers.
Disseminate(neighbour, path) ==
  /\ stage = "disseminate" /\ wire = {}
  /\ LinksTo(turn, neighbour) # {}
  /\ NextToSend(turn, neighbour, path)
  /\ \A n \in AS : n < neighbour => DoneWith(turn, n)
  /\ advertised' = advertised \union {<<neighbour, path>>}
  /\ wire' = {Extended(path, link) : link \in LinksTo(turn, neighbour)}
  /\ UNCHANGED <<now, stage, turn, store, counts, segments>>

\* InitiateBeacons, for the core neighbours and the customers of a core AS; other
\* ASes have no such event.
Initiate ==
  /\ stage = "disseminate" /\ wire = {}
  /\ \A neighbour \in AS : DoneWith(turn, neighbour)
  /\ stage' = "initiate"
  /\ wire' = {Originated(link) : link \in {l \in Links : l.from = turn /\ turn \in CoreAses}}
  /\ UNCHANGED <<now, turn, advertised, store, counts, segments>>

\* The event of the next AS, or the first event after those of all ASes.
NextAs ==
  /\ stage = "initiate" /\ wire = {}
  /\ IF turn + 1 < NumAses
     THEN turn' = turn + 1 /\ stage' = "disseminate"
     ELSE turn' = turn /\ stage' = "register"
  /\ advertised' = {}
  /\ UNCHANGED <<now, wire, store, counts, segments>>

-----------------------------------------------------------------------------
(* Its neighbour receives *)

Stored(a, path) == path \in DOMAIN store[a]

\* ImportPolicy of the server and AlgSpecificImportPolicy of the baseline: known
\* paths and those of one link always, others while there is room.
Imported(a, path) ==
  \/ Stored(a, path)
  \/ Len(path) = 1
  \/ next_count[a][Origin(path)] < MAX_BEACONS_TO_STORE

NewBeacon(m) ==
  [initiation |-> 0, expiration |-> 0,
   next_initiation |-> m.initiation, next_expiration |-> m.expiration,
   is_new |-> TRUE, is_valid |-> FALSE]

\* Mutant: a beacon that is not valid is replaced by the received one.
Renewed(a, m) ==
  IF store[a][m.path].is_valid
  THEN [store[a][m.path] EXCEPT !.next_initiation = m.initiation,
                                !.next_expiration = m.expiration,
                                !.is_new = TRUE]
  ELSE NewBeacon(m)

\* InsertBeacon of a path in the store: only the next_ fields are replaced.
Refreshed(a, m) ==
  [store[a][m.path] EXCEPT !.next_initiation = m.initiation,
                           !.next_expiration = m.expiration,
                           !.is_new = TRUE]

With(f, x, value) == [y \in DOMAIN f \union {x} |-> IF y = x THEN value ELSE f[y]]

\* Mutant: a path in the store is taken for a valid one.
CountedIfStored(a, path) == Stored(a, path)

\* The beacons that are valid or will be are counted, each once.
CountedAlready(a, path) == Stored(a, path) /\ store[a][path].is_valid

ReceiveBeacon(m) ==
  LET a == Receiver(m.path)
      d == Origin(m.path)
  IN
  /\ m \in wire
  /\ \A other \in wire : a <= Receiver(other.path)
  /\ wire' = wire \ {m}
  /\ IF Imported(a, m.path)
     THEN /\ store' = [store EXCEPT ![a] =
                         With(store[a], m.path,
                              IF Stored(a, m.path) THEN Refreshed(a, m) ELSE NewBeacon(m))]
          /\ next_count' = IF CountedAlready(a, m.path) THEN next_count
                           ELSE [next_count EXCEPT ![a][d] = @ + 1]
     ELSE UNCHANGED <<store, next_count>>
  /\ UNCHANGED <<now, stage, turn, advertised, valid_count, segments>>

-----------------------------------------------------------------------------
(* After the last AS of the period *)

\* Mutant: a path that is registered keeps its first times.
FirstSegments(a) ==
  [path \in DOMAIN segments[a] \union {p \in DOMAIN store[a] : store[a][p].is_new} |->
     IF path \notin DOMAIN segments[a]
     THEN [initiation |-> store[a][path].next_initiation,
           expiration |-> store[a][path].next_expiration]
     ELSE segments[a][path]]

\* RegisterToLocalPathServer: Register{Core,Up}PathSegment of every new beacon.
RegisteredSegments(a) ==
  [path \in DOMAIN segments[a] \union {p \in DOMAIN store[a] : store[a][p].is_new} |->
     IF Stored(a, path) /\ store[a][path].is_new
     THEN [initiation |-> store[a][path].next_initiation,
           expiration |-> store[a][path].next_expiration]
     ELSE segments[a][path]]

RegisterToLocalPathServer ==
  /\ stage = "register"
  /\ segments' = [a \in AS |-> RegisteredSegments(a)]
  /\ stage' = "update"
  /\ UNCHANGED <<now, turn, advertised, wire, store, counts>>

\* UpdateBeaconState, first half: a new beacon that has not expired takes over.
TakesOver(b) == b.is_new /\ b.next_expiration > now
Current(b) ==
  IF TakesOver(b)
  THEN [b EXCEPT !.is_new = FALSE, !.is_valid = TRUE,
                 !.initiation = b.next_initiation, !.expiration = b.next_expiration]
  ELSE [b EXCEPT !.is_new = FALSE]

\* Mutant: only what has already expired is given up.
EndsWhenExpired(b) == Current(b).expiration <= now /\ Current(b).is_valid

\* Second half: what expires before the next update is given up now.
Ends(b) == Current(b).expiration <= next_period /\ Current(b).is_valid
Updated(b) == IF Ends(b) THEN [Current(b) EXCEPT !.is_valid = FALSE] ELSE Current(b)

OfOrigin(a, d) == {path \in DOMAIN store[a] : Origin(path) = d}
Started(a, d) ==
  {path \in OfOrigin(a, d) : TakesOver(store[a][path]) /\ ~store[a][path].is_valid}
Ended(a, d) == {path \in OfOrigin(a, d) : Ends(store[a][path])}

UpdateStatePeriodic ==
  /\ stage = "update"
  /\ store' = [a \in AS |-> [path \in DOMAIN store[a] |-> Updated(store[a][path])]]
  /\ valid_count' = [a \in AS |-> [d \in AS |->
       valid_count[a][d] + Cardinality(Started(a, d)) - Cardinality(Ended(a, d))]]
  /\ next_count' = [a \in AS |-> [d \in AS |->
       next_count[a][d] - Cardinality(Ended(a, d))]]
  /\ stage' = "idle"
  /\ UNCHANGED <<now, turn, advertised, wire, segments>>

\* The first event of the next period.
UpdateStateBeforeBeaconing ==
  /\ stage = "idle"
  /\ next_period <= last_beaconing
  /\ now' = next_period
  /\ stage' = "disseminate" /\ turn' = 0
  /\ UNCHANGED <<advertised, wire, store, counts, segments>>

Next ==
  \/ \E neighbour \in AS : \E path \in DOMAIN store[turn] : Disseminate(neighbour, path)
  \/ Initiate
  \/ NextAs
  \/ \E m \in wire : ReceiveBeacon(m)
  \/ RegisterToLocalPathServer
  \/ UpdateStatePeriodic
  \/ UpdateStateBeforeBeaconing

Spec == Init /\ [][Next]_vars

-----------------------------------------------------------------------------
(* Properties *)

\* Every stored path is a segment: it begins at a core AS, ends at the AS that
\* stores it, is connected, visits no AS twice, and has core links only in the
\* store of a core AS and customer links only in any other.  Dissemination only
\* asks whether the neighbour is on the path (baseline.cc:97-105).
Segment(path, a) ==
  /\ path \in Path /\ path # <<>>
  /\ Origin(path) \in CoreAses /\ Receiver(path) = a
  /\ \A i \in 1 .. Len(path) : path[i].from # a /\ path[i].relation = Relation(a)
  /\ \A i \in 2 .. Len(path) : path[i].from = path[i - 1].to
  /\ \A i, j \in 1 .. Len(path) : path[i].from = path[j].from => i = j
PathsAreSegments == \A a \in AS : \A path \in DOMAIN store[a] : Segment(path, a)

\* A beacon travels one link per period, whatever the order in which the ASes run:
\* what a valid beacon of k links says was originated k - 1 periods before the
\* period in which it was received, or earlier.
OneLinkPerPeriod ==
  \A a \in AS : \A path \in DOMAIN store[a] :
    LET b == store[a][path]
        links == Len(path)
    IN /\ b.is_new => b.next_initiation + (links - 1) * beaconing_period <= now
       /\ b.is_valid =>
            b.initiation + (IF stage = "idle" THEN links - 1 ELSE links) * beaconing_period <= now

\* The two counts, kept by increments, are the numbers of valid beacons and of
\* those that are valid or about to be; the room in the store and the connected
\* pairs the simulation prints are read off them.
CountsExact ==
  \A a \in AS : \A d \in AS :
    /\ valid_count[a][d] = Cardinality({path \in OfOrigin(a, d) : store[a][path].is_valid})
    /\ next_count[a][d] =
         Cardinality({path \in OfOrigin(a, d) :
                        store[a][path].is_valid \/ store[a][path].is_new})

\* A beacon is valid only while it is certain not to expire before the next
\* update, and none is sent that has expired or is about to.
ValidUntilNextUpdate ==
  /\ \A a \in AS : \A path \in DOMAIN store[a] :
       store[a][path].is_valid =>
         store[a][path].expiration > IF stage = "idle" THEN next_period ELSE now
  /\ \A m \in wire : m.expiration > now

\* When the update is done, the path server of an AS has every valid path with
\* the times it is valid for; it was told before the update, while the beacon
\* was only new.
RegisteredWhenValid ==
  stage = "idle" =>
    \A a \in AS : \A path \in DOMAIN store[a] :
      store[a][path].is_valid =>
        /\ path \in DOMAIN segments[a]
        /\ segments[a][path] = [initiation |-> store[a][path].initiation,
                                expiration |-> store[a][path].expiration]

\* Pairs <<origin, AS>> that a segment of at most k links connects.
Within[k \in Nat] ==
  IF k = 0 THEN {}
  ELSE Within[k - 1]
       \union {<<l.from, l.to>> : l \in {m \in Links : m.from \in CoreAses}}
       \union {<<e[1][1], e[2].to>> : e \in
                 {f \in Within[k - 1] \X Links :
                    /\ f[2].from = f[1][2] /\ f[2].to # f[1][1]
                    /\ f[2].relation = Relation(f[2].from)}}

\* Until the first beacons expire, every AS has a valid path to each core AS at
\* distance k after k periods, however few paths may be stored and sent.
ReachedInTime ==
  stage = "idle" /\ next_period < expiration_period =>
    \A pair \in Within[now \div beaconing_period + 1] :
      \E path \in OfOrigin(pair[2], pair[1]) : store[pair[2]][path].is_valid

\* What an AS knows of a path never becomes older.
NeverOlder ==
  [][\A a \in AS : \A path \in DOMAIN store[a] :
       /\ path \in DOMAIN store'[a]
       /\ store'[a][path].initiation >= store[a][path].initiation
       /\ store'[a][path].next_initiation >= store[a][path].next_initiation]_vars
=============================================================================
