-------------------------- MODULE BeaconingProofs ---------------------------
(***************************************************************************)
(* Theorems about Beaconing, for every topology, period, expiration and    *)
(* limit of the stores.                                                    *)
(*                                                                         *)
(* The properties are not inductive by themselves.  The one about times    *)
(* needs to know how a beacon relates to the one it extends, in the store  *)
(* of the AS before (Upstream): a beacon that is received is then never    *)
(* older than what is known of its path, although no code compares the     *)
(* two.  The one about counts needs that no beacon is received twice in a  *)
(* period (ReceivedOnce), since reception counts every beacon that is not  *)
(* valid; and that holds because what is new in a store can be told from   *)
(* what its sender has already advertised (SentThisPeriod).                *)
(*                                                                         *)
(* That every AS is reached needs an invariant of its own (ReachInv), true *)
(* until the first beacons expire: what has been advertised is on its way  *)
(* or has arrived, an AS to which nothing is advertised is on every path   *)
(* and left a valid one behind, and so one link is covered in a period.    *)
(***************************************************************************)
EXTENDS Beaconing, SequenceTheorems, FiniteSetTheorems, WellFoundedInduction, TLAPS

Last(path) == path[Len(path)]
Prefix(path) == [i \in 1 .. Len(path) - 1 |-> path[i]]

-----------------------------------------------------------------------------
(* Paths *)

\* What Append does to a path.
LEMMA AppendFacts ==
  ASSUME NEW path \in Path, NEW link \in Links
  PROVE  /\ Append(path, link) \in Path
         /\ Len(path) \in Nat
         /\ Len(Append(path, link)) = Len(path) + 1
         /\ \A i \in 1 .. Len(path) : Append(path, link)[i] = path[i]
         /\ Append(path, link)[Len(path) + 1] = link
         /\ Last(Append(path, link)) = link
         /\ Receiver(Append(path, link)) = link.to
         /\ Prefix(Append(path, link)) = path
<1> DEFINE q == Append(path, link)
<1>1. /\ q \in Path /\ Len(path) \in Nat /\ Len(q) = Len(path) + 1
      /\ \A i \in 1 .. Len(path) : q[i] = path[i]
      /\ q[Len(path) + 1] = link
  BY DEF Path
<1>2. Last(q) = link /\ Receiver(q) = link.to
  BY <1>1 DEF Last, Receiver
<1>3. path = [i \in 1 .. Len(path) |-> path[i]]
  BY LenProperties DEF Path
<1>4. Prefix(q) = [i \in 1 .. Len(path) |-> q[i]]
  BY <1>1 DEF Prefix
<1>5. [i \in 1 .. Len(path) |-> q[i]] = [i \in 1 .. Len(path) |-> path[i]]
  BY <1>1
<1> QED
  BY <1>1, <1>2, <1>3, <1>4, <1>5

\* A path of one link.
LEMMA OneLinkFacts ==
  ASSUME NEW link \in Links
  PROVE  /\ <<link>> \in Path /\ Len(<<link>>) = 1 /\ <<link>>[1] = link
         /\ Last(<<link>>) = link
         /\ Receiver(<<link>>) = link.to /\ Origin(<<link>>) = link.from
BY DEF Path, Last, Receiver, Origin

\* Ends of a link.
LEMMA LinkFacts ==
  ASSUME NEW link \in Links
  PROVE  /\ link.from \in AS /\ link.to \in AS /\ link.from # link.to
         /\ link.relation = Relation(link.from) => Relation(link.to) = link.relation
         /\ link.from \in CoreAses => Relation(link.to) = link.relation
<1>1. link \in LinkInfo
  BY BeaconingAssumption
<1>2. /\ link.from \in AS /\ link.to \in AS
      /\ link.relation \in {"CORE", "CUSTOMER"}
  BY <1>1 DEF LinkInfo
<1>3. /\ link.from # link.to
      /\ (link.relation = "CORE") = (link.from \in CoreAses /\ link.to \in CoreAses)
      /\ link.relation = "CUSTOMER" => link.to \notin CoreAses
  BY BeaconingAssumption
<1> QED
  BY <1>2, <1>3 DEF Relation

\* A new beacon is a segment.
LEMMA SegmentBegins ==
  ASSUME NEW link \in Links, link.from \in CoreAses
  PROVE  Segment(<<link>>, link.to)
<1>1. /\ link.from # link.to /\ Relation(link.to) = link.relation
  BY LinkFacts
<1>2. <<link>> # <<>>
  BY OneLinkFacts, EmptySeq
<1>3. \A i \in 1 .. Len(<<link>>) : i = 1 /\ <<link>>[i] = link
  BY OneLinkFacts
<1> QED
  BY <1>1, <1>2, <1>3, OneLinkFacts DEF Segment

\* A segment that is extended to an AS that is not on it is a segment.
LEMMA SegmentExtends ==
  ASSUME NEW path \in Path, NEW link \in Links,
         Segment(path, link.from), link.relation = Relation(link.from),
         ~Visits(path, link.to)
  PROVE  Segment(Append(path, link), link.to)
<1> DEFINE q == Append(path, link)
           n == Len(path)
<1>1. /\ q \in Path /\ n \in Nat /\ Len(q) = n + 1
      /\ \A i \in 1 .. n : q[i] = path[i]
      /\ q[n + 1] = link
      /\ Receiver(q) = link.to
  BY AppendFacts
<1>2. n # 0
  BY EmptySeq DEF Segment, Path
<1>3. /\ link.from # link.to /\ Relation(link.to) = Relation(link.from)
  BY LinkFacts
<1>4. q # <<>>
  BY <1>1, EmptySeq
<1>5. Origin(q) \in CoreAses
  BY <1>1, <1>2 DEF Origin, Segment
<1>6. \A i \in 1 .. n : /\ path[i].from # link.to
                        /\ path[i].from # link.from
                        /\ path[i].relation = Relation(link.from)
  BY DEF Segment, Visits
<1>7. \A i \in 1 .. n + 1 : q[i].from # link.to /\ q[i].relation = Relation(link.to)
  <2> SUFFICES ASSUME NEW i \in 1 .. n + 1
               PROVE  q[i].from # link.to /\ q[i].relation = Relation(link.to)
    OBVIOUS
  <2>1. CASE i = n + 1
    BY <2>1, <1>1, <1>3
  <2>2. CASE i \in 1 .. n
    BY <2>2, <1>1, <1>3, <1>6
  <2> QED
    BY <2>1, <2>2, <1>1
<1>8. \A i \in 2 .. n + 1 : q[i].from = q[i - 1].to
  <2> SUFFICES ASSUME NEW i \in 2 .. n + 1
               PROVE  q[i].from = q[i - 1].to
    OBVIOUS
  <2>1. i - 1 \in 1 .. n /\ q[i - 1] = path[i - 1]
    BY <1>1
  <2>2. CASE i = n + 1
    <3>1. path[n].to = link.from
      BY DEF Segment, Receiver
    <3> QED
      BY <2>1, <2>2, <3>1, <1>1
  <2>3. CASE i \in 2 .. n
    <3>1. path[i].from = path[i - 1].to
      BY <2>3 DEF Segment
    <3>2. q[i] = path[i]
      BY <2>3, <1>1
    <3> QED
      BY <3>1, <3>2, <2>1
  <2> QED
    BY <2>2, <2>3, <1>1
<1>9. \A i, j \in 1 .. n + 1 : q[i].from = q[j].from => i = j
  <2>1. \A i, j \in 1 .. n : path[i].from = path[j].from => i = j
    BY DEF Segment
  <2>2. \A i \in 1 .. n : q[i].from # q[n + 1].from
    BY <1>1, <1>6
  <2>3. \A i \in 1 .. n + 1 : i \in 1 .. n \/ i = n + 1
    BY <1>1
  <2> QED
    BY <2>1, <2>2, <2>3, <1>1
<1> QED
  BY <1>1, <1>4, <1>5, <1>7, <1>8, <1>9 DEF Segment

-----------------------------------------------------------------------------
(* The invariant *)

Sending == stage \in {"disseminate", "initiate"}

\* TypeOK but for the counts, whose type follows from what they count.
Types ==
  /\ now \in Nat /\ now <= last_beaconing
  /\ stage \in {"disseminate", "initiate", "register", "update", "idle"}
  /\ turn \in AS
  /\ advertised \subseteq AS \X Path
  /\ wire \subseteq Message
  /\ store = [a \in AS |-> [path \in DOMAIN store[a] |-> store[a][path]]]
  /\ \A a \in AS : \A path \in DOMAIN store[a] :
       path \in Path /\ store[a][path] \in Beacon
  /\ segments = [a \in AS |-> [path \in DOMAIN segments[a] |-> segments[a][path]]]
  /\ \A a \in AS : \A path \in DOMAIN segments[a] :
       path \in Path /\ segments[a][path] \in Times

\* Beacons are on the wire only while an AS runs; what it sends ends with a
\* link of its own.
WirePaths ==
  \A m \in wire :
    /\ Sending
    /\ m.path \in Path /\ Segment(m.path, Receiver(m.path))
    /\ Receiver(m.path) \in AS
    /\ Last(m.path) \in Links /\ Last(m.path).from = turn
    /\ Last(m.path).to = Receiver(m.path)

\* A beacon on the wire is new, or a valid beacon of the AS that runs with one
\* more link.
WireTimes ==
  \A m \in wire :
    /\ m.initiation + (Len(m.path) - 1) * beaconing_period <= now
    /\ m.expiration > now
    /\ IF Len(m.path) = 1
       THEN /\ stage = "initiate"
            /\ m.initiation = now /\ m.expiration = now + expiration_period
       ELSE /\ stage = "disseminate"
            /\ <<Receiver(m.path), Prefix(m.path)>> \in advertised
            /\ Prefix(m.path) \in DOMAIN store[turn]
            /\ m.initiation = store[turn][Prefix(m.path)].initiation
            /\ m.expiration = store[turn][Prefix(m.path)].expiration

\* What an AS knows of a path is not newer than what the AS before it knows.
Upstream(path, b) ==
  Len(path) # 1 =>
    /\ Last(path) \in Links
    /\ Prefix(path) \in DOMAIN store[Last(path).from]
    /\ b.next_initiation <= store[Last(path).from][Prefix(path)].initiation

\* A beacon that is new was sent in this period, by an AS that has run or runs.
SentThisPeriod(path, a) ==
  LET link == Last(path)
  IN  \/ ~Sending
      \/ link.from < turn
      \/ /\ link.from = turn
         /\ IF Len(path) = 1 THEN stage = "initiate"
            ELSE stage = "initiate" \/ <<a, Prefix(path)>> \in advertised

StoredTimes(a, path, b) ==
  /\ b.initiation <= b.next_initiation
  /\ b.next_initiation + (Len(path) - 1) * beaconing_period <= now
  /\ b.is_valid =>
       /\ b.initiation + (IF stage = "idle" THEN Len(path) - 1 ELSE Len(path))
                           * beaconing_period <= now
       /\ b.expiration > (IF stage = "idle" THEN next_period ELSE now)
  /\ Upstream(path, b)
  /\ b.is_new => /\ b.next_expiration > now /\ stage # "idle"
                 /\ SentThisPeriod(path, a)

StoreTimes ==
  \A a \in AS : \A path \in DOMAIN store[a] : StoredTimes(a, path, store[a][path])

\* No beacon is received twice in a period.
ReceivedOnce ==
  \A m \in wire :
    m.path \in DOMAIN store[Receiver(m.path)] => ~store[Receiver(m.path)][m.path].is_new

\* Between registration and update the path server knows the next times of a
\* new beacon, otherwise the current times of a valid one.
RegisteredAt(a, path, b) ==
  IF stage = "update" /\ b.is_new
  THEN /\ path \in DOMAIN segments[a]
       /\ segments[a][path] = [initiation |-> b.next_initiation,
                               expiration |-> b.next_expiration]
  ELSE b.is_valid =>
         /\ path \in DOMAIN segments[a]
         /\ segments[a][path] = [initiation |-> b.initiation, expiration |-> b.expiration]
Registered ==
  \A a \in AS : \A path \in DOMAIN store[a] : RegisteredAt(a, path, store[a][path])

ValidOf(a, d) == {path \in OfOrigin(a, d) : store[a][path].is_valid}
ComingOf(a, d) == {path \in OfOrigin(a, d) : store[a][path].is_valid \/ store[a][path].is_new}
Counted ==
  /\ \A a \in AS : IsFiniteSet(DOMAIN store[a])
  /\ valid_count = [a \in AS |-> [d \in AS |-> Cardinality(ValidOf(a, d))]]
  /\ next_count = [a \in AS |-> [d \in AS |-> Cardinality(ComingOf(a, d))]]

IInv ==
  /\ Types
  /\ PathsAreSegments
  /\ WirePaths
  /\ WireTimes
  /\ StoreTimes
  /\ ReceivedOnce
  /\ Registered
  /\ Counted

-----------------------------------------------------------------------------
(* What the actions do to the stores *)

Kept(c, q) == q \in DOMAIN store[c] /\ store'[c][q] = store[c][q]

\* Reception changes at most the entry of the received path, at its receiver.
ReceiveEffect(m, a) ==
  /\ a \in AS /\ m \in Message /\ m.path \in Path
  /\ store' = [c \in AS |-> store'[c]]
  /\ \A c \in AS : DOMAIN store[c] \subseteq DOMAIN store'[c]
  /\ \A c \in AS \ {a} : store'[c] = store[c]
  /\ \A q \in DOMAIN store'[a] :
       \/ Kept(a, q)
       \/ /\ q = m.path /\ q \in DOMAIN store[a]
          /\ store'[a][q] = Refreshed(a, m)
       \/ /\ q = m.path /\ q \notin DOMAIN store[a]
          /\ store'[a][q] = NewBeacon(m)
  /\ \/ store' = store /\ next_count' = next_count
     \/ /\ DOMAIN store'[a] = DOMAIN store[a] \union {m.path}
        /\ store'[a] = [q \in DOMAIN store'[a] |-> store'[a][q]]
        /\ store'[a][m.path] = IF Stored(a, m.path) THEN Refreshed(a, m) ELSE NewBeacon(m)
        /\ next_count' = IF CountedAlready(a, m.path) THEN next_count
                         ELSE [next_count EXCEPT ![a][Origin(m.path)] = @ + 1]

LEMMA ReceiveStep ==
  ASSUME Types, WirePaths, NEW m \in wire, ReceiveBeacon(m),
         NEW a \in AS, a = Receiver(m.path)
  PROVE  ReceiveEffect(m, a)
<1>1. a \in AS /\ m \in Message /\ m.path \in Path
  BY DEF WirePaths, Types
<1> DEFINE b == IF Stored(a, m.path) THEN Refreshed(a, m) ELSE NewBeacon(m)
<1>2. DOMAIN store = AS /\ store = [c \in AS |-> store[c]]
  BY DEF Types
<1>3. \/ store' = store /\ next_count' = next_count
      \/ /\ store' = [store EXCEPT ![a] = With(store[a], m.path, b)]
         /\ next_count' = IF CountedAlready(a, m.path) THEN next_count
                          ELSE [next_count EXCEPT ![a][Origin(m.path)] = @ + 1]
  BY DEF ReceiveBeacon
<1>4. CASE store' = store /\ next_count' = next_count
  <2>1. \A q \in DOMAIN store'[a] : Kept(a, q)
    BY <1>4 DEF Kept
  <2> QED
    BY <1>1, <1>2, <1>4, <2>1 DEF ReceiveEffect
<1>5. CASE /\ store' = [store EXCEPT ![a] = With(store[a], m.path, b)]
           /\ next_count' = IF CountedAlready(a, m.path) THEN next_count
                            ELSE [next_count EXCEPT ![a][Origin(m.path)] = @ + 1]
  <2> HIDE DEF b
  <2>1. /\ store'[a] = With(store[a], m.path, b)
        /\ \A c \in AS \ {a} : store'[c] = store[c]
        /\ store' = [c \in AS |-> store'[c]]
    BY <1>1, <1>2, <1>5
  <2>2. /\ DOMAIN store'[a] = DOMAIN store[a] \union {m.path}
        /\ store'[a] = [q \in DOMAIN store'[a] |-> store'[a][q]]
        /\ store'[a][m.path] = b
        /\ \A q \in DOMAIN store[a] : q # m.path => store'[a][q] = store[a][q]
    BY <2>1 DEF With
  <2>3. \A c \in AS : DOMAIN store[c] \subseteq DOMAIN store'[c]
    BY <2>1, <2>2
  <2>4. \A q \in DOMAIN store'[a] :
              \/ Kept(a, q)
              \/ /\ q = m.path /\ q \in DOMAIN store[a]
                 /\ store'[a][q] = Refreshed(a, m)
              \/ /\ q = m.path /\ q \notin DOMAIN store[a]
                 /\ store'[a][q] = NewBeacon(m)
    BY <2>2 DEF Kept, b, Stored
  <2>5. store'[a][m.path] = IF Stored(a, m.path) THEN Refreshed(a, m) ELSE NewBeacon(m)
    BY <2>2 DEF b
  <2> QED
    BY <1>1, <1>5, <2>1, <2>2, <2>3, <2>4, <2>5 DEF ReceiveEffect
<1> QED
  BY <1>3, <1>4, <1>5

\* The fields of a beacon that is received.
LEMMA ReceivedFields ==
  ASSUME Types, NEW m \in Message, NEW a \in AS
  PROVE  /\ NewBeacon(m) \in Beacon
         /\ NewBeacon(m).initiation = 0
         /\ NewBeacon(m).next_initiation = m.initiation
         /\ NewBeacon(m).next_expiration = m.expiration
         /\ NewBeacon(m).is_new /\ ~NewBeacon(m).is_valid
         /\ m.path \in DOMAIN store[a] =>
              LET r == Refreshed(a, m)
                  b == store[a][m.path]
              IN  /\ r \in Beacon
                  /\ r.initiation = b.initiation /\ r.expiration = b.expiration
                  /\ r.next_initiation = m.initiation /\ r.next_expiration = m.expiration
                  /\ r.is_new /\ r.is_valid = b.is_valid
<1>1. m.initiation \in Nat /\ m.expiration \in Nat
  BY DEF Message
<1>2. m.path \in DOMAIN store[a] => store[a][m.path] \in Beacon
  BY DEF Types
<1> QED
  BY <1>1, <1>2 DEF NewBeacon, Refreshed, Beacon

\* The fields of a beacon after the periodic update.
LEMMA UpdatedFields ==
  ASSUME now \in Nat, NEW b \in Beacon
  PROVE  LET u == Updated(b)
         IN  /\ u \in Beacon
             /\ u.next_initiation = b.next_initiation
             /\ u.next_expiration = b.next_expiration
             /\ ~u.is_new
             /\ u.initiation = IF TakesOver(b) THEN b.next_initiation ELSE b.initiation
             /\ u.expiration = IF TakesOver(b) THEN b.next_expiration ELSE b.expiration
             /\ u.is_valid = ((TakesOver(b) \/ b.is_valid) /\ ~Ends(b))
             /\ Ends(b) = ((TakesOver(b) \/ b.is_valid) /\ u.expiration <= next_period)
<1>1. /\ Current(b) \in Beacon
      /\ Current(b).next_initiation = b.next_initiation
      /\ Current(b).next_expiration = b.next_expiration
      /\ Current(b).is_new = FALSE
      /\ Current(b).initiation = IF TakesOver(b) THEN b.next_initiation ELSE b.initiation
      /\ Current(b).expiration = IF TakesOver(b) THEN b.next_expiration ELSE b.expiration
      /\ Current(b).is_valid = (TakesOver(b) \/ b.is_valid)
  <2>1. CASE TakesOver(b)
    BY <2>1 DEF Current, Beacon
  <2>2. CASE ~TakesOver(b)
    BY <2>2 DEF Current, Beacon
  <2> QED
    BY <2>1, <2>2
<1>2. Ends(b) \in BOOLEAN /\ Ends(b) = (Current(b).expiration <= next_period /\ Current(b).is_valid)
  BY DEF Ends
<1>3. CASE Ends(b)
  <2>1. Updated(b) = [Current(b) EXCEPT !.is_valid = FALSE]
    BY <1>3 DEF Updated
  <2> QED
    BY <1>1, <1>2, <1>3, <2>1 DEF Beacon
<1>4. CASE ~Ends(b)
  <2>1. Updated(b) = Current(b)
    BY <1>4 DEF Updated
  <2> QED
    BY <1>1, <1>2, <1>4, <2>1
<1> QED
  BY <1>3, <1>4

-----------------------------------------------------------------------------
(* The invariant is preserved *)

\* Periods add up.
LEMMA Periods ==
  ASSUME NEW k \in Nat
  PROVE  /\ k * beaconing_period \in Nat
         /\ (k - 1) * beaconing_period \in Int
         /\ k * beaconing_period = (k - 1) * beaconing_period + beaconing_period
         /\ (k + 1 - 1) * beaconing_period = k * beaconing_period
<1>1. beaconing_period \in Nat
  BY BeaconingAssumption
<1> QED
  BY <1>1

\* A stored path has at least one link, and its last one ends where it is stored.
LEMMA StoredPath ==
  ASSUME Types, PathsAreSegments, NEW a \in AS, NEW path \in DOMAIN store[a]
  PROVE  /\ path \in Path /\ Len(path) \in Nat /\ Len(path) >= 1
         /\ store[a][path] \in Beacon
         /\ Last(path) \in Links /\ Last(path).to = a
         /\ Origin(path) \in AS
<1>1. path \in Path /\ store[a][path] \in Beacon
  BY DEF Types
<1>2. Segment(path, a)
  BY DEF PathsAreSegments
<1>3. Len(path) \in Nat /\ Len(path) >= 1
  BY <1>1, <1>2, EmptySeq DEF Segment, Path
<1>4. Last(path) \in Links
  BY <1>1, <1>3, ElementOfSeq DEF Last, Path
<1>5. Last(path).to = a
  BY <1>2 DEF Segment, Receiver, Last
<1>6. Origin(path) \in AS
  BY <1>2, BeaconingAssumption DEF Segment
<1> QED
  BY <1>1, <1>3, <1>4, <1>5, <1>6

\* Actions that leave the stores alone.
LEMMA SameStore ==
  ASSUME IInv, UNCHANGED <<store, counts>>
  PROVE  PathsAreSegments' /\ Counted'
<1>1. PathsAreSegments'
  BY DEF IInv, PathsAreSegments, Segment
<1>2. Counted'
  BY DEF IInv, Counted, counts, ValidOf, ComingOf, OfOrigin
<1> QED
  BY <1>1, <1>2

LEMMA DisseminateInv ==
  ASSUME IInv, NEW n \in AS, NEW p \in DOMAIN store[turn], Disseminate(n, p)
  PROVE  IInv'
<1> DEFINE b == store[turn][p]
<1>1. /\ stage = "disseminate" /\ wire = {}
      /\ advertised' = advertised \union {<<n, p>>}
      /\ wire' = {Extended(p, link) : link \in LinksTo(turn, n)}
      /\ NextToSend(turn, n, p)
      /\ UNCHANGED <<now, stage, turn, store, counts, segments>>
  BY DEF Disseminate
<1>2. /\ turn \in AS /\ p \in Path /\ Len(p) \in Nat /\ Len(p) >= 1
      /\ b \in Beacon /\ Segment(p, turn)
  BY StoredPath DEF IInv, Types, PathsAreSegments
<1>3. b.is_valid /\ ~Visits(p, n) /\ <<n, p>> \notin advertised
  BY <1>1 DEF NextToSend, Sendable
<1>4. /\ b.initiation + Len(p) * beaconing_period <= now
      /\ b.expiration > now
      /\ b.initiation \in Nat /\ b.expiration \in Nat
  BY <1>1, <1>2, <1>3 DEF IInv, StoreTimes, StoredTimes, Beacon
<1>5. ASSUME NEW m \in wire'
      PROVE  /\ m \in Message
             /\ Segment(m.path, n) /\ Receiver(m.path) = n
             /\ Last(m.path) \in Links /\ Last(m.path).from = turn /\ Last(m.path).to = n
             /\ Len(m.path) = Len(p) + 1 /\ Prefix(m.path) = p
             /\ m.initiation = b.initiation /\ m.expiration = b.expiration
  <2>1. PICK link \in LinksTo(turn, n) : m = Extended(p, link)
    BY <1>1
  <2>2. /\ link \in Links /\ link.from = turn /\ link.to = n
        /\ link.relation = Relation(turn)
    BY <2>1 DEF LinksTo
  <2>3. /\ m.path = Append(p, link)
        /\ m.initiation = b.initiation /\ m.expiration = b.expiration
        /\ m = [path |-> Append(p, link), initiation |-> b.initiation,
                expiration |-> b.expiration]
    BY <2>1, <2>2 DEF Extended
  <2>4. /\ Append(p, link) \in Path
        /\ Len(Append(p, link)) = Len(p) + 1
        /\ Last(Append(p, link)) = link
        /\ Receiver(Append(p, link)) = link.to
        /\ Prefix(Append(p, link)) = p
    BY <1>2, <2>2, AppendFacts
  <2>5. Segment(Append(p, link), link.to)
    BY <1>2, <1>3, <2>2, SegmentExtends
  <2>6. m \in Message
    BY <2>3, <2>4, <1>4 DEF Message
  <2> QED
    BY <2>2, <2>3, <2>4, <2>5, <2>6
<1>6. Types'
  <2>1. wire' \subseteq Message
    BY <1>5
  <2>2. advertised' \subseteq AS \X Path
    BY <1>1, <1>2 DEF IInv, Types
  <2> QED
    BY <1>1, <2>1, <2>2 DEF IInv, Types
<1>7. PathsAreSegments' /\ Counted'
  BY <1>1, SameStore
<1>8. WirePaths'
  BY <1>1, <1>5 DEF WirePaths, Sending, Message
<1>9. WireTimes'
  <2> SUFFICES ASSUME NEW m \in wire'
               PROVE  /\ m.initiation + (Len(m.path) - 1) * beaconing_period <= now
                      /\ m.expiration > now
                      /\ Len(m.path) # 1
                      /\ <<Receiver(m.path), Prefix(m.path)>> \in advertised'
                      /\ Prefix(m.path) \in DOMAIN store[turn]
                      /\ m.initiation = store[turn][Prefix(m.path)].initiation
                      /\ m.expiration = store[turn][Prefix(m.path)].expiration
    BY <1>1 DEF WireTimes
  <2>0. Len(m.path) = Len(p) + 1
    BY <1>5
  <2>1. Len(m.path) - 1 = Len(p) /\ Len(m.path) # 1
    BY <1>2, <2>0
  <2>2. m.initiation + (Len(m.path) - 1) * beaconing_period <= now
    BY <1>4, <1>5, <2>1
  <2>3. /\ Receiver(m.path) = n /\ Prefix(m.path) = p
        /\ m.initiation = b.initiation /\ m.expiration = b.expiration
    BY <1>5
  <2> QED
    BY <1>1, <1>4, <2>1, <2>2, <2>3
<1>10. StoreTimes'
  <2> SUFFICES ASSUME NEW a \in AS, NEW q \in DOMAIN store[a]
               PROVE  StoredTimes(a, q, store[a][q])'
    BY <1>1 DEF StoreTimes
  <2>1. StoredTimes(a, q, store[a][q])
    BY DEF IInv, StoreTimes
  <2>2. SentThisPeriod(q, a) => SentThisPeriod(q, a)'
    BY <1>1 DEF SentThisPeriod, Sending
  <2>3. Upstream(q, store[a][q]) => Upstream(q, store[a][q])'
    BY <1>1 DEF Upstream
  <2> QED
    BY <1>1, <2>1, <2>2, <2>3 DEF StoredTimes
<1>11. ReceivedOnce'
  <2> SUFFICES ASSUME NEW m \in wire', m.path \in DOMAIN store[n], store[n][m.path].is_new
               PROVE  FALSE
    BY <1>1, <1>5 DEF ReceivedOnce
  <2>1. SentThisPeriod(m.path, n)
    BY DEF IInv, StoreTimes, StoredTimes
  <2>2. turn \in Int
    BY <1>2 DEF AS
  <2> QED
    BY <1>1, <1>2, <1>3, <1>5, <2>1, <2>2 DEF SentThisPeriod, Sending
<1>12. Registered'
  BY <1>1 DEF IInv, Registered, RegisteredAt
<1> QED
  BY <1>6, <1>7, <1>8, <1>9, <1>10, <1>11, <1>12 DEF IInv

LEMMA InitiateInv ==
  ASSUME IInv, Initiate
  PROVE  IInv'
<1>1. /\ stage = "disseminate" /\ wire = {} /\ stage' = "initiate"
      /\ wire' = {Originated(link) : link \in {l \in Links : l.from = turn /\ turn \in CoreAses}}
      /\ UNCHANGED <<now, turn, advertised, store, counts, segments>>
  BY DEF Initiate
<1>2. turn \in AS /\ now \in Nat
  BY DEF IInv, Types
<1>3. /\ expiration_period \in Nat /\ now + expiration_period \in Nat
      /\ now + expiration_period > now
  BY <1>2, BeaconingAssumption
<1>4. ASSUME NEW m \in wire'
      PROVE  /\ m \in Message
             /\ Segment(m.path, Receiver(m.path)) /\ Receiver(m.path) \in AS
             /\ Last(m.path) \in Links /\ Last(m.path).from = turn
             /\ Last(m.path).to = Receiver(m.path)
             /\ Len(m.path) = 1
             /\ m.initiation = now /\ m.expiration = now + expiration_period
  <2>1. PICK link \in Links : link.from = turn /\ turn \in CoreAses /\ m = Originated(link)
    BY <1>1
  <2>2. /\ m = [path |-> <<link>>, initiation |-> now, expiration |-> now + expiration_period]
        /\ m.path = <<link>>
        /\ m.initiation = now /\ m.expiration = now + expiration_period
    BY <2>1 DEF Originated
  <2>3. /\ <<link>> \in Path /\ Len(<<link>>) = 1
        /\ Last(<<link>>) = link /\ Receiver(<<link>>) = link.to
    BY OneLinkFacts
  <2>4. Segment(<<link>>, link.to) /\ link.to \in AS
    BY <2>1, SegmentBegins, LinkFacts
  <2>5. m \in Message
    BY <1>2, <1>3, <2>2, <2>3 DEF Message
  <2> QED
    BY <2>1, <2>2, <2>3, <2>4, <2>5
<1>5. Types'
  <2>1. wire' \subseteq Message
    BY <1>4
  <2> QED
    BY <1>1, <2>1 DEF IInv, Types
<1>6. PathsAreSegments' /\ Counted'
  BY <1>1, SameStore
<1>7. WirePaths'
  BY <1>1, <1>4 DEF WirePaths, Sending, Message
<1>8. WireTimes'
  <2> SUFFICES ASSUME NEW m \in wire'
               PROVE  /\ m.initiation + (Len(m.path) - 1) * beaconing_period <= now
                      /\ m.expiration > now
                      /\ Len(m.path) = 1
                      /\ m.initiation = now /\ m.expiration = now + expiration_period
    BY <1>1 DEF WireTimes
  <2>1. Len(m.path) = 1 /\ m.initiation = now /\ m.expiration = now + expiration_period
    BY <1>4
  <2>2. (Len(m.path) - 1) * beaconing_period = 0
    BY <2>1, BeaconingAssumption
  <2> QED
    BY <1>2, <1>3, <2>1, <2>2
<1>9. StoreTimes'
  <2> SUFFICES ASSUME NEW a \in AS, NEW q \in DOMAIN store[a]
               PROVE  StoredTimes(a, q, store[a][q])'
    BY <1>1 DEF StoreTimes
  <2>1. StoredTimes(a, q, store[a][q])
    BY DEF IInv, StoreTimes
  <2>2. SentThisPeriod(q, a) => SentThisPeriod(q, a)'
    BY <1>1 DEF SentThisPeriod, Sending
  <2>3. Upstream(q, store[a][q]) => Upstream(q, store[a][q])'
    BY <1>1 DEF Upstream
  <2> QED
    BY <1>1, <2>1, <2>2, <2>3 DEF StoredTimes
<1>10. ReceivedOnce'
  <2> SUFFICES ASSUME NEW m \in wire', m.path \in DOMAIN store[Receiver(m.path)],
                      store[Receiver(m.path)][m.path].is_new
               PROVE  FALSE
    BY <1>1 DEF ReceivedOnce
  <2> DEFINE a == Receiver(m.path)
  <2>1. a \in AS /\ Len(m.path) = 1 /\ Last(m.path).from = turn
    BY <1>4
  <2>2. SentThisPeriod(m.path, a)
    BY <2>1 DEF IInv, StoreTimes, StoredTimes
  <2>3. turn \in Int
    BY <1>2 DEF AS
  <2> QED
    BY <1>1, <2>1, <2>2, <2>3 DEF SentThisPeriod, Sending
<1>11. Registered'
  BY <1>1 DEF IInv, Registered, RegisteredAt
<1> QED
  BY <1>5, <1>6, <1>7, <1>8, <1>9, <1>10, <1>11 DEF IInv

LEMMA NextAsInv ==
  ASSUME IInv, NextAs
  PROVE  IInv'
<1>1. /\ stage = "initiate" /\ wire = {} /\ wire' = {} /\ advertised' = {}
      /\ UNCHANGED <<now, store, counts, segments>>
      /\ \/ turn + 1 < NumAses /\ turn' = turn + 1 /\ stage' = "disseminate"
         \/ turn' = turn /\ stage' = "register"
  BY DEF NextAs
<1>2. turn \in 0 .. NumAses - 1 /\ NumAses \in Nat
  BY BeaconingAssumption DEF IInv, Types, AS
<1>3. turn' \in AS
  BY <1>1, <1>2 DEF AS
<1>4. Types'
  BY <1>1, <1>3 DEF IInv, Types
<1>5. PathsAreSegments' /\ Counted'
  BY <1>1, SameStore
<1>6. WirePaths' /\ WireTimes' /\ ReceivedOnce'
  BY <1>1 DEF WirePaths, WireTimes, ReceivedOnce
<1>7. StoreTimes'
  <2> SUFFICES ASSUME NEW a \in AS, NEW q \in DOMAIN store[a]
               PROVE  StoredTimes(a, q, store[a][q])'
    BY <1>1 DEF StoreTimes
  <2>1. StoredTimes(a, q, store[a][q])
    BY DEF IInv, StoreTimes
  <2>2. Last(q) \in Links /\ Last(q).from \in 0 .. NumAses - 1
    BY StoredPath, LinkFacts DEF IInv, AS
  <2>3. ASSUME SentThisPeriod(q, a) PROVE SentThisPeriod(q, a)'
    <3>1. CASE stage' = "register"
      BY <3>1 DEF SentThisPeriod, Sending
    <3>2. CASE turn' = turn + 1
      <4>1. Last(q).from < turn \/ Last(q).from = turn
        BY <1>1, <2>3 DEF SentThisPeriod, Sending
      <4>2. Last(q).from < turn'
        BY <1>2, <2>2, <3>2, <4>1
      <4> QED
        BY <4>2 DEF SentThisPeriod, Last
    <3> QED
      BY <1>1, <3>1, <3>2
  <2>4. Upstream(q, store[a][q]) => Upstream(q, store[a][q])'
    BY <1>1 DEF Upstream
  <2> QED
    BY <1>1, <2>1, <2>3, <2>4 DEF StoredTimes
<1>8. Registered'
  BY <1>1 DEF IInv, Registered, RegisteredAt
<1> QED
  BY <1>4, <1>5, <1>6, <1>7, <1>8 DEF IInv

LEMMA RegisterInv ==
  ASSUME IInv, RegisterToLocalPathServer
  PROVE  IInv'
<1>1. /\ stage = "register" /\ stage' = "update"
      /\ segments' = [a \in AS |-> RegisteredSegments(a)]
      /\ UNCHANGED <<now, turn, advertised, wire, store, counts>>
  BY DEF RegisterToLocalPathServer
<1>2. wire = {} /\ wire' = {}
  BY <1>1 DEF IInv, WirePaths, Sending
<1>3. ASSUME NEW a \in AS
      PROVE  /\ segments'[a] = [path \in DOMAIN segments'[a] |-> segments'[a][path]]
             /\ \A path \in DOMAIN store[a] :
                  /\ store[a][path].is_new =>
                       /\ path \in DOMAIN segments'[a]
                       /\ segments'[a][path] = [initiation |-> store[a][path].next_initiation,
                                                expiration |-> store[a][path].next_expiration]
                  /\ ~store[a][path].is_new /\ path \in DOMAIN segments[a] =>
                       /\ path \in DOMAIN segments'[a]
                       /\ segments'[a][path] = segments[a][path]
             /\ \A path \in DOMAIN segments'[a] :
                  /\ path \in Path /\ segments'[a][path] \in Times
  <2>1. segments'[a] = RegisteredSegments(a)
    BY <1>1
  <2>2. \A path \in DOMAIN segments'[a] :
          \/ /\ path \in DOMAIN store[a] /\ store[a][path].is_new
             /\ segments'[a][path] = [initiation |-> store[a][path].next_initiation,
                                      expiration |-> store[a][path].next_expiration]
          \/ path \in DOMAIN segments[a] /\ segments'[a][path] = segments[a][path]
    BY <2>1 DEF RegisteredSegments, Stored
  <2>3. \A path \in DOMAIN segments'[a] : path \in Path /\ segments'[a][path] \in Times
    <3>1. \A path \in DOMAIN store[a] :
            /\ path \in Path
            /\ [initiation |-> store[a][path].next_initiation,
                expiration |-> store[a][path].next_expiration] \in Times
      BY DEF IInv, Types, Beacon, Times
    <3>2. \A path \in DOMAIN segments[a] : path \in Path /\ segments[a][path] \in Times
      BY DEF IInv, Types
    <3> QED
      BY <2>2, <3>1, <3>2
  <2>4. segments'[a] = [path \in DOMAIN segments'[a] |-> segments'[a][path]]
    BY <2>1 DEF RegisteredSegments
  <2> QED
    BY <2>1, <2>3, <2>4 DEF RegisteredSegments, Stored
<1>4. Types'
  <2>1. segments' = [a \in AS |-> segments'[a]]
    BY <1>1
  <2>2. segments' = [a \in AS |-> [path \in DOMAIN segments'[a] |-> segments'[a][path]]]
    BY <1>3, <2>1
  <2> QED
    BY <1>1, <1>3, <2>2 DEF IInv, Types
<1>5. PathsAreSegments' /\ Counted'
  BY <1>1, SameStore
<1>6. WirePaths' /\ WireTimes' /\ ReceivedOnce'
  BY <1>2 DEF WirePaths, WireTimes, ReceivedOnce
<1>7. StoreTimes'
  <2> SUFFICES ASSUME NEW a \in AS, NEW q \in DOMAIN store[a]
               PROVE  StoredTimes(a, q, store[a][q])'
    BY <1>1 DEF StoreTimes
  <2>1. StoredTimes(a, q, store[a][q])
    BY DEF IInv, StoreTimes
  <2>2. SentThisPeriod(q, a)'
    BY <1>1 DEF SentThisPeriod, Sending
  <2>3. Upstream(q, store[a][q]) => Upstream(q, store[a][q])'
    BY <1>1 DEF Upstream
  <2> QED
    BY <1>1, <2>1, <2>2, <2>3 DEF StoredTimes
<1>8. Registered'
  <2> SUFFICES ASSUME NEW a \in AS, NEW q \in DOMAIN store[a]
               PROVE  RegisteredAt(a, q, store[a][q])'
    BY <1>1 DEF Registered
  <2>1. RegisteredAt(a, q, store[a][q])
    BY DEF IInv, Registered
  <2>2. CASE store[a][q].is_new
    BY <1>1, <1>3, <2>2 DEF RegisteredAt
  <2>3. CASE ~store[a][q].is_new
    BY <1>1, <1>3, <2>1, <2>3 DEF RegisteredAt
  <2> QED
    BY <2>2, <2>3
<1> QED
  BY <1>4, <1>5, <1>6, <1>7, <1>8 DEF IInv

LEMMA NextPeriodInv ==
  ASSUME IInv, UpdateStateBeforeBeaconing
  PROVE  IInv'
<1>1. /\ stage = "idle" /\ stage' = "disseminate" /\ turn' = 0
      /\ now' = now + beaconing_period /\ now' <= last_beaconing
      /\ UNCHANGED <<advertised, wire, store, counts, segments>>
  BY DEF UpdateStateBeforeBeaconing, next_period
<1>2. wire = {} /\ wire' = {}
  BY <1>1 DEF IInv, WirePaths, Sending
<1>3. now \in Nat /\ beaconing_period \in Nat /\ now' \in Nat
  BY <1>1, BeaconingAssumption DEF IInv, Types
<1>4. Types'
  <2>1. turn' \in AS
    BY <1>1, BeaconingAssumption DEF AS
  <2> QED
    BY <1>1, <1>3, <2>1 DEF IInv, Types
<1>5. PathsAreSegments' /\ Counted'
  BY <1>1, SameStore
<1>6. WirePaths' /\ WireTimes' /\ ReceivedOnce'
  BY <1>2 DEF WirePaths, WireTimes, ReceivedOnce
<1>7. StoreTimes'
  <2> SUFFICES ASSUME NEW a \in AS, NEW q \in DOMAIN store[a]
               PROVE  StoredTimes(a, q, store[a][q])'
    BY <1>1 DEF StoreTimes
  <2> DEFINE b == store[a][q]
             t == Len(q) * beaconing_period
             s == (Len(q) - 1) * beaconing_period
  <2>1. StoredTimes(a, q, b)
    BY DEF IInv, StoreTimes
  <2>2. b \in Beacon /\ Len(q) \in Nat
    BY StoredPath DEF IInv
  <2>3. t = s + beaconing_period /\ s \in Int
    BY <2>2, Periods
  <2>4. b.initiation \in Nat /\ b.next_initiation \in Nat /\ b.expiration \in Nat
    BY <2>2 DEF Beacon
  <2>5. /\ ~b.is_new
        /\ b.initiation <= b.next_initiation
        /\ b.next_initiation + s <= now
        /\ b.is_valid => b.initiation + s <= now /\ b.expiration > now'
        /\ Upstream(q, b)
    BY <1>1, <2>1 DEF StoredTimes, next_period
  <2>6. Upstream(q, b)'
    BY <1>1, <2>5 DEF Upstream
  <2>7. /\ b.next_initiation + s <= now'
        /\ b.is_valid => b.initiation + t <= now'
    <3> HIDE DEF s, t, b
    <3> QED
      BY <1>1, <1>3, <2>3, <2>4, <2>5
  <2> QED
    BY <1>1, <2>5, <2>6, <2>7 DEF StoredTimes
<1>8. Registered'
  BY <1>1 DEF IInv, Registered, RegisteredAt
<1> QED
  BY <1>4, <1>5, <1>6, <1>7, <1>8 DEF IInv

LEMMA UpdateStep ==
  ASSUME Types, UpdateStatePeriodic
  PROVE  /\ store' = [a \in AS |-> [path \in DOMAIN store'[a] |-> store'[a][path]]]
         /\ \A a \in AS :
              /\ DOMAIN store'[a] = DOMAIN store[a]
              /\ \A path \in DOMAIN store[a] : store'[a][path] = Updated(store[a][path])
BY DEF UpdateStatePeriodic, Types

\* What has been waiting under is_new is valid or ends: the two counts come
\* together.
LEMMA UpdateCounts ==
  ASSUME IInv, UpdateStatePeriodic
  PROVE  Counted'
<1>1. /\ stage = "update" /\ now \in Nat
      /\ valid_count' = [a \in AS |-> [d \in AS |->
           valid_count[a][d] + Cardinality(Started(a, d)) - Cardinality(Ended(a, d))]]
      /\ next_count' = [a \in AS |-> [d \in AS |->
           next_count[a][d] - Cardinality(Ended(a, d))]]
  BY DEF UpdateStatePeriodic, IInv, Types
<1>2. \A a \in AS : /\ DOMAIN store'[a] = DOMAIN store[a]
                    /\ \A path \in DOMAIN store[a] : store'[a][path] = Updated(store[a][path])
  BY UpdateStep DEF IInv
<1>3. ASSUME NEW a \in AS, NEW d \in AS
      PROVE  /\ Cardinality(ValidOf(a, d)') =
                  Cardinality(ValidOf(a, d)) + Cardinality(Started(a, d))
                    - Cardinality(Ended(a, d))
             /\ Cardinality(ComingOf(a, d)') =
                  Cardinality(ComingOf(a, d)) - Cardinality(Ended(a, d))
  <2> DEFINE V == ValidOf(a, d)
             C == ComingOf(a, d)
             St == Started(a, d)
             En == Ended(a, d)
             V2 == ValidOf(a, d)'
             C2 == ComingOf(a, d)'
  <2>1. ASSUME NEW q \in DOMAIN store[a]
        PROVE  LET b == store[a][q]
               IN  /\ b \in Beacon
                   /\ b.is_new => TakesOver(b)
                   /\ TakesOver(b) => b.is_new
                   /\ ~store'[a][q].is_new
                   /\ store'[a][q].is_valid = ((TakesOver(b) \/ b.is_valid) /\ ~Ends(b))
                   /\ Ends(b) => (TakesOver(b) \/ b.is_valid)
    <3> DEFINE b == store[a][q]
               u == store'[a][q]
    <3>1. b \in Beacon /\ u = Updated(b)
      BY <1>2 DEF IInv, Types
    <3>2. b.is_new <=> TakesOver(b)
      BY DEF IInv, StoreTimes, StoredTimes, TakesOver
    <3>3. /\ ~u.is_new
          /\ u.is_valid = ((TakesOver(b) \/ b.is_valid) /\ ~Ends(b))
          /\ Ends(b) = ((TakesOver(b) \/ b.is_valid) /\ u.expiration <= next_period)
      BY <1>1, <3>1, UpdatedFields
    <3> QED
      BY <3>1, <3>2, <3>3
  <2>2. OfOrigin(a, d)' = OfOrigin(a, d) /\ OfOrigin(a, d) \subseteq DOMAIN store[a]
    BY <1>2 DEF OfOrigin
  <2>3. /\ V = {q \in OfOrigin(a, d) : store[a][q].is_valid}
        /\ C = {q \in OfOrigin(a, d) : store[a][q].is_valid \/ store[a][q].is_new}
        /\ St = {q \in OfOrigin(a, d) : TakesOver(store[a][q]) /\ ~store[a][q].is_valid}
        /\ En = {q \in OfOrigin(a, d) : Ends(store[a][q])}
        /\ V2 = {q \in OfOrigin(a, d) : store'[a][q].is_valid}
        /\ C2 = {q \in OfOrigin(a, d) : store'[a][q].is_valid \/ store'[a][q].is_new}
    BY <2>2 DEF ValidOf, ComingOf, Started, Ended
  <2>4. /\ V \cap St = {} /\ C = V \cup St /\ En \subseteq V \cup St
        /\ V2 = (V \cup St) \ En /\ C2 = C \ En
    BY <2>1, <2>2, <2>3
  <2>5. /\ V \subseteq DOMAIN store[a] /\ C \subseteq DOMAIN store[a]
        /\ St \subseteq DOMAIN store[a] /\ En \subseteq DOMAIN store[a]
    BY <2>2, <2>3
  <2>6. IsFiniteSet(DOMAIN store[a])
    BY DEF IInv, Counted
  <2> HIDE DEF V, C, St, En, V2, C2
  <2>7. /\ IsFiniteSet(V) /\ IsFiniteSet(C) /\ IsFiniteSet(St) /\ IsFiniteSet(En)
        /\ IsFiniteSet(V \cup St)
    BY <2>4, <2>5, <2>6, FS_Subset
  <2>8. Cardinality(V \cup St) = Cardinality(V) + Cardinality(St)
    <3>1. Cardinality(V \cup St) = Cardinality(V) + Cardinality(St) - Cardinality(V \cap St)
      BY <2>7, FS_Union
    <3>2. Cardinality(V \cap St) = 0
      BY <2>4, FS_EmptySet
    <3>3. Cardinality(V) \in Nat /\ Cardinality(St) \in Nat
      BY <2>7, FS_CardinalityType
    <3> QED
      BY <3>1, <3>2, <3>3
  <2>9. Cardinality((V \cup St) \ En) = Cardinality(V \cup St) - Cardinality(En)
    <3>1. (V \cup St) \cap En = En
      BY <2>4
    <3>2. Cardinality((V \cup St) \ En)
            = Cardinality(V \cup St) - Cardinality((V \cup St) \cap En)
      BY <2>7, FS_Difference
    <3> QED
      BY <3>1, <3>2
  <2>10. Cardinality(V2) = Cardinality(V) + Cardinality(St) - Cardinality(En)
    <3>1. V2 = (V \cup St) \ En
      BY <2>4
    <3>2. Cardinality(V2) = Cardinality(V \cup St) - Cardinality(En)
      BY <2>9, <3>1
    <3>3. Cardinality(V) \in Nat /\ Cardinality(St) \in Nat /\ Cardinality(En) \in Nat
      BY <2>7, FS_CardinalityType
    <3> QED
      BY <2>8, <3>2, <3>3
  <2>11. Cardinality(C2) = Cardinality(C) - Cardinality(En)
    BY <2>4, <2>9
  <2> QED
    BY <2>10, <2>11 DEF V, C, St, En, V2, C2
<1>4. \A a \in AS : IsFiniteSet(DOMAIN store'[a])
  BY <1>2 DEF IInv, Counted
<1>5. /\ valid_count = [a \in AS |-> [d \in AS |-> Cardinality(ValidOf(a, d))]]
      /\ next_count = [a \in AS |-> [d \in AS |-> Cardinality(ComingOf(a, d))]]
  BY DEF IInv, Counted
<1>6. \A a, d \in AS : /\ valid_count[a][d] = Cardinality(ValidOf(a, d))
                       /\ next_count[a][d] = Cardinality(ComingOf(a, d))
  BY <1>5
<1>7. valid_count' = [a \in AS |-> [d \in AS |-> Cardinality(ValidOf(a, d)')]]
  BY <1>1, <1>3, <1>6
<1>8. next_count' = [a \in AS |-> [d \in AS |-> Cardinality(ComingOf(a, d)')]]
  BY <1>1, <1>3, <1>6
<1> QED
  BY <1>4, <1>7, <1>8 DEF Counted

LEMMA UpdateInv ==
  ASSUME IInv, UpdateStatePeriodic
  PROVE  IInv'
<1>1. /\ stage = "update" /\ stage' = "idle"
      /\ UNCHANGED <<now, turn, advertised, wire, segments>>
  BY DEF UpdateStatePeriodic
<1>2. wire = {} /\ wire' = {}
  BY <1>1 DEF IInv, WirePaths, Sending
<1>3. /\ store' = [a \in AS |-> [path \in DOMAIN store'[a] |-> store'[a][path]]]
      /\ \A a \in AS :
           /\ DOMAIN store'[a] = DOMAIN store[a]
           /\ \A path \in DOMAIN store[a] : store'[a][path] = Updated(store[a][path])
  BY UpdateStep DEF IInv
<1>4. now \in Nat /\ beaconing_period \in Nat /\ next_period \in Nat /\ next_period >= now
  BY BeaconingAssumption DEF IInv, Types, next_period
<1>5. ASSUME NEW a \in AS, NEW q \in DOMAIN store[a]
      PROVE  LET b == store[a][q]
                 u == store'[a][q]
             IN  /\ b \in Beacon /\ u \in Beacon
                 /\ u.next_initiation = b.next_initiation
                 /\ u.next_expiration = b.next_expiration
                 /\ ~u.is_new
                 /\ u.initiation = IF TakesOver(b) THEN b.next_initiation ELSE b.initiation
                 /\ u.expiration = IF TakesOver(b) THEN b.next_expiration ELSE b.expiration
                 /\ u.is_valid => TakesOver(b) \/ b.is_valid
                 /\ u.is_valid => u.expiration > next_period
                 /\ TakesOver(b) <=> b.is_new
                 /\ u.initiation >= b.initiation
  <2> DEFINE b == store[a][q]
             u == store'[a][q]
  <2>1. b \in Beacon /\ u = Updated(b)
    BY <1>3 DEF IInv, Types
  <2>2. /\ u \in Beacon
        /\ u.next_initiation = b.next_initiation /\ u.next_expiration = b.next_expiration
        /\ ~u.is_new
        /\ u.initiation = IF TakesOver(b) THEN b.next_initiation ELSE b.initiation
        /\ u.expiration = IF TakesOver(b) THEN b.next_expiration ELSE b.expiration
        /\ u.is_valid = ((TakesOver(b) \/ b.is_valid) /\ ~Ends(b))
        /\ Ends(b) = ((TakesOver(b) \/ b.is_valid) /\ u.expiration <= next_period)
    BY <1>4, <2>1, UpdatedFields
  <2>3. StoredTimes(a, q, b)
    BY DEF IInv, StoreTimes
  <2>4. TakesOver(b) <=> b.is_new
    BY <2>3 DEF StoredTimes, TakesOver
  <2>5. /\ b.initiation <= b.next_initiation
        /\ b.initiation \in Nat /\ b.next_initiation \in Nat
    BY <2>1, <2>3 DEF StoredTimes, Beacon
  <2>6. u.initiation >= b.initiation
    BY <2>2, <2>5
  <2>7. u.expiration \in Nat
    BY <2>2 DEF Beacon
  <2>8. u.is_valid => (TakesOver(b) \/ b.is_valid) /\ ~(u.expiration <= next_period)
    BY <2>2
  <2>9. u.is_valid => u.expiration > next_period
    BY <1>4, <2>7, <2>8
  <2> QED
    BY <2>1, <2>2, <2>4, <2>6, <2>8, <2>9
<1>6. Types'
  <2>1. \A a \in AS : \A path \in DOMAIN store'[a] :
          path \in Path /\ store'[a][path] \in Beacon
    BY <1>3, <1>5 DEF IInv, Types
  <2> QED
    BY <1>1, <1>3, <2>1 DEF IInv, Types
<1>7. PathsAreSegments'
  BY <1>3 DEF IInv, PathsAreSegments, Segment
<1>8. WirePaths' /\ WireTimes' /\ ReceivedOnce'
  BY <1>2 DEF WirePaths, WireTimes, ReceivedOnce
<1>9. StoreTimes'
  <2> SUFFICES ASSUME NEW a \in AS, NEW q \in DOMAIN store[a]
               PROVE  StoredTimes(a, q, store[a][q])'
    BY <1>3 DEF StoreTimes
  <2> DEFINE b == store[a][q]
             u == store'[a][q]
             t == Len(q) * beaconing_period
             s == (Len(q) - 1) * beaconing_period
  <2>1. /\ b \in Beacon /\ u \in Beacon
        /\ u.next_initiation = b.next_initiation
        /\ ~u.is_new
        /\ u.initiation = IF TakesOver(b) THEN b.next_initiation ELSE b.initiation
        /\ u.is_valid => TakesOver(b) \/ b.is_valid
        /\ u.is_valid => u.expiration > next_period
    BY <1>5
  <2>2. /\ b.initiation <= b.next_initiation
        /\ b.next_initiation + s <= now
        /\ b.is_valid => b.initiation + t <= now
        /\ Upstream(q, b)
    BY <1>1 DEF IInv, StoreTimes, StoredTimes
  <2>3. b.initiation \in Nat /\ b.next_initiation \in Nat
    BY <2>1 DEF Beacon
  <2>4. t = s + beaconing_period /\ s \in Int
    BY StoredPath, Periods DEF IInv
  <2>5. u.initiation <= u.next_initiation
    BY <2>1, <2>2, <2>3
  <2>6. u.is_valid => u.initiation + s <= now
    <3> HIDE DEF b, u, s, t
    <3> QED
      BY <1>4, <2>1, <2>2, <2>3, <2>4
  <2>7. ASSUME Len(q) # 1
        PROVE  /\ Last(q) \in Links
               /\ Prefix(q) \in DOMAIN store'[Last(q).from]
               /\ u.next_initiation <= store'[Last(q).from][Prefix(q)].initiation
    <3> DEFINE c == Last(q).from
               p == Prefix(q)
    <3>1. /\ Last(q) \in Links /\ p \in DOMAIN store[c]
          /\ b.next_initiation <= store[c][p].initiation
      BY <2>2, <2>7 DEF Upstream
    <3>2. c \in AS
      BY <3>1, LinkFacts
    <3>3. /\ p \in DOMAIN store'[c]
          /\ store'[c][p].initiation >= store[c][p].initiation
          /\ store'[c][p] \in Beacon /\ store[c][p] \in Beacon
      BY <1>3, <1>5, <3>1, <3>2
    <3>4. store'[c][p].initiation \in Nat /\ store[c][p].initiation \in Nat
      BY <3>3 DEF Beacon
    <3>5. u.next_initiation = b.next_initiation
      BY <2>1
    <3> HIDE DEF c, p, b, u
    <3>6. u.next_initiation <= store'[c][p].initiation
      BY <2>3, <3>1, <3>3, <3>4, <3>5
    <3> QED
      BY <3>1, <3>3, <3>6 DEF c, p
  <2>8. Upstream(q, store[a][q])'
    BY <2>7 DEF Upstream, Last, Prefix
  <2>9. u.next_initiation + s <= now
    BY <2>1, <2>2
  <2> QED
    BY <1>1, <2>1, <2>5, <2>6, <2>8, <2>9 DEF StoredTimes, next_period
<1>10. Registered'
  <2> SUFFICES ASSUME NEW a \in AS, NEW q \in DOMAIN store[a]
               PROVE  RegisteredAt(a, q, store[a][q])'
    BY <1>3 DEF Registered
  <2>1. RegisteredAt(a, q, store[a][q])
    BY DEF IInv, Registered
  <2> QED
    BY <1>1, <1>5, <2>1 DEF RegisteredAt
<1> QED
  BY <1>6, <1>7, <1>8, <1>9, <1>10, UpdateCounts DEF IInv

\* What an AS knows of a path is refreshed, not lost, by a reception.
LEMMA ReceiveKeeps ==
  ASSUME IInv, NEW m \in wire, ReceiveBeacon(m)
  PROVE  \A c \in AS : \A q \in DOMAIN store[c] :
           LET b == store[c][q]
               u == store'[c][q]
           IN  /\ q \in DOMAIN store'[c]
               /\ u.initiation = b.initiation /\ u.expiration = b.expiration
               /\ u.is_valid = b.is_valid
               /\ b.is_new => u.is_new
               /\ (c = Receiver(m.path) /\ q = m.path) \/ u = b
<1>0. Types /\ WirePaths
  BY DEF IInv
<1> PICK a \in AS : a = Receiver(m.path)
  BY DEF IInv, WirePaths
<1>e. ReceiveEffect(m, a)
  BY <1>0, ReceiveStep
<1>1. /\ a \in AS /\ m \in Message
      /\ \A c \in AS : DOMAIN store[c] \subseteq DOMAIN store'[c]
      /\ \A c \in AS \ {a} : store'[c] = store[c]
      /\ \A q \in DOMAIN store'[a] :
           \/ Kept(a, q)
           \/ q = m.path /\ q \in DOMAIN store[a] /\ store'[a][q] = Refreshed(a, m)
           \/ q = m.path /\ q \notin DOMAIN store[a] /\ store'[a][q] = NewBeacon(m)
  BY <1>e DEF ReceiveEffect
<1> SUFFICES ASSUME NEW c \in AS, NEW q \in DOMAIN store[c]
             PROVE  LET b == store[c][q]
                        u == store'[c][q]
                    IN  /\ q \in DOMAIN store'[c]
                        /\ u.initiation = b.initiation /\ u.expiration = b.expiration
                        /\ u.is_valid = b.is_valid
                        /\ b.is_new => u.is_new
                        /\ (c = a /\ q = m.path) \/ u = b
  OBVIOUS
<1>2. q \in DOMAIN store'[c]
  BY <1>1
<1>3. CASE store'[c][q] = store[c][q]
  BY <1>2, <1>3
<1>4. CASE c = a /\ q = m.path /\ store'[a][q] = Refreshed(a, m)
  <2>1. /\ store'[c][q].initiation = store[c][q].initiation
        /\ store'[c][q].expiration = store[c][q].expiration
        /\ store'[c][q].is_new /\ store'[c][q].is_valid = store[c][q].is_valid
    BY <1>1, <1>4, ReceivedFields DEF IInv
  <2> QED
    BY <1>2, <1>4, <2>1
<1> QED
  BY <1>1, <1>2, <1>3, <1>4 DEF Kept

\* A beacon that is neither valid nor new starts to count when it is received.
LEMMA ReceiveCounts ==
  ASSUME IInv, NEW m \in wire, ReceiveBeacon(m)
  PROVE  Counted'
<1>0. Types /\ WirePaths
  BY DEF IInv
<1> PICK a \in AS : a = Receiver(m.path)
  BY DEF IInv, WirePaths
<1>e. ReceiveEffect(m, a)
  BY <1>0, ReceiveStep
<1> DEFINE o == Origin(m.path)
<1>1. /\ a \in AS /\ m \in Message
      /\ \A c \in AS \ {a} : store'[c] = store[c]
      /\ \A q \in DOMAIN store'[a] :
           \/ Kept(a, q)
           \/ q = m.path /\ q \in DOMAIN store[a] /\ store'[a][q] = Refreshed(a, m)
           \/ q = m.path /\ q \notin DOMAIN store[a] /\ store'[a][q] = NewBeacon(m)
      /\ \/ store' = store /\ next_count' = next_count
         \/ /\ DOMAIN store'[a] = DOMAIN store[a] \union {m.path}
            /\ store'[a][m.path] = IF Stored(a, m.path) THEN Refreshed(a, m) ELSE NewBeacon(m)
            /\ next_count' = IF CountedAlready(a, m.path) THEN next_count
                             ELSE [next_count EXCEPT ![a][o] = @ + 1]
  BY <1>e DEF ReceiveEffect
<1>2. /\ valid_count' = valid_count
      /\ valid_count = [c \in AS |-> [d \in AS |-> Cardinality(ValidOf(c, d))]]
      /\ next_count = [c \in AS |-> [d \in AS |-> Cardinality(ComingOf(c, d))]]
      /\ \A c \in AS : IsFiniteSet(DOMAIN store[c])
  BY DEF ReceiveBeacon, IInv, Counted
<1>3. o \in AS
  BY BeaconingAssumption DEF IInv, WirePaths, Segment
<1>4. \A c \in AS : \A q \in DOMAIN store[c] :
        /\ q \in DOMAIN store'[c]
        /\ store'[c][q].is_valid = store[c][q].is_valid
        /\ store[c][q].is_new => store'[c][q].is_new
        /\ (c = a /\ q = m.path) \/ store'[c][q] = store[c][q]
  BY ReceiveKeeps
<1>5. NewBeacon(m).is_new /\ ~NewBeacon(m).is_valid
  BY <1>1, ReceivedFields DEF IInv
<1>6. \A c \in AS : IsFiniteSet(DOMAIN store'[c])
  <2>1. IsFiniteSet(DOMAIN store[a] \union {m.path})
    BY <1>1, <1>2, FS_AddElement
  <2>2. \A c \in AS : DOMAIN store'[c] = DOMAIN store[c] \/ c = a
    BY <1>1
  <2>3. IsFiniteSet(DOMAIN store'[a])
    BY <1>1, <1>2, <2>1
  <2> QED
    BY <1>2, <2>2, <2>3
<1>7. \A c, d \in AS : ValidOf(c, d)' = ValidOf(c, d)
  <2> SUFFICES ASSUME NEW c \in AS, NEW d \in AS
               PROVE  {q \in DOMAIN store'[c] : Origin(q) = d /\ store'[c][q].is_valid}
                        = {q \in DOMAIN store[c] : Origin(q) = d /\ store[c][q].is_valid}
    BY DEF ValidOf, OfOrigin, Origin
  <2>1. \A q \in DOMAIN store'[c] : store'[c][q].is_valid => q \in DOMAIN store[c]
    BY <1>1, <1>5 DEF Kept
  <2> QED
    BY <1>4, <2>1
<1>8. valid_count' = [c \in AS |-> [d \in AS |-> Cardinality(ValidOf(c, d)')]]
  BY <1>2, <1>7
<1>9. next_count' = [c \in AS |-> [d \in AS |-> Cardinality(ComingOf(c, d)')]]
  <2>1. CASE store' = store /\ next_count' = next_count
    BY <1>2, <2>1 DEF ComingOf, OfOrigin
  <2>2. CASE /\ DOMAIN store'[a] = DOMAIN store[a] \union {m.path}
             /\ store'[a][m.path] = IF Stored(a, m.path) THEN Refreshed(a, m) ELSE NewBeacon(m)
             /\ next_count' = IF CountedAlready(a, m.path) THEN next_count
                              ELSE [next_count EXCEPT ![a][o] = @ + 1]
    <3>1. store'[a][m.path].is_new
      BY <1>1, <1>5, <2>2, ReceivedFields DEF IInv, Stored
    <3>2. ASSUME NEW c \in AS, NEW d \in AS, c # a \/ d # o
          PROVE  ComingOf(c, d)' = ComingOf(c, d)
      <4>1. \A q : q \in DOMAIN store'[c] /\ Origin(q) = d <=>
                   q \in DOMAIN store[c] /\ Origin(q) = d
        BY <1>1, <2>2, <3>2
      <4>2. \A q \in DOMAIN store[c] : Origin(q) = d => store'[c][q] = store[c][q]
        BY <1>4, <3>2
      <4> QED
        BY <4>1, <4>2 DEF ComingOf, OfOrigin, Origin
    <3>3. ComingOf(a, o)' = ComingOf(a, o) \union {m.path}
      <4>1. ComingOf(a, o)' = {q \in DOMAIN store'[a] :
               Origin(q) = o /\ (store'[a][q].is_valid \/ store'[a][q].is_new)}
        BY DEF ComingOf, OfOrigin, Origin
      <4>2. ComingOf(a, o) = {q \in DOMAIN store[a] :
               Origin(q) = o /\ (store[a][q].is_valid \/ store[a][q].is_new)}
        BY DEF ComingOf, OfOrigin
      <4>3. \A q \in DOMAIN store[a] : q # m.path => store'[a][q] = store[a][q]
        BY <1>1, <1>4
      <4> QED
        BY <1>1, <2>2, <3>1, <4>1, <4>2, <4>3
    <3>4. m.path \in ComingOf(a, o) <=> CountedAlready(a, m.path)
      BY DEF ComingOf, OfOrigin, CountedAlready, Stored, IInv, ReceivedOnce
    <3>5. IsFiniteSet(ComingOf(a, o))
      BY <1>1, <1>2, FS_Subset DEF ComingOf, OfOrigin
    <3>6. Cardinality(ComingOf(a, o)') = IF CountedAlready(a, m.path)
                                         THEN Cardinality(ComingOf(a, o))
                                         ELSE Cardinality(ComingOf(a, o)) + 1
      BY <3>3, <3>4, <3>5, FS_AddElement
    <3>7. CASE CountedAlready(a, m.path)
      <4>1. \A c, d \in AS : Cardinality(ComingOf(c, d)') = Cardinality(ComingOf(c, d))
        BY <3>2, <3>6, <3>7
      <4> QED
        BY <1>2, <2>2, <3>7, <4>1
    <3>8. CASE ~CountedAlready(a, m.path)
      <4>1. next_count' = [next_count EXCEPT ![a][o] = @ + 1]
        BY <2>2, <3>8
      <4>2. next_count' = [c \in AS |-> [d \in AS |->
              IF c = a /\ d = o THEN next_count[a][o] + 1 ELSE next_count[c][d]]]
        BY <1>1, <1>2, <1>3, <4>1
      <4>3. \A c, d \in AS : Cardinality(ComingOf(c, d)') =
              IF c = a /\ d = o THEN next_count[a][o] + 1 ELSE next_count[c][d]
        BY <1>1, <1>2, <1>3, <3>2, <3>6, <3>8
      <4> QED
        BY <4>2, <4>3
    <3> QED
      BY <3>7, <3>8
  <2> QED
    BY <1>1, <2>1, <2>2
<1> QED
  BY <1>6, <1>8, <1>9 DEF Counted

\* What is received is not older than what is already known of the path.
LEMMA ReceivesNewer ==
  ASSUME IInv, NEW m \in wire, NEW a \in AS, a = Receiver(m.path),
         m.path \in DOMAIN store[a]
  PROVE  store[a][m.path].next_initiation <= m.initiation
<1> DEFINE b == store[a][m.path]
           n == Len(m.path)
<1>1. /\ Upstream(m.path, b)
      /\ b.next_initiation + (n - 1) * beaconing_period <= now
  BY DEF IInv, StoreTimes, StoredTimes
<1>2. b.next_initiation \in Nat /\ m.initiation \in Nat
  BY DEF IInv, Types, Beacon, Message
<1>3. CASE n = 1
  <2>1. (n - 1) * beaconing_period = 0
    BY <1>3, BeaconingAssumption
  <2>2. m.initiation = now
    BY <1>3 DEF IInv, WireTimes
  <2> QED
    BY <1>1, <1>2, <2>1, <2>2
<1>4. CASE n # 1
  <2>1. Last(m.path).from = turn
    BY DEF IInv, WirePaths
  <2>2. m.initiation = store[turn][Prefix(m.path)].initiation
    BY <1>4 DEF IInv, WireTimes
  <2> QED
    BY <1>1, <1>4, <2>1, <2>2 DEF Upstream
<1> QED
  BY <1>3, <1>4

LEMMA ReceiveInv ==
  ASSUME IInv, NEW m \in wire, ReceiveBeacon(m)
  PROVE  IInv'
<1>0. Types /\ WirePaths
  BY DEF IInv
<1> PICK a \in AS : a = Receiver(m.path)
  BY DEF IInv, WirePaths
<1>e. ReceiveEffect(m, a)
  BY <1>0, ReceiveStep
<1>1. /\ m \in Message /\ m.path \in Path
      /\ store' = [c \in AS |-> store'[c]]
      /\ \A c \in AS \ {a} : store'[c] = store[c]
      /\ \A q \in DOMAIN store'[a] :
           \/ Kept(a, q)
           \/ /\ q = m.path /\ q \in DOMAIN store[a]
              /\ store'[a][q] = Refreshed(a, m)
           \/ /\ q = m.path /\ q \notin DOMAIN store[a]
              /\ store'[a][q] = NewBeacon(m)
      /\ \/ store' = store
         \/ store'[a] = [q \in DOMAIN store'[a] |-> store'[a][q]]
  BY <1>e DEF ReceiveEffect
<1>2. /\ wire' = wire \ {m}
      /\ UNCHANGED <<now, stage, turn, advertised, valid_count, segments>>
  BY DEF ReceiveBeacon
<1>3. /\ Sending /\ stage \notin {"register", "update", "idle"}
      /\ Segment(m.path, a) /\ turn \in AS /\ a # turn
      /\ Last(m.path).from = turn
  BY <1>0, LinkFacts DEF WirePaths, Sending, Types
<1>4. /\ m.initiation + (Len(m.path) - 1) * beaconing_period <= now
      /\ m.expiration > now
      /\ IF Len(m.path) = 1
         THEN /\ stage = "initiate"
              /\ m.initiation = now /\ m.expiration = now + expiration_period
         ELSE /\ stage = "disseminate"
              /\ <<a, Prefix(m.path)>> \in advertised
              /\ Prefix(m.path) \in DOMAIN store[turn]
              /\ m.initiation = store[turn][Prefix(m.path)].initiation
              /\ m.expiration = store[turn][Prefix(m.path)].expiration
  BY DEF IInv, WireTimes
<1>5. store'[turn] = store[turn]
  BY <1>1, <1>3
<1>6. \A c \in AS : \A q \in DOMAIN store[c] :
        /\ q \in DOMAIN store'[c]
        /\ store'[c][q].initiation = store[c][q].initiation
        /\ store'[c][q].expiration = store[c][q].expiration
        /\ store'[c][q].is_valid = store[c][q].is_valid
  BY ReceiveKeeps
\* An entry after the step: as before, or what the message made of it.
<1>7. ASSUME NEW c \in AS, NEW q \in DOMAIN store'[c]
      PROVE  \/ q \in DOMAIN store[c] /\ store'[c][q] = store[c][q]
             \/ /\ c = a /\ q = m.path /\ q \in DOMAIN store[a]
                /\ store'[a][q] = Refreshed(a, m)
             \/ c = a /\ q = m.path /\ store'[a][q] = NewBeacon(m)
  BY <1>1 DEF Kept
<1>8. /\ NewBeacon(m) \in Beacon
      /\ NewBeacon(m).initiation = 0
      /\ NewBeacon(m).next_initiation = m.initiation
      /\ NewBeacon(m).next_expiration = m.expiration
      /\ NewBeacon(m).is_new /\ ~NewBeacon(m).is_valid
  BY <1>0, <1>1, ReceivedFields
<1>9. ASSUME m.path \in DOMAIN store[a]
      PROVE  LET r == Refreshed(a, m)
                 b == store[a][m.path]
             IN  /\ r \in Beacon
                 /\ r.initiation = b.initiation /\ r.expiration = b.expiration
                 /\ r.next_initiation = m.initiation /\ r.next_expiration = m.expiration
                 /\ r.is_new /\ r.is_valid = b.is_valid
  BY <1>0, <1>1, <1>9, ReceivedFields
<1>10. Types'
  <2>1. \A c \in AS : store'[c] = [q \in DOMAIN store'[c] |-> store'[c][q]]
    <3>1. \A c \in AS : store[c] = [q \in DOMAIN store[c] |-> store[c][q]]
      BY <1>0 DEF Types
    <3> QED
      BY <1>1, <3>1
  <2>2. store' = [c \in AS |-> [q \in DOMAIN store'[c] |-> store'[c][q]]]
    BY <1>1, <2>1
  <2>3. \A c \in AS : \A q \in DOMAIN store'[c] : q \in Path /\ store'[c][q] \in Beacon
    <3>1. \A c \in AS : \A q \in DOMAIN store[c] : q \in Path /\ store[c][q] \in Beacon
      BY <1>0 DEF Types
    <3> QED
      BY <1>1, <1>7, <1>8, <1>9, <3>1
  <2>4. wire' \subseteq Message
    BY <1>0, <1>2 DEF Types
  <2> QED
    BY <1>0, <1>2, <2>2, <2>3, <2>4 DEF Types
<1>11. PathsAreSegments'
  <2> SUFFICES ASSUME NEW c \in AS, NEW q \in DOMAIN store'[c]
               PROVE  Segment(q, c)
    BY DEF PathsAreSegments, Segment
  <2> QED
    BY <1>3, <1>7 DEF IInv, PathsAreSegments
<1>12. WirePaths'
  BY <1>0, <1>2 DEF WirePaths, Sending
<1>13. WireTimes'
  BY <1>2, <1>5 DEF IInv, WireTimes
<1>14. StoreTimes'
  <2> SUFFICES ASSUME NEW c \in AS, NEW q \in DOMAIN store'[c]
               PROVE  StoredTimes(c, q, store[c][q])'
    BY DEF StoreTimes
  <2> DEFINE u == store'[c][q]
  <2>1. ASSUME NEW x, Upstream(q, x)
        PROVE  Upstream(q, x)'
    <3>1. CASE Len(q) # 1
      <4>1. /\ Last(q) \in Links /\ Prefix(q) \in DOMAIN store[Last(q).from]
            /\ x.next_initiation <= store[Last(q).from][Prefix(q)].initiation
        BY <2>1, <3>1 DEF Upstream
      <4>2. Last(q).from \in AS
        BY <4>1, LinkFacts
      <4>3. /\ Prefix(q) \in DOMAIN store'[Last(q).from]
            /\ x.next_initiation <= store'[Last(q).from][Prefix(q)].initiation
        BY <1>6, <4>1, <4>2
      <4> QED
        BY <4>1, <4>3 DEF Upstream, Last, Prefix
    <3>2. CASE Len(q) = 1
      BY <3>2 DEF Upstream
    <3> QED
      BY <3>1, <3>2
  <2>2. CASE q \in DOMAIN store[c] /\ u = store[c][q]
    <3>1. StoredTimes(c, q, store[c][q])
      BY <2>2 DEF IInv, StoreTimes
    <3>2. SentThisPeriod(q, c) => SentThisPeriod(q, c)'
      BY <1>2 DEF SentThisPeriod, Sending
    <3>3. Upstream(q, store[c][q])'
      BY <2>1, <2>2, <3>1 DEF StoredTimes, Upstream, Last, Prefix
    <3> QED
      BY <1>2, <1>3, <2>2, <3>1, <3>2, <3>3 DEF StoredTimes
  <2>3. CASE c = a /\ q = m.path /\ u.next_initiation = m.initiation
             /\ u.next_expiration = m.expiration
             /\ u.initiation <= m.initiation
             /\ (u.is_valid => q \in DOMAIN store[c] /\ store[c][q].is_valid
                               /\ u.initiation = store[c][q].initiation
                               /\ u.expiration = store[c][q].expiration)
    <3>1. SentThisPeriod(q, c)'
      BY <1>2, <1>3, <1>4, <2>3 DEF SentThisPeriod, Sending, Last, Prefix
    <3>2. Upstream(q, store[c][q])'
      <4> SUFFICES ASSUME Len(q) # 1
                   PROVE  /\ Last(q) \in Links
                          /\ Prefix(q) \in DOMAIN store'[Last(q).from]
                          /\ u.next_initiation <= store'[Last(q).from][Prefix(q)].initiation
        BY DEF Upstream, Last, Prefix
      <4>1. Last(q) \in Links /\ Last(q).from = turn
        BY <1>0, <1>3, <2>3 DEF WirePaths
      <4>2. /\ Prefix(q) \in DOMAIN store'[turn]
            /\ u.next_initiation = store'[turn][Prefix(q)].initiation
        BY <1>4, <1>5, <2>3
      <4>3. u.next_initiation \in Nat
        BY <1>1, <2>3 DEF Message
      <4> HIDE DEF u
      <4> QED
        BY <4>1, <4>2, <4>3
    <3>3. u.is_valid => /\ u.initiation + Len(q) * beaconing_period <= now
                        /\ u.expiration > now
      <4>1. ASSUME u.is_valid
            PROVE  StoredTimes(c, q, store[c][q])
        BY <2>3, <4>1 DEF IInv, StoreTimes
      <4> QED
        BY <1>3, <2>3, <4>1 DEF StoredTimes
    <3>4. /\ u.initiation <= u.next_initiation
          /\ u.next_initiation + (Len(q) - 1) * beaconing_period <= now
          /\ u.next_expiration > now
      BY <1>4, <2>3
    <3> QED
      BY <1>2, <1>3, <3>1, <3>2, <3>3, <3>4 DEF StoredTimes
  <2>4. CASE c = a /\ q = m.path /\ u = NewBeacon(m)
    <3>1. m.initiation \in Nat
      BY <1>1 DEF Message
    <3> QED
      BY <1>8, <2>3, <2>4, <3>1
  <2>5. CASE c = a /\ q = m.path /\ q \in DOMAIN store[a] /\ u = Refreshed(a, m)
    <3> DEFINE b == store[a][q]
    <3>1. b.initiation <= b.next_initiation
      BY <2>5 DEF IInv, StoreTimes, StoredTimes
    <3>2. b.initiation \in Nat /\ b.next_initiation \in Nat /\ m.initiation \in Nat
      BY <1>0, <1>1, <2>5 DEF Types, Beacon, Message
    <3>3. b.next_initiation <= m.initiation
      BY <2>5, ReceivesNewer
    <3>4. b.initiation <= m.initiation
      BY <3>1, <3>2, <3>3
    <3> QED
      BY <1>9, <2>3, <2>5, <3>4
  <2> QED
    BY <1>7, <2>2, <2>4, <2>5
<1>15. ReceivedOnce'
  <2> SUFFICES ASSUME NEW k \in wire, k # m,
                      k.path \in DOMAIN store'[Receiver(k.path)],
                      store'[Receiver(k.path)][k.path].is_new
               PROVE  FALSE
    BY <1>2 DEF ReceivedOnce, Receiver
  <2>1. Receiver(k.path) \in AS /\ k \in Message
    BY <1>0 DEF WirePaths, Types
  <2>2. k.path = m.path
    BY <1>7, <2>1 DEF IInv, ReceivedOnce
  <2>3. k.initiation = m.initiation /\ k.expiration = m.expiration
    BY <1>4, <2>2 DEF IInv, WireTimes
  <2>4. k = m
    BY <1>1, <2>1, <2>2, <2>3 DEF Message
  <2> QED
    BY <2>4
<1>16. Registered'
  <2> SUFFICES ASSUME NEW c \in AS, NEW q \in DOMAIN store'[c], store'[c][q].is_valid
               PROVE  /\ q \in DOMAIN segments[c]
                      /\ segments[c][q] = [initiation |-> store'[c][q].initiation,
                                           expiration |-> store'[c][q].expiration]
    BY <1>2, <1>3 DEF Registered, RegisteredAt
  <2>1. q \in DOMAIN store[c]
    BY <1>7, <1>8
  <2>2. RegisteredAt(c, q, store[c][q])
    BY <2>1 DEF IInv, Registered
  <2> QED
    BY <1>3, <1>6, <2>1, <2>2 DEF RegisteredAt
<1> QED
  BY <1>10, <1>11, <1>12, <1>13, <1>14, <1>15, <1>16, ReceiveCounts DEF IInv

LEMMA InitInv ==
  ASSUME Init
  PROVE  IInv
<1>1. /\ now = 0 /\ stage = "disseminate" /\ turn = 0
      /\ advertised = {} /\ wire = {}
      /\ store = [a \in AS |-> NoPaths]
      /\ valid_count = [a \in AS |-> [d \in AS |-> 0]]
      /\ next_count = [a \in AS |-> [d \in AS |-> 0]]
      /\ segments = [a \in AS |-> NoPaths]
  BY DEF Init
<1>2. /\ DOMAIN NoPaths = {} /\ NoPaths = [p \in DOMAIN NoPaths |-> NoPaths[p]]
  BY DEF NoPaths
<1>3. \A a \in AS : DOMAIN store[a] = {} /\ DOMAIN segments[a] = {}
  BY <1>1, <1>2
<1>4. Types
  <2>1. turn \in AS /\ now <= last_beaconing /\ now \in Nat
    BY <1>1, BeaconingAssumption DEF AS
  <2>2. /\ store = [a \in AS |-> [path \in DOMAIN store[a] |-> store[a][path]]]
        /\ segments = [a \in AS |-> [path \in DOMAIN segments[a] |-> segments[a][path]]]
    BY <1>1, <1>2
  <2> QED
    BY <1>1, <1>3, <2>1, <2>2 DEF Types
<1>5. PathsAreSegments /\ StoreTimes /\ Registered
  BY <1>3 DEF PathsAreSegments, StoreTimes, Registered
<1>6. WirePaths /\ WireTimes /\ ReceivedOnce
  BY <1>1 DEF WirePaths, WireTimes, ReceivedOnce
<1>7. Counted
  <2>1. \A a, d \in AS : ValidOf(a, d) = {} /\ ComingOf(a, d) = {}
    BY <1>3 DEF ValidOf, ComingOf, OfOrigin
  <2>2. IsFiniteSet({}) /\ Cardinality({}) = 0
    BY FS_EmptySet
  <2> QED
    BY <1>1, <1>3, <2>1, <2>2 DEF Counted
<1> QED
  BY <1>4, <1>5, <1>6, <1>7 DEF IInv

LEMMA StutterInv ==
  ASSUME IInv, UNCHANGED vars
  PROVE  IInv'
<1>1. UNCHANGED <<now, stage, turn, advertised, wire, store, counts, segments>>
  BY DEF vars
<1>2. Types' /\ WirePaths' /\ WireTimes' /\ ReceivedOnce'
  BY <1>1 DEF IInv, Types, WirePaths, WireTimes, ReceivedOnce, Sending
<1>3. StoreTimes' /\ Registered'
  BY <1>1 DEF IInv, StoreTimes, StoredTimes, Upstream, SentThisPeriod, Sending,
              Registered, RegisteredAt, next_period
<1>4. PathsAreSegments' /\ Counted'
  BY <1>1, SameStore
<1> QED
  BY <1>2, <1>3, <1>4 DEF IInv

\* The invariant is inductive.
LEMMA NextInv ==
  ASSUME IInv, [Next]_vars
  PROVE  IInv'
<1>1. CASE \E n \in AS : \E p \in DOMAIN store[turn] : Disseminate(n, p)
  BY <1>1, DisseminateInv
<1>2. CASE \E m \in wire : ReceiveBeacon(m)
  BY <1>2, ReceiveInv
<1> QED
  BY <1>1, <1>2, InitiateInv, NextAsInv, RegisterInv, UpdateInv, NextPeriodInv, StutterInv
  DEF Next

-----------------------------------------------------------------------------
(* The theorems *)

\* The named parts of IInv hold in every state of every topology.
THEOREM Invariant == Spec => []IInv
BY InitInv, NextInv, PTL DEF Spec

\* The counts of an AS never become negative, nor anything else ill-typed.
THEOREM TypeCorrect == Spec => []TypeOK
<1>1. ASSUME IInv PROVE TypeOK
  <2>1. \A a, d \in AS : /\ Cardinality(ValidOf(a, d)) \in Nat
                         /\ Cardinality(ComingOf(a, d)) \in Nat
    BY <1>1, FS_Subset, FS_CardinalityType DEF IInv, Counted, ValidOf, ComingOf, OfOrigin
  <2>2. /\ valid_count \in [AS -> [AS -> Nat]]
        /\ next_count \in [AS -> [AS -> Nat]]
    BY <1>1, <2>1 DEF IInv, Counted
  <2> QED
    BY <1>1, <2>2 DEF IInv, Types, TypeOK
<1> QED
  BY <1>1, Invariant, PTL

\* What a beacon server stores is always a loop-free segment from a core AS to it.
THEOREM StoresSegments == Spec => []PathsAreSegments
<1>1. IInv => PathsAreSegments
  BY DEF IInv
<1> QED
  BY <1>1, Invariant, PTL

\* A beacon travels at most one link in a period, whatever the order of the ASes.
THEOREM TravelsOneLink == Spec => []OneLinkPerPeriod
<1>1. IInv => OneLinkPerPeriod
  BY DEF IInv, StoreTimes, StoredTimes, OneLinkPerPeriod
<1> QED
  BY <1>1, Invariant, PTL

\* The counts kept by increments are the numbers of the beacons they count.
THEOREM CountsAreExact == Spec => []CountsExact
<1>1. IInv => CountsExact
  BY DEF IInv, Counted, ValidOf, ComingOf, CountsExact
<1> QED
  BY <1>1, Invariant, PTL

\* No AS uses or sends a beacon that expires before its next update.
THEOREM StaysValid == Spec => []ValidUntilNextUpdate
<1>1. ASSUME IInv PROVE ValidUntilNextUpdate
  <2>1. \A m \in wire : m.expiration > now
    BY <1>1 DEF IInv, WireTimes
  <2>2. \A a \in AS : \A path \in DOMAIN store[a] :
          store[a][path].is_valid =>
            store[a][path].expiration > IF stage = "idle" THEN next_period ELSE now
    BY <1>1 DEF IInv, StoreTimes, StoredTimes
  <2> QED
    BY <2>1, <2>2 DEF ValidUntilNextUpdate
<1> QED
  BY <1>1, Invariant, PTL

\* The path server of an AS knows every path that is valid, with its times.
THEOREM RegistersValid == Spec => []RegisteredWhenValid
<1>1. ASSUME IInv PROVE RegisteredWhenValid
  <2> SUFFICES ASSUME stage = "idle", NEW a \in AS, NEW path \in DOMAIN store[a],
                      store[a][path].is_valid
               PROVE  /\ path \in DOMAIN segments[a]
                      /\ segments[a][path] = [initiation |-> store[a][path].initiation,
                                              expiration |-> store[a][path].expiration]
    BY DEF RegisteredWhenValid
  <2>1. RegisteredAt(a, path, store[a][path])
    BY <1>1 DEF IInv, Registered
  <2> QED
    BY <2>1 DEF RegisteredAt
<1> QED
  BY <1>1, Invariant, PTL

\* The two actions that write to the stores.
LEMMA ReceiveNotOlder ==
  ASSUME IInv, NEW m \in wire, ReceiveBeacon(m),
         NEW a \in AS, NEW path \in DOMAIN store[a]
  PROVE  /\ path \in DOMAIN store'[a]
         /\ store'[a][path].initiation = store[a][path].initiation
         /\ store'[a][path].next_initiation >= store[a][path].next_initiation
<1>1. /\ path \in DOMAIN store'[a]
      /\ store'[a][path].initiation = store[a][path].initiation
      /\ (a = Receiver(m.path) /\ path = m.path) \/ store'[a][path] = store[a][path]
  BY ReceiveKeeps
<1>2. store[a][path].next_initiation \in Nat /\ m \in Message /\ m.initiation \in Nat
  BY DEF IInv, Types, Beacon, Message
<1>3. CASE a = Receiver(m.path) /\ path = m.path
  <2>1. store[a][path].next_initiation <= m.initiation
    BY <1>3, ReceivesNewer
  <2>2. \/ store'[a][path] = store[a][path]
        \/ store'[a][path] = Refreshed(a, m)
    <3>1. Types /\ WirePaths
      BY DEF IInv
    <3>e. ReceiveEffect(m, a)
      BY <1>3, <3>1, ReceiveStep
    <3>2. \/ Kept(a, path)
          \/ path = m.path /\ path \in DOMAIN store[a] /\ store'[a][path] = Refreshed(a, m)
          \/ path = m.path /\ path \notin DOMAIN store[a] /\ store'[a][path] = NewBeacon(m)
      BY <1>1, <3>e DEF ReceiveEffect
    <3> QED
      BY <3>2 DEF Kept
  <2>3. Refreshed(a, m).next_initiation = m.initiation
    BY <1>2, <1>3, ReceivedFields DEF IInv
  <2> QED
    BY <1>1, <1>2, <2>1, <2>2, <2>3
<1> QED
  BY <1>1, <1>2, <1>3

LEMMA UpdateNotOlder ==
  ASSUME IInv, UpdateStatePeriodic,
         NEW a \in AS, NEW path \in DOMAIN store[a]
  PROVE  /\ path \in DOMAIN store'[a]
         /\ store'[a][path].initiation >= store[a][path].initiation
         /\ store'[a][path].next_initiation = store[a][path].next_initiation
<1> DEFINE b == store[a][path]
           u == store'[a][path]
<1>1. path \in DOMAIN store'[a] /\ u = Updated(b)
  BY UpdateStep DEF IInv
<1>2. b \in Beacon /\ now \in Nat /\ b.initiation <= b.next_initiation
  BY DEF IInv, Types, StoreTimes, StoredTimes
<1>3. /\ u.next_initiation = b.next_initiation
      /\ u.initiation = b.next_initiation \/ u.initiation = b.initiation
  BY <1>1, <1>2, UpdatedFields
<1>4. b.initiation \in Nat /\ b.next_initiation \in Nat
  BY <1>2 DEF Beacon
<1> QED
  BY <1>1, <1>2, <1>3, <1>4

\* No step makes what an AS knows of a path older, or forgets a path.
THEOREM KnowsNoOlder == Spec => NeverOlder
<1> DEFINE Kn == \A a \in AS : \A path \in DOMAIN store[a] :
                   /\ path \in DOMAIN store'[a]
                   /\ store'[a][path].initiation >= store[a][path].initiation
                   /\ store'[a][path].next_initiation >= store[a][path].next_initiation
<1>1. ASSUME IInv, [Next]_vars PROVE Kn
  <2>1. \A a \in AS : \A path \in DOMAIN store[a] :
          /\ store[a][path] \in Beacon
          /\ store[a][path].initiation \in Nat /\ store[a][path].next_initiation \in Nat
    BY <1>1 DEF IInv, Types, Beacon
  <2>2. CASE store' = store
    BY <2>1, <2>2
  <2>3. CASE \E m \in wire : ReceiveBeacon(m)
    <3>1. PICK m \in wire : ReceiveBeacon(m)
      BY <2>3
    <3> QED
      BY <1>1, <2>1, <3>1, ReceiveNotOlder
  <2>4. CASE UpdateStatePeriodic
    BY <1>1, <2>1, <2>4, UpdateNotOlder
  <2> QED
    BY <1>1, <2>2, <2>3, <2>4
    DEF Next, Disseminate, Initiate, NextAs, RegisterToLocalPathServer,
        UpdateStateBeforeBeaconing, vars
<1> QED
  BY <1>1, Invariant, PTL DEF Spec, NeverOlder

-----------------------------------------------------------------------------
(* Within, without recursion *)

Begins == {<<l.from, l.to>> : l \in {m \in Links : m.from \in CoreAses}}
Continues(pair, l) ==
  /\ l.from = pair[2] /\ l.to # pair[1]
  /\ l.relation = Relation(l.from)
Extends(pairs) == {<<e[1][1], e[2].to>> : e \in {f \in pairs \X Links : Continues(f[1], f[2])}}

\* The equation by which Within is defined.
WithinEquation(f) ==
  f = [k \in Nat |-> IF k = 0 THEN {} ELSE f[k - 1] \union Begins \union Extends(f[k - 1])]

\* The same pairs, by the links that lead from the one to the other.
Walk(w, n) ==
  /\ w \in [1 .. n -> Links] /\ w[1].from \in CoreAses
  /\ \A i \in 2 .. n : Continues(<<w[1].from, w[i - 1].to>>, w[i])
Walked(k) ==
  {pair \in AS \X AS : \E n \in 1 .. k : \E w \in [1 .. n -> Links] :
                         Walk(w, n) /\ pair = <<w[1].from, w[n].to>>}

LEMMA WalkedEquation ==
  ASSUME NEW k \in Nat \ {0}
  PROVE  Walked(k) = Walked(k - 1) \union Begins \union Extends(Walked(k - 1))
<1>1. ASSUME NEW pair \in Walked(k), pair \notin Walked(k - 1)
      PROVE  pair \in Begins \union Extends(Walked(k - 1))
  <2>0. PICK n \in 1 .. k : \E w \in [1 .. n -> Links] :
                              Walk(w, n) /\ pair = <<w[1].from, w[n].to>>
    BY DEF Walked
  <2>1. PICK w \in [1 .. n -> Links] : Walk(w, n) /\ pair = <<w[1].from, w[n].to>>
    BY <2>0
  <2>2. pair \in AS \X AS
    BY DEF Walked
  <2>3. n = k
    <3>1. n \in 1 .. k - 1 \/ n = k
      OBVIOUS
    <3> QED
      BY <1>1, <2>1, <2>2, <3>1 DEF Walked
  <2>4. CASE k = 1
    BY <2>1, <2>3, <2>4 DEF Begins, Walk
  <2>5. CASE k # 1
    <3> DEFINE v == [i \in 1 .. k - 1 |-> w[i]]
               prev == <<w[1].from, w[k - 1].to>>
    <3>1. /\ k - 1 \in 1 .. k - 1 /\ 1 \in 1 .. k - 1 /\ k \in 2 .. k
          /\ v \in [1 .. k - 1 -> Links] /\ v[1] = w[1] /\ v[k - 1] = w[k - 1]
      BY <2>3, <2>5
    <3>2. Walk(v, k - 1)
      <4>1. v[1].from \in CoreAses
        BY <2>1, <3>1 DEF Walk
      <4>2. ASSUME NEW i \in 2 .. k - 1
            PROVE  Continues(<<v[1].from, v[i - 1].to>>, v[i])
        <5>1. i \in 1 .. k - 1 /\ i - 1 \in 1 .. k - 1 /\ i \in 2 .. k
          OBVIOUS
        <5>2. v[i] = w[i] /\ v[i - 1] = w[i - 1]
          BY <5>1
        <5> QED
          BY <2>1, <2>3, <3>1, <5>1, <5>2 DEF Walk
      <4> QED
        BY <3>1, <4>1, <4>2 DEF Walk
    <3>3. w[1] \in Links /\ w[k - 1] \in Links /\ w[k] \in Links
      BY <2>3, <3>1
    <3>4. prev \in Walked(k - 1)
      <4>1. prev \in AS \X AS
        BY <3>3, LinkFacts
      <4> QED
        BY <3>1, <3>2, <4>1 DEF Walked
    <3>5. Continues(prev, w[k])
      BY <2>1, <2>3, <3>1 DEF Walk
    <3>6. pair = <<prev[1], w[k].to>>
      BY <2>1, <2>3
    <3>7. <<prev, w[k]>> \in {f \in Walked(k - 1) \X Links : Continues(f[1], f[2])}
      BY <3>3, <3>4, <3>5
    <3>8. pair = <<<<prev, w[k]>>[1][1], <<prev, w[k]>>[2].to>>
      BY <3>6
    <3> HIDE DEF prev, v
    <3> QED
      BY <3>7, <3>8 DEF Extends
  <2> QED
    BY <2>4, <2>5
<1>2. Walked(k - 1) \subseteq Walked(k)
  <2>1. 1 .. k - 1 \subseteq 1 .. k
    OBVIOUS
  <2> QED
    BY <2>1 DEF Walked
<1>3. Begins \subseteq Walked(k)
  <2> SUFFICES ASSUME NEW l \in Links, l.from \in CoreAses
               PROVE  <<l.from, l.to>> \in Walked(k)
    BY DEF Begins
  <2> DEFINE w == [i \in 1 .. 1 |-> l]
  <2>1. w \in [1 .. 1 -> Links] /\ w[1] = l /\ 1 \in 1 .. k
    OBVIOUS
  <2>2. Walk(w, 1)
    BY <2>1 DEF Walk
  <2>3. <<l.from, l.to>> \in AS \X AS
    BY LinkFacts
  <2> HIDE DEF w
  <2> QED
    BY <2>1, <2>2, <2>3 DEF Walked
<1>4. Extends(Walked(k - 1)) \subseteq Walked(k)
  <2> SUFFICES ASSUME NEW pair \in Walked(k - 1), NEW l \in Links, Continues(pair, l)
               PROVE  <<pair[1], l.to>> \in Walked(k)
    BY DEF Extends
  <2>0. PICK n \in 1 .. k - 1 : \E v \in [1 .. n -> Links] :
                                  Walk(v, n) /\ pair = <<v[1].from, v[n].to>>
    BY DEF Walked
  <2>1. PICK v \in [1 .. n -> Links] : Walk(v, n) /\ pair = <<v[1].from, v[n].to>>
    BY <2>0
  <2> DEFINE w == [i \in 1 .. n + 1 |-> IF i = n + 1 THEN l ELSE v[i]]
  <2>2. /\ n \in Nat /\ n >= 1 /\ n + 1 \in 1 .. k
        /\ w \in [1 .. n + 1 -> Links] /\ w[n + 1] = l
        /\ \A i \in 1 .. n : w[i] = v[i]
    OBVIOUS
  <2>3. w[1] = v[1] /\ w[n] = v[n]
    BY <2>2
  <2> HIDE DEF w
  <2>4. Walk(w, n + 1)
    <3>1. w[1].from \in CoreAses
      BY <2>1, <2>3 DEF Walk
    <3>2. ASSUME NEW i \in 2 .. n + 1
          PROVE  Continues(<<w[1].from, w[i - 1].to>>, w[i])
      <4>1. CASE i = n + 1
        BY <2>1, <2>2, <2>3, <4>1
      <4>2. CASE i \in 2 .. n
        <5>1. w[i] = v[i] /\ w[i - 1] = v[i - 1]
          BY <2>2, <4>2
        <5> QED
          BY <2>1, <2>3, <4>2, <5>1 DEF Walk
      <4> QED
        BY <2>2, <4>1, <4>2
    <3> QED
      BY <2>2, <3>1, <3>2 DEF Walk
  <2>5. <<pair[1], l.to>> \in AS \X AS
    BY LinkFacts DEF Walked
  <2>6. <<pair[1], l.to>> = <<w[1].from, w[n + 1].to>>
    BY <2>1, <2>2, <2>3
  <2> QED
    BY <2>2, <2>4, <2>5, <2>6 DEF Walked
<1> QED
  BY <1>1, <1>2, <1>3, <1>4

\* The recursion has a solution, so that Within satisfies it.
LEMMA WithinStep ==
  /\ Within[0] = {}
  /\ \A k \in Nat : Within[k + 1] = Within[k] \union Begins \union Extends(Within[k])
<1> DEFINE W == [k \in Nat |-> Walked(k)]
<1>1. Walked(0) = {}
  BY DEF Walked
<1>2. WithinEquation(W)
  <2>1. \A k \in Nat :
          Walked(k) = IF k = 0 THEN {} ELSE W[k - 1] \union Begins \union Extends(W[k - 1])
    <3> SUFFICES ASSUME NEW k \in Nat, k # 0
                 PROVE  Walked(k) = W[k - 1] \union Begins \union Extends(W[k - 1])
      BY <1>1
    <3>1. W[k - 1] = Walked(k - 1)
      OBVIOUS
    <3> QED
      BY <3>1, WalkedEquation
  <2> QED
    BY <2>1 DEF WithinEquation
<1>3. WithinEquation(Within)
  <2>1. Within = CHOOSE f : WithinEquation(f)
    BY DEF Within, WithinEquation, Begins, Extends, Continues
  <2> QED
    BY <1>2, <2>1
<1>4. \A k \in Nat : k + 1 \in Nat /\ k + 1 # 0 /\ (k + 1) - 1 = k
  OBVIOUS
<1> QED
  BY <1>3, <1>4 DEF WithinEquation

-----------------------------------------------------------------------------
(* Every AS is reached in time *)

Initial(path, i) == [j \in 1 .. i |-> path[j]]

\* Before the first beacons expire, whatever is stored or on the wire has left a
\* valid path at every AS it has been through.
Traced(path) ==
  \A i \in 1 .. Len(path) - 1 :
    Initial(path, i) \in ValidOf(path[i].to, Origin(path))

Young == (IF stage = "idle" THEN next_period ELSE now) < expiration_period

Tracing ==
  Young => /\ \A m \in wire : Traced(m.path)
           /\ \A a \in AS : \A path \in DOMAIN store[a] : Traced(path)

\* No beacon expires before the first ones.
Lasting ==
  /\ \A m \in wire : m.expiration >= expiration_period
  /\ \A a \in AS : \A path \in DOMAIN store[a] :
       /\ store[a][path].next_expiration >= expiration_period
       /\ store[a][path].is_valid => store[a][path].expiration >= expiration_period

\* At the next update an AS will have a path of this origin.
Underway(a, d) ==
  \/ ComingOf(a, d) # {}
  \/ \E m \in wire : Receiver(m.path) = a /\ Origin(m.path) = d

\* Something of every origin that has been advertised has been sent.
Advertised ==
  IF Sending THEN \A sent \in advertised : Underway(sent[1], Origin(sent[2]))
             ELSE advertised = {}

HasRun(a) == \/ ~Sending
             \/ a < turn
             \/ a = turn /\ stage = "initiate"

\* The origins of which the AS at the end of a link hears over it.
HeardOver(link, d) ==
  \/ link.from = d /\ d \in CoreAses
  \/ link.relation = Relation(link.from) /\ link.to # d /\ ValidOf(link.from, d) # {}

Arriving ==
  Young /\ stage # "idle" =>
    \A link \in Links : HasRun(link.from) =>
      \A d \in AS : HeardOver(link, d) => Underway(link.to, d)

\* One link further in every period.
Progress ==
  \E n \in Nat :
    /\ now = n * beaconing_period
    /\ Within[n] \subseteq AS \X AS
    /\ Young => \A pair \in Within[IF stage = "idle" THEN n + 1 ELSE n] :
                  ValidOf(pair[2], pair[1]) # {}

ReachInv == Lasting /\ Tracing /\ Advertised /\ Arriving /\ Progress

-----------------------------------------------------------------------------
(* What the actions do to paths that are valid or underway *)

\* The least element of a set of naturals.
LEMMA LeastElement ==
  ASSUME NEW T, T \subseteq Nat, T # {}
  PROVE  \E x \in T : \A y \in T : x <= y
<1> DEFINE R == OpToRel(<, Nat)
<1>1. IsWellFoundedOn(R, Nat)
  BY NatLessThanWellFounded
<1>2. \A x, y \in Nat : <<x, y>> \in R <=> x < y
  BY DEF OpToRel
<1> HIDE DEF R
<1>3. PICK x \in T : \A y \in T : <<y, x>> \notin R
  BY <1>1, WFMin
<1>4. ASSUME NEW y \in T PROVE x <= y
  <2>1. x \in Nat /\ y \in Nat
    OBVIOUS
  <2>2. ~(y < x)
    BY <1>2, <1>3, <2>1
  <2> QED
    BY <2>1, <2>2
<1> QED
  BY <1>4

\* Receivers and origins of what is on the wire.
LEMMA WireEnds ==
  ASSUME IInv, NEW m \in wire
  PROVE  /\ m \in Message /\ m.path \in Path
         /\ Receiver(m.path) \in AS /\ Origin(m.path) \in AS
<1>1. m \in Message /\ m.path \in Path /\ Receiver(m.path) \in AS
  BY DEF IInv, Types, WirePaths
<1>2. Segment(m.path, Receiver(m.path))
  BY DEF IInv, WirePaths
<1>3. Origin(m.path) \in AS
  BY <1>2, BeaconingAssumption DEF Segment
<1> QED
  BY <1>1, <1>3

\* A reception makes no path valid or invalid, and leaves the receiver with a
\* path of the origin: if the store has no room it already has one.
LEMMA ReceiveReaches ==
  ASSUME IInv, NEW m \in wire, ReceiveBeacon(m)
  PROVE  /\ \A c \in AS : \A d : /\ ValidOf(c, d)' = ValidOf(c, d)
                                /\ ComingOf(c, d) \subseteq ComingOf(c, d)'
         /\ ComingOf(Receiver(m.path), Origin(m.path))' # {}
         /\ \A c \in AS : \A q \in DOMAIN store'[c] :
              q \in DOMAIN store[c] \/ q = m.path
<1>0. Types /\ WirePaths
  BY DEF IInv
<1> PICK a \in AS : a = Receiver(m.path)
  BY DEF IInv, WirePaths
<1>e. ReceiveEffect(m, a)
  BY <1>0, ReceiveStep
<1> DEFINE o == Origin(m.path)
<1>1. m \in Message /\ o \in AS
  BY WireEnds
<1>2. /\ \A c \in AS \ {a} : store'[c] = store[c]
      /\ \A q \in DOMAIN store'[a] :
           \/ Kept(a, q)
           \/ q = m.path /\ q \in DOMAIN store[a] /\ store'[a][q] = Refreshed(a, m)
           \/ q = m.path /\ q \notin DOMAIN store[a] /\ store'[a][q] = NewBeacon(m)
  BY <1>e DEF ReceiveEffect
<1>3. ASSUME NEW c \in AS, NEW q \in DOMAIN store[c]
      PROVE  /\ q \in DOMAIN store'[c]
             /\ store'[c][q].is_valid = store[c][q].is_valid
             /\ store[c][q].is_new => store'[c][q].is_new
  BY ReceiveKeeps
<1>4. ASSUME NEW c \in AS, NEW q \in DOMAIN store'[c], q \notin DOMAIN store[c]
      PROVE  q = m.path /\ c = a /\ ~store'[c][q].is_valid
  <2>1. c = a
    BY <1>2, <1>4
  <2>2. q = m.path /\ store'[a][q] = NewBeacon(m)
    BY <1>2, <1>4, <2>1 DEF Kept
  <2> QED
    BY <1>1, <2>1, <2>2, <1>0, ReceivedFields
<1>5. ASSUME NEW c \in AS, NEW d
      PROVE  /\ ValidOf(c, d)' = ValidOf(c, d)
             /\ ComingOf(c, d) \subseteq ComingOf(c, d)'
  BY <1>3, <1>4 DEF ValidOf, ComingOf, OfOrigin
<1>6. ComingOf(a, o)' # {}
  <2>1. CASE Imported(a, m.path)
    <3>1. /\ m.path \in DOMAIN store'[a]
          /\ store'[a][m.path] = IF Stored(a, m.path) THEN Refreshed(a, m) ELSE NewBeacon(m)
      <4>1. store' = [store EXCEPT ![a] =
                         With(store[a], m.path,
                              IF Stored(a, m.path) THEN Refreshed(a, m) ELSE NewBeacon(m))]
        BY <2>1 DEF ReceiveBeacon
      <4>2. DOMAIN store = AS
        BY <1>0 DEF Types
      <4> QED
        BY <4>1, <4>2 DEF With
    <3>2. store'[a][m.path].is_new
      BY <1>0, <1>1, <3>1, ReceivedFields DEF Stored
    <3>3. m.path \in ComingOf(a, o)'
      BY <3>1, <3>2 DEF ComingOf, OfOrigin
    <3> QED
      BY <3>3
  <2>2. CASE ~Imported(a, m.path)
    <3>1. ~(next_count[a][o] < MAX_BEACONS_TO_STORE)
      BY <2>2 DEF Imported
    <3>2. next_count[a][o] = Cardinality(ComingOf(a, o))
      BY <1>1 DEF IInv, Counted
    <3>3. MAX_BEACONS_TO_STORE \in Nat /\ MAX_BEACONS_TO_STORE > 0
      BY BeaconingAssumption
    <3>4. ComingOf(a, o) # {}
      BY <3>1, <3>2, <3>3, FS_EmptySet
    <3> QED
      BY <1>1, <1>5, <3>4
  <2> QED
    BY <2>1, <2>2
<1> QED
  BY <1>2, <1>5, <1>6 DEF Kept

\* What is underway arrives or stays underway.
LEMMA StaysUnderway ==
  ASSUME IInv, NEW c \in AS, NEW d, Underway(c, d),
         \/ \E m \in wire : ReceiveBeacon(m)
         \/ store' = store /\ (wire = {} \/ wire' = wire)
  PROVE  Underway(c, d)'
<1>1. CASE store' = store /\ (wire = {} \/ wire' = wire)
  BY <1>1 DEF Underway, ComingOf, OfOrigin
<1>2. CASE \E m \in wire : ReceiveBeacon(m)
  <2>1. PICK m \in wire : ReceiveBeacon(m)
    BY <1>2
  <2>2. wire' = wire \ {m}
    BY <2>1 DEF ReceiveBeacon
  <2>3. CASE ComingOf(c, d) # {}
    BY <2>1, <2>3, ReceiveReaches DEF Underway
  <2>4. CASE \E k \in wire : Receiver(k.path) = c /\ Origin(k.path) = d
    <3>1. PICK k \in wire : Receiver(k.path) = c /\ Origin(k.path) = d
      BY <2>4
    <3>2. CASE k = m
      <4>1. ComingOf(Receiver(m.path), Origin(m.path))' # {}
        BY <2>1, ReceiveReaches
      <4>2. Receiver(m.path) = c /\ Origin(m.path) = d
        BY <3>1, <3>2
      <4> QED
        BY <4>1, <4>2 DEF Underway
    <3>3. CASE k # m
      BY <2>2, <3>1, <3>3 DEF Underway
    <3> QED
      BY <3>2, <3>3
  <2> QED
    BY <2>3, <2>4 DEF Underway
<1> QED
  BY <1>1, <1>2

\* A trace stays while no path ceases to be valid.
LEMMA TraceKept ==
  ASSUME NEW path \in Path, Traced(path),
         \A c \in AS : \A d : ValidOf(c, d) \subseteq ValidOf(c, d)'
  PROVE  Traced(path)'
<1>1. Traced(path)' = \A i \in 1 .. Len(path) - 1 :
                        Initial(path, i) \in ValidOf(path[i].to, Origin(path))'
  BY DEF Traced, Initial, Origin
<1> SUFFICES ASSUME NEW i \in 1 .. Len(path) - 1
             PROVE  Initial(path, i) \in ValidOf(path[i].to, Origin(path))'
  BY <1>1
<1>2. Len(path) \in Nat /\ i \in 1 .. Len(path) /\ 1 \in 1 .. Len(path)
  BY LenProperties DEF Path
<1>3. path[i] \in Links /\ path[1] \in Links
  BY <1>2, ElementOfSeq DEF Path
<1>4. path[i].to \in AS /\ Origin(path) \in AS
  BY <1>3, LinkFacts DEF Origin
<1>5. Initial(path, i) \in ValidOf(path[i].to, Origin(path))
  BY DEF Traced
<1> QED
  BY <1>4, <1>5

\* The trace of a path with one more link.
LEMMA TraceExtends ==
  ASSUME NEW path \in Path, NEW link \in Links, Len(path) >= 1, Traced(path),
         path \in ValidOf(link.from, Origin(path)), Receiver(path) = link.from
  PROVE  Traced(Append(path, link))
<1> DEFINE q == Append(path, link)
           n == Len(path)
<1>1. /\ n \in Nat /\ Len(q) = n + 1 /\ \A i \in 1 .. n : q[i] = path[i]
      /\ Prefix(q) = path
  BY AppendFacts
<1>2. Origin(q) = Origin(path)
  BY <1>1 DEF Origin
<1> SUFFICES ASSUME NEW i \in 1 .. n
             PROVE  Initial(q, i) \in ValidOf(q[i].to, Origin(path))
  BY <1>1, <1>2 DEF Traced
<1> HIDE DEF q
<1>3. CASE i = n
  <2>1. Initial(q, i) = Prefix(q)
    BY <1>1, <1>3 DEF Initial, Prefix
  <2>2. q[i].to = link.from
    BY <1>1, <1>3 DEF Receiver
  <2> QED
    BY <1>1, <2>1, <2>2
<1>4. CASE i \in 1 .. n - 1
  <2>1. Initial(q, i) = Initial(path, i)
    <3>1. \A j \in 1 .. i : q[j] = path[j]
      BY <1>1, <1>4
    <3> QED
      BY <3>1 DEF Initial
  <2>2. Initial(path, i) \in ValidOf(path[i].to, Origin(path))
    BY <1>4 DEF Traced
  <2>3. q[i] = path[i]
    BY <1>1
  <2> QED
    BY <2>1, <2>2, <2>3
<1> QED
  BY <1>1, <1>3, <1>4

\* An AS that has a valid path has told its neighbour of the origin when it is
\* done with it, unless the neighbour is on every path and has one of its own.
LEMMA DoneIsUnderway ==
  ASSUME IInv, Tracing, Young, Advertised, Sending, wire = {},
         NEW link \in Links, link.from = turn, link.relation = Relation(turn),
         DoneWith(turn, link.to),
         NEW d \in AS, d # link.to, ValidOf(turn, d) # {}
  PROVE  ComingOf(link.to, d) # {}
<1> DEFINE n == link.to
           may == {q \in ValidOf(turn, d) : ~Visits(q, n)}
<1>0. turn \in AS /\ n \in AS
  BY LinkFacts DEF IInv, Types
<1>1. CASE may = {}
  <2>1. PICK q \in ValidOf(turn, d) : Visits(q, n)
    BY <1>1
  <2>2. q \in DOMAIN store[turn] /\ Origin(q) = d
    BY <2>1 DEF ValidOf, OfOrigin
  <2>3. q \in Path /\ Len(q) \in Nat /\ Segment(q, turn) /\ Traced(q)
    BY <1>0, <2>2, StoredPath DEF IInv, PathsAreSegments, Tracing
  <2>4. PICK i \in 1 .. Len(q) : q[i].from = n
    BY <2>1 DEF Visits
  <2>5. i # 1
    BY <2>2, <2>4 DEF Origin
  <2>6. i \in 2 .. Len(q) /\ i - 1 \in 1 .. Len(q) - 1
    BY <2>3, <2>5
  <2>7. q[i - 1].to = n
    BY <2>3, <2>4, <2>6 DEF Segment
  <2>8. Initial(q, i - 1) \in ValidOf(n, d)
    BY <2>2, <2>3, <2>6, <2>7 DEF Traced
  <2> QED
    BY <2>8 DEF ValidOf, ComingOf
<1>2. CASE may # {}
  <2> DEFINE T == {Len(q) : q \in may}
  <2>1. \A q \in may : /\ q \in DOMAIN store[turn] /\ store[turn][q].is_valid
                       /\ Origin(q) = d /\ ~Visits(q, n) /\ Len(q) \in Nat
    BY <1>0, StoredPath DEF IInv, ValidOf, OfOrigin
  <2>2. T \subseteq Nat /\ T # {}
    BY <1>2, <2>1
  <2>3. PICK x \in T : \A y \in T : x <= y
    BY <2>2, LeastElement
  <2>4. PICK q \in may : x = Len(q)
    BY <2>3
  <2>5. \A other \in may : Len(q) <= Len(other)
    BY <2>3, <2>4
  <2>6. SentOfOrigin(n, d) # {}
    <3> SUFFICES ASSUME SentOfOrigin(n, d) = {} PROVE FALSE
      OBVIOUS
    <3>1. Sendable(turn, n, q)
      BY <2>1 DEF Sendable
    <3>2. <<n, q>> \notin advertised
      <4> SUFFICES ASSUME <<n, q>> \in advertised PROVE FALSE
        OBVIOUS
      <4>1. <<n, q>>[1] = n /\ <<n, q>>[2] = q /\ Origin(q) = d
        BY <2>1
      <4>2. q \in SentOfOrigin(n, d)
        BY <4>1 DEF SentOfOrigin
      <4> QED
        BY <4>2
    <3>3. Cardinality(SentOfOrigin(n, Origin(q))) < MAX_BEACONS_TO_SEND
      <4>1. Cardinality(SentOfOrigin(n, Origin(q))) = 0
        BY <2>1, FS_EmptySet
      <4> QED
        BY <4>1, BeaconingAssumption
    <3>4. ASSUME NEW other \in DOMAIN store[turn], Origin(other) = Origin(q),
                 Len(other) < Len(q), Sendable(turn, n, other)
          PROVE  FALSE
      <4>1. other \in may
        BY <2>1, <3>4 DEF Sendable, ValidOf, OfOrigin
      <4> QED
        BY <2>1, <2>5, <3>4, <4>1
    <3>5. NextToSend(turn, n, q)
      BY <3>1, <3>2, <3>3, <3>4 DEF NextToSend
    <3>6. link \in LinksTo(turn, n)
      BY DEF LinksTo
    <3> QED
      BY <2>1, <3>5, <3>6 DEF DoneWith
  <2>7. PICK sent \in advertised : sent[1] = n /\ Origin(sent[2]) = d
    BY <2>6 DEF SentOfOrigin
  <2>8. Underway(n, d)
    BY <2>7 DEF Advertised
  <2> QED
    BY <2>8 DEF Underway
<1> QED
  BY <1>1, <1>2

-----------------------------------------------------------------------------
(* Every AS is reached: the invariant is preserved *)

LEMMA LastingStep ==
  ASSUME IInv, Lasting, [Next]_vars
  PROVE  Lasting'
<1>0. /\ Types /\ now \in Nat
      /\ \A a \in AS : \A q \in DOMAIN store[a] : store[a][q] \in Beacon
  BY DEF IInv, Types
<1>1. CASE \E n \in AS : \E p \in DOMAIN store[turn] : Disseminate(n, p)
  <2>1. PICK n \in AS, p \in DOMAIN store[turn] : Disseminate(n, p)
    BY <1>1
  <2>2. /\ wire' = {Extended(p, link) : link \in LinksTo(turn, n)}
        /\ store' = store /\ store[turn][p].is_valid /\ turn \in AS
    BY <2>1 DEF Disseminate, NextToSend, Sendable, IInv, Types
  <2>3. store[turn][p].expiration >= expiration_period
    BY <2>2 DEF Lasting
  <2>4. ASSUME NEW m \in wire' PROVE m.expiration >= expiration_period
    <3>1. PICK link \in LinksTo(turn, n) : m = Extended(p, link)
      BY <2>2
    <3>2. m.expiration = store[link.from][p].expiration /\ link.from = turn
      BY <3>1 DEF Extended, LinksTo
    <3> QED
      BY <2>3, <3>2
  <2> QED
    BY <2>2, <2>4 DEF Lasting
<1>2. CASE Initiate
  <2>1. /\ wire' = {Originated(link) : link \in {l \in Links : l.from = turn /\ turn \in CoreAses}}
        /\ store' = store
    BY <1>2 DEF Initiate
  <2>2. \A m \in wire' : m.expiration = now + expiration_period
    BY <2>1 DEF Originated
  <2>3. \A m \in wire' : m.expiration >= expiration_period
    BY <1>0, <2>2, BeaconingAssumption
  <2> QED
    BY <2>1, <2>3 DEF Lasting
<1>3. CASE \E m \in wire : ReceiveBeacon(m)
  <2>1. PICK m \in wire : ReceiveBeacon(m)
    BY <1>3
  <2> PICK a \in AS : a = Receiver(m.path)
    BY DEF IInv, WirePaths
  <2>2. wire' = wire \ {m} /\ m \in Message /\ m.expiration >= expiration_period
    BY <2>1, WireEnds DEF ReceiveBeacon, Lasting
  <2>3. ReceiveEffect(m, a)
    BY <2>1, ReceiveStep DEF IInv
  <2>4. ASSUME NEW c \in AS, NEW q \in DOMAIN store'[c]
        PROVE  /\ store'[c][q].next_expiration >= expiration_period
               /\ store'[c][q].is_valid => store'[c][q].expiration >= expiration_period
    <3>1. CASE q \in DOMAIN store[c] /\ store'[c][q] = store[c][q]
      BY <3>1 DEF Lasting
    <3>2. CASE c = a /\ q = m.path /\ q \in DOMAIN store[a] /\ store'[a][q] = Refreshed(a, m)
      <4>1. LET r == Refreshed(a, m)
                b == store[a][m.path]
            IN  /\ r.expiration = b.expiration /\ r.next_expiration = m.expiration
                /\ r.is_valid = b.is_valid
        BY <1>0, <2>2, <3>2, ReceivedFields
      <4> QED
        BY <2>2, <3>2, <4>1 DEF Lasting
    <3>3. CASE c = a /\ q = m.path /\ store'[a][q] = NewBeacon(m)
      BY <1>0, <2>2, <3>3, ReceivedFields
    <3> QED
      BY <2>3, <3>1, <3>2, <3>3 DEF ReceiveEffect, Kept
  <2> QED
    BY <2>2, <2>4 DEF Lasting
<1>4. CASE UpdateStatePeriodic
  <2>1. /\ wire' = wire
        /\ \A a \in AS :
             /\ DOMAIN store'[a] = DOMAIN store[a]
             /\ \A path \in DOMAIN store[a] : store'[a][path] = Updated(store[a][path])
    BY <1>0, <1>4, UpdateStep DEF UpdateStatePeriodic
  <2>2. ASSUME NEW c \in AS, NEW q \in DOMAIN store[c]
        PROVE  /\ store'[c][q].next_expiration >= expiration_period
               /\ store'[c][q].is_valid => store'[c][q].expiration >= expiration_period
    <3> DEFINE b == store[c][q]
               u == Updated(b)
    <3>1. /\ u.next_expiration = b.next_expiration
          /\ u.expiration = IF TakesOver(b) THEN b.next_expiration ELSE b.expiration
          /\ u.is_valid = ((TakesOver(b) \/ b.is_valid) /\ ~Ends(b))
      BY <1>0, UpdatedFields
    <3> QED
      BY <2>1, <3>1 DEF Lasting
  <2> QED
    BY <2>1, <2>2 DEF Lasting
<1>5. CASE UNCHANGED <<store, wire>>
  BY <1>5 DEF Lasting
<1> QED
  BY <1>1, <1>2, <1>3, <1>4, <1>5
  DEF Next, vars, NextAs, RegisterToLocalPathServer, UpdateStateBeforeBeaconing

\* Before the first beacons expire an update ends none, and what is new becomes
\* valid.
LEMMA UpdateReaches ==
  ASSUME IInv, Lasting, UpdateStatePeriodic, Young'
  PROVE  \A a \in AS : \A d : ComingOf(a, d) \subseteq ValidOf(a, d)'
<1>1. /\ stage' = "idle" /\ now' = now /\ next_period' = next_period
      /\ next_period < expiration_period
  BY DEF UpdateStatePeriodic, Young, next_period
<1>2. /\ now \in Nat /\ next_period \in Nat /\ expiration_period \in Nat
      /\ \A a \in AS :
           /\ DOMAIN store'[a] = DOMAIN store[a]
           /\ \A path \in DOMAIN store[a] : store'[a][path] = Updated(store[a][path])
  BY UpdateStep, BeaconingAssumption DEF IInv, Types, next_period
<1> SUFFICES ASSUME NEW a \in AS, NEW q \in DOMAIN store[a],
                    store[a][q].is_valid \/ store[a][q].is_new
             PROVE  store'[a][q].is_valid
  BY <1>2 DEF ComingOf, ValidOf, OfOrigin
<1> DEFINE b == store[a][q]
           u == Updated(b)
<1>3. b \in Beacon /\ StoredTimes(a, q, b)
  BY DEF IInv, Types, StoreTimes
<1>4. /\ u.expiration = IF TakesOver(b) THEN b.next_expiration ELSE b.expiration
      /\ u.is_valid = ((TakesOver(b) \/ b.is_valid) /\ ~Ends(b))
      /\ Ends(b) = ((TakesOver(b) \/ b.is_valid) /\ u.expiration <= next_period)
      /\ u \in Beacon
  BY <1>2, <1>3, UpdatedFields
<1>5. b.is_new => TakesOver(b)
  BY <1>3 DEF StoredTimes, TakesOver
<1>6. TakesOver(b) \/ b.is_valid
  BY <1>5
<1>7. u.expiration >= expiration_period /\ u.expiration \in Nat
  BY <1>4, <1>6 DEF Lasting, Beacon
<1>8. ~(u.expiration <= next_period)
  BY <1>1, <1>2, <1>7
<1> QED
  BY <1>2, <1>4, <1>6, <1>8

\* No path ceases to be valid before the first beacons expire.
LEMMA ValidKept ==
  ASSUME IInv, Lasting, [Next]_vars, Young'
  PROVE  /\ Young
         /\ \A a \in AS : \A d : ValidOf(a, d) \subseteq ValidOf(a, d)'
<1>1. /\ now \in Nat /\ now' \in Nat /\ next_period \in Nat /\ now <= next_period
      /\ expiration_period \in Nat
  <2>1. IInv'
    BY NextInv
  <2> QED
    BY <2>1, BeaconingAssumption DEF IInv, Types, next_period
<1>2. CASE UpdateStatePeriodic
  <2>1. Young
    BY <1>1, <1>2 DEF UpdateStatePeriodic, Young, next_period
  <2> QED
    BY <1>2, <2>1, UpdateReaches DEF ComingOf, ValidOf
<1>3. CASE UpdateStateBeforeBeaconing
  BY <1>3 DEF UpdateStateBeforeBeaconing, Young, ValidOf, OfOrigin
<1>4. CASE \E m \in wire : ReceiveBeacon(m)
  <2>1. now' = now /\ stage' = stage
    BY <1>4 DEF ReceiveBeacon
  <2>2. Young
    BY <2>1 DEF Young, next_period
  <2> QED
    BY <1>4, <2>2, ReceiveReaches
<1>5. CASE store' = store /\ now' = now /\ (stage' = stage \/ (stage # "idle" /\ stage' # "idle"))
  BY <1>5 DEF Young, next_period, ValidOf, OfOrigin
<1> QED
  BY <1>2, <1>3, <1>4, <1>5
  DEF Next, vars, Disseminate, Initiate, NextAs, RegisterToLocalPathServer

\* What is sent has come from where it has left a valid path.
LEMMA TracingStep ==
  ASSUME IInv, Lasting, Tracing, [Next]_vars
  PROVE  Tracing'
<1> SUFFICES ASSUME Young'
             PROVE  /\ \A m \in wire' : Traced(m.path)'
                    /\ \A a \in AS : \A path \in DOMAIN store'[a] : Traced(path)'
  BY DEF Tracing
<1>1. /\ \A a \in AS : \A d : ValidOf(a, d) \subseteq ValidOf(a, d)'
      /\ \A m \in wire : Traced(m.path)
      /\ \A a \in AS : \A path \in DOMAIN store[a] : Traced(path)
  BY ValidKept DEF Tracing
<1>2. /\ \A m \in wire : Traced(m.path)'
      /\ \A a \in AS : \A path \in DOMAIN store[a] : Traced(path)'
  <2>1. \A m \in wire : m.path \in Path
    BY WireEnds
  <2>2. \A a \in AS : \A path \in DOMAIN store[a] : path \in Path
    BY DEF IInv, Types
  <2> QED
    BY <1>1, <2>1, <2>2, TraceKept
<1>3. CASE \E n \in AS : \E p \in DOMAIN store[turn] : Disseminate(n, p)
  <2>1. PICK n \in AS, p \in DOMAIN store[turn] : Disseminate(n, p)
    BY <1>3
  <2>2. /\ wire' = {Extended(p, link) : link \in LinksTo(turn, n)}
        /\ store' = store /\ store[turn][p].is_valid /\ turn \in AS
    BY <2>1 DEF Disseminate, NextToSend, Sendable, IInv, Types
  <2>3. /\ p \in Path /\ Len(p) >= 1 /\ Segment(p, turn)
    BY <2>2, StoredPath DEF IInv, PathsAreSegments
  <2>4. ASSUME NEW m \in wire' PROVE Traced(m.path)'
    <3>1. PICK link \in LinksTo(turn, n) : m = Extended(p, link)
      BY <2>2
    <3>2. m.path = Append(p, link) /\ link \in Links /\ link.from = turn
      BY <3>1 DEF Extended, LinksTo
    <3>3. Receiver(p) = turn /\ p \in ValidOf(turn, Origin(p))
      BY <2>2, <2>3 DEF Segment, ValidOf, OfOrigin
    <3>4. Traced(Append(p, link))
      BY <1>1, <2>2, <2>3, <3>2, <3>3, TraceExtends
    <3>5. Append(p, link) \in Path
      BY <2>3, <3>2, AppendFacts
    <3>6. Traced(Append(p, link))'
      BY <1>1, <3>4, <3>5, TraceKept
    <3> QED
      BY <3>2, <3>6
  <2> QED
    BY <1>2, <2>2, <2>4
<1>4. CASE Initiate
  <2>1. /\ wire' = {Originated(link) : link \in {l \in Links : l.from = turn /\ turn \in CoreAses}}
        /\ store' = store
    BY <1>4 DEF Initiate
  <2>2. ASSUME NEW m \in wire' PROVE Traced(m.path)'
    <3>1. PICK link \in Links : m.path = <<link>>
      BY <2>1 DEF Originated
    <3>2. Len(m.path) = 1
      BY <3>1, OneLinkFacts
    <3>3. Len(m.path) - 1 = 0 /\ 1 .. 0 = {}
      BY <3>2
    <3> QED
      BY <3>3 DEF Traced
  <2> QED
    BY <1>2, <2>1, <2>2
<1>5. CASE \E m \in wire : ReceiveBeacon(m)
  <2>1. PICK m \in wire : ReceiveBeacon(m)
    BY <1>5
  <2>2. wire' \subseteq wire
    BY <2>1 DEF ReceiveBeacon
  <2>3. \A c \in AS : \A q \in DOMAIN store'[c] : q \in DOMAIN store[c] \/ q = m.path
    BY <2>1, ReceiveReaches
  <2> QED
    BY <1>2, <2>2, <2>3
<1>6. CASE UpdateStatePeriodic
  <2>1. wire' = wire /\ \A a \in AS : DOMAIN store'[a] = DOMAIN store[a]
    BY <1>6, UpdateStep DEF UpdateStatePeriodic, IInv
  <2> QED
    BY <1>2, <2>1
<1>7. CASE UNCHANGED <<store, wire>>
  BY <1>2, <1>7
<1> QED
  BY <1>3, <1>4, <1>5, <1>6, <1>7
  DEF Next, vars, NextAs, RegisterToLocalPathServer, UpdateStateBeforeBeaconing

LEMMA AdvertisedStep ==
  ASSUME IInv, Advertised, [Next]_vars
  PROVE  Advertised'
<1>0. \A sent \in advertised : sent[1] \in AS
  BY DEF IInv, Types
<1>1. CASE \E n \in AS : \E p \in DOMAIN store[turn] : Disseminate(n, p)
  <2>1. PICK n \in AS, p \in DOMAIN store[turn] : Disseminate(n, p)
    BY <1>1
  <2>2. /\ wire = {} /\ wire' = {Extended(p, link) : link \in LinksTo(turn, n)}
        /\ advertised' = advertised \union {<<n, p>>}
        /\ store' = store /\ stage' = stage /\ Sending
        /\ LinksTo(turn, n) # {} /\ turn \in AS
    BY <2>1 DEF Disseminate, Sending, IInv, Types
  <2>3. PICK link \in LinksTo(turn, n) : TRUE
    BY <2>2
  <2>4. p \in Path /\ Len(p) >= 1 /\ link \in Links /\ link.to = n
    BY <2>2, StoredPath DEF IInv, LinksTo
  <2>5. Extended(p, link) \in wire' /\ Extended(p, link).path = Append(p, link)
    BY <2>2 DEF Extended
  <2>6. Receiver(Append(p, link)) = n /\ Origin(Append(p, link)) = Origin(p)
    <3>1. 1 \in 1 .. Len(p)
      BY <2>4, LenProperties DEF Path
    <3> QED
      BY <2>4, <3>1, AppendFacts DEF Origin
  <2>7. Underway(n, Origin(p))'
    BY <2>5, <2>6 DEF Underway, Receiver, Origin
  <2>8. \A sent \in advertised : Underway(sent[1], Origin(sent[2]))'
    <3> SUFFICES ASSUME NEW sent \in advertised
                 PROVE  Underway(sent[1], Origin(sent[2]))'
      OBVIOUS
    <3> DEFINE d == Origin(sent[2])
    <3>1. Underway(sent[1], d)
      BY <2>2 DEF Advertised
    <3> HIDE DEF d
    <3>2. Underway(sent[1], d)'
      BY <1>0, <2>2, <3>1, StaysUnderway
    <3> QED
      BY <3>2 DEF d
  <2>9. Underway(<<n, p>>[1], Origin(<<n, p>>[2]))'
    BY <2>7
  <2> QED
    BY <2>2, <2>8, <2>9 DEF Advertised, Sending
<1>2. CASE \/ Initiate
           \/ \E m \in wire : ReceiveBeacon(m)
           \/ UNCHANGED vars
  <2>1. /\ advertised' = advertised /\ (Sending <=> Sending')
        /\ \/ \E m \in wire : ReceiveBeacon(m)
           \/ store' = store /\ (wire = {} \/ wire' = wire)
    BY <1>2 DEF Initiate, ReceiveBeacon, vars, Sending
  <2>2. ASSUME NEW sent \in advertised, Sending
        PROVE  Underway(sent[1], Origin(sent[2]))'
    <3>1. Underway(sent[1], Origin(sent[2]))
      BY <2>2 DEF Advertised
    <3> QED
      BY <1>0, <2>1, <3>1, StaysUnderway
  <2> QED
    BY <2>1, <2>2 DEF Advertised
<1>3. CASE NextAs
  BY <1>3 DEF NextAs, Advertised
<1>4. CASE RegisterToLocalPathServer \/ UpdateStatePeriodic \/ UpdateStateBeforeBeaconing
  <2>1. advertised' = advertised /\ advertised = {}
    BY <1>4 DEF RegisterToLocalPathServer, UpdateStatePeriodic, UpdateStateBeforeBeaconing,
                Advertised, Sending
  <2> QED
    BY <2>1 DEF Advertised
<1> QED
  BY <1>1, <1>2, <1>3, <1>4 DEF Next

LEMMA ArrivingStep ==
  ASSUME IInv, Lasting, Tracing, Advertised, Arriving, [Next]_vars
  PROVE  Arriving'
<1> SUFFICES ASSUME Young', stage' # "idle",
                    NEW link \in Links, HasRun(link.from)',
                    NEW d \in AS, HeardOver(link, d)'
             PROVE  Underway(link.to, d)'
  BY DEF Arriving
<1>0. /\ Young /\ turn \in AS /\ link.from \in AS /\ link.to \in AS
  BY ValidKept, LinkFacts DEF IInv, Types
\* It had run before.
<1>1. ASSUME stage # "idle", HasRun(link.from),
             ValidOf(link.from, d)' = ValidOf(link.from, d),
             \/ \E m \in wire : ReceiveBeacon(m)
             \/ store' = store /\ (wire = {} \/ wire' = wire)
      PROVE  Underway(link.to, d)'
  <2>1. HeardOver(link, d)
    BY <1>1 DEF HeardOver
  <2>2. Underway(link.to, d)
    BY <1>0, <1>1, <2>1 DEF Arriving
  <2> QED
    BY <1>0, <1>1, <2>2, StaysUnderway
<1>2. CASE \/ \E n \in AS : \E p \in DOMAIN store[turn] : Disseminate(n, p)
           \/ RegisterToLocalPathServer
           \/ UNCHANGED vars
  <2>1. /\ stage # "idle" /\ HasRun(link.from)
        /\ store' = store /\ (wire = {} \/ wire' = wire)
    BY <1>2 DEF Disseminate, RegisterToLocalPathServer, vars, HasRun, Sending
  <2> QED
    BY <1>1, <2>1 DEF ValidOf, OfOrigin
<1>3. CASE \E m \in wire : ReceiveBeacon(m)
  <2>1. stage # "idle" /\ HasRun(link.from)
    BY <1>3 DEF ReceiveBeacon, HasRun, Sending
  <2> QED
    BY <1>0, <1>1, <1>3, <2>1, ReceiveReaches
<1>4. CASE Initiate
  <2>1. /\ stage = "disseminate" /\ wire = {} /\ stage' = "initiate" /\ turn' = turn
        /\ store' = store
        /\ \A neighbour \in AS : DoneWith(turn, neighbour)
        /\ wire' = {Originated(l) : l \in {k \in Links : k.from = turn /\ turn \in CoreAses}}
    BY <1>4 DEF Initiate
  <2>2. ValidOf(link.from, d)' = ValidOf(link.from, d)
    BY <2>1 DEF ValidOf, OfOrigin
  <2>3. CASE HasRun(link.from)
    BY <1>1, <2>1, <2>2, <2>3
  <2>4. CASE ~HasRun(link.from)
    <3>1. link.from = turn
      BY <2>1, <2>4 DEF HasRun, Sending
    <3>2. CASE link.from = d /\ d \in CoreAses
      <4>1. Originated(link) \in wire'
        BY <2>1, <3>1, <3>2
      <4>2. Receiver(Originated(link).path) = link.to /\ Origin(Originated(link).path) = d
        BY <3>2, OneLinkFacts DEF Originated
      <4> QED
        BY <4>1, <4>2 DEF Underway, Receiver, Origin
    <3>3. CASE link.relation = Relation(link.from) /\ link.to # d /\ ValidOf(link.from, d) # {}
      <4>1. Sending
        BY <2>1 DEF Sending
      <4>2. ComingOf(link.to, d) # {}
        BY <1>0, <2>1, <3>1, <3>3, <4>1, DoneIsUnderway
      <4> QED
        BY <2>1, <4>2 DEF Underway, ComingOf, OfOrigin
    <3> QED
      BY <2>2, <3>2, <3>3 DEF HeardOver
  <2> QED
    BY <2>3, <2>4
<1>5. CASE NextAs
  <2>1. /\ stage = "initiate" /\ wire = {} /\ store' = store
        /\ \/ turn + 1 < NumAses /\ turn' = turn + 1 /\ stage' = "disseminate"
           \/ ~(turn + 1 < NumAses) /\ turn' = turn /\ stage' = "register"
    BY <1>5 DEF NextAs
  <2>2. /\ turn \in 0 .. NumAses - 1 /\ link.from \in 0 .. NumAses - 1 /\ NumAses \in Nat
    BY <1>0, BeaconingAssumption DEF AS
  <2>3. link.from <= turn
    BY <2>1, <2>2 DEF HasRun, Sending
  <2>4. HasRun(link.from)
    BY <2>1, <2>2, <2>3 DEF HasRun
  <2> QED
    BY <1>1, <2>1, <2>4 DEF ValidOf, OfOrigin
<1>6. CASE UpdateStateBeforeBeaconing
  <2>1. stage' = "disseminate" /\ turn' = 0 /\ link.from >= 0
    BY <1>0, <1>6, BeaconingAssumption DEF UpdateStateBeforeBeaconing, AS
  <2> QED
    BY <1>0, <2>1, BeaconingAssumption DEF HasRun, Sending, AS
<1>7. ~UpdateStatePeriodic
  BY DEF UpdateStatePeriodic
<1> QED
  BY <1>2, <1>3, <1>4, <1>5, <1>6, <1>7 DEF Next

\* Whom a period brings one link further: over a link that begins at the origin
\* or at an AS that already had a path.
LEMMA UpdateProgress ==
  ASSUME IInv, Lasting, Arriving, UpdateStatePeriodic, Young', Young, NEW n \in Nat,
         \A pair \in Within[n] : ValidOf(pair[2], pair[1]) # {},
         Within[n] \subseteq AS \X AS
  PROVE  \A pair \in Within[n + 1] : ValidOf(pair[2], pair[1])' # {}
<1>1. stage = "update" /\ wire = {} /\ \A a \in AS : HasRun(a)
  BY DEF UpdateStatePeriodic, HasRun, Sending, IInv, WirePaths
<1>2. ASSUME NEW a \in AS, NEW d \in AS, Underway(a, d)
      PROVE  ValidOf(a, d)' # {}
  <2>1. ComingOf(a, d) # {} /\ ComingOf(a, d) \subseteq ValidOf(a, d)'
    BY <1>1, <1>2, UpdateReaches DEF Underway
  <2> QED
    BY <2>1
<1>3. ASSUME NEW link \in Links, NEW d \in AS, HeardOver(link, d)
      PROVE  ValidOf(link.to, d)' # {}
  <2>1. link.from \in AS /\ link.to \in AS
    BY LinkFacts
  <2>2. Underway(link.to, d)
    BY <1>1, <1>3, <2>1 DEF Arriving
  <2> QED
    BY <1>2, <2>1, <2>2
<1>4. ASSUME NEW pair \in Within[n] PROVE ValidOf(pair[2], pair[1])' # {}
  <2>1. pair[1] \in AS /\ pair[2] \in AS
    OBVIOUS
  <2>2. Underway(pair[2], pair[1])
    BY DEF Underway, ComingOf, ValidOf
  <2> QED
    BY <1>2, <2>1, <2>2
<1>5. ASSUME NEW pair \in Begins PROVE ValidOf(pair[2], pair[1])' # {}
  <2>1. PICK link \in Links : link.from \in CoreAses /\ pair = <<link.from, link.to>>
    BY DEF Begins
  <2>2. link.from \in AS /\ HeardOver(link, link.from)
    BY <2>1, LinkFacts DEF HeardOver
  <2> QED
    BY <1>3, <2>1, <2>2
<1>6. ASSUME NEW pair \in Extends(Within[n]) PROVE ValidOf(pair[2], pair[1])' # {}
  <2>1. PICK e \in {f \in Within[n] \X Links : Continues(f[1], f[2])} :
          pair = <<e[1][1], e[2].to>>
    BY DEF Extends
  <2> DEFINE from == e[1]
             link == e[2]
  <2>2. /\ from \in Within[n] /\ link \in Links
        /\ link.from = from[2] /\ link.to # from[1] /\ link.relation = Relation(link.from)
    BY <2>1 DEF Continues
  <2>3. from[1] \in AS /\ ValidOf(link.from, from[1]) # {}
    BY <2>2
  <2>4. HeardOver(link, from[1])
    BY <2>2, <2>3 DEF HeardOver
  <2>5. pair[1] = from[1] /\ pair[2] = link.to
    BY <2>1
  <2> HIDE DEF from, link
  <2> QED
    BY <1>3, <2>2, <2>3, <2>4, <2>5
<1> QED
  BY <1>4, <1>5, <1>6, WithinStep

LEMMA ProgressStep ==
  ASSUME IInv, Lasting, Arriving, Progress, [Next]_vars
  PROVE  Progress'
<1> PICK n \in Nat :
      /\ now = n * beaconing_period
      /\ Within[n] \subseteq AS \X AS
      /\ Young => \A pair \in Within[IF stage = "idle" THEN n + 1 ELSE n] :
                    ValidOf(pair[2], pair[1]) # {}
  BY DEF Progress
<1>1. /\ Begins \subseteq AS \X AS
      /\ \A pairs \in SUBSET (AS \X AS) : Extends(pairs) \subseteq AS \X AS
  BY LinkFacts DEF Begins, Extends
<1>2. Within[n + 1] \subseteq AS \X AS
  BY <1>1, WithinStep
<1>3. Young' => Young /\ \A a \in AS : \A d : ValidOf(a, d) \subseteq ValidOf(a, d)'
  BY ValidKept
<1>4. CASE UpdateStatePeriodic
  <2>1. now' = now /\ stage' = "idle" /\ stage # "idle"
    BY <1>4 DEF UpdateStatePeriodic
  <2>2. Young' => \A pair \in Within[n + 1] : ValidOf(pair[2], pair[1])' # {}
    BY <1>3, <1>4, <2>1, UpdateProgress
  <2> QED
    BY <2>1, <2>2 DEF Progress
<1>5. CASE UpdateStateBeforeBeaconing
  <2>1. now' = now + beaconing_period /\ stage = "idle" /\ stage' # "idle"
    BY <1>5 DEF UpdateStateBeforeBeaconing, next_period
  <2>2. n + 1 \in Nat /\ now' = (n + 1) * beaconing_period
    BY <2>1, BeaconingAssumption
  <2>3. Young' => \A pair \in Within[n + 1] : ValidOf(pair[2], pair[1])' # {}
    BY <1>2, <1>3, <2>1
  <2> QED
    BY <1>2, <2>1, <2>2, <2>3 DEF Progress
<1>6. CASE now' = now /\ (stage' = "idle" <=> stage = "idle")
  <2> DEFINE k == IF stage = "idle" THEN n + 1 ELSE n
  <2>1. Within[k] \subseteq AS \X AS
    BY <1>2
  <2>2. Young' => \A pair \in Within[k] : ValidOf(pair[2], pair[1])' # {}
    BY <1>3, <2>1
  <2> QED
    BY <1>6, <2>2 DEF Progress
<1> QED
  BY <1>4, <1>5, <1>6
  DEF Next, vars, Disseminate, Initiate, NextAs, ReceiveBeacon, RegisterToLocalPathServer

LEMMA InitReach ==
  ASSUME Init
  PROVE  ReachInv
<1>1. /\ now = 0 /\ stage = "disseminate" /\ turn = 0 /\ advertised = {} /\ wire = {}
      /\ store = [a \in AS |-> NoPaths]
  BY DEF Init
<1>2. \A a \in AS : DOMAIN store[a] = {}
  BY <1>1 DEF NoPaths
<1>3. Lasting /\ Tracing /\ Advertised
  BY <1>1, <1>2 DEF Lasting, Tracing, Advertised
<1>4. Arriving
  <2>1. \A link \in Links : ~HasRun(link.from)
    BY <1>1, LinkFacts, BeaconingAssumption DEF HasRun, Sending, AS
  <2> QED
    BY <2>1 DEF Arriving
<1>5. Progress
  <2>1. 0 \in Nat /\ now = 0 * beaconing_period
    BY <1>1, BeaconingAssumption
  <2>2. Within[IF stage = "idle" THEN 0 + 1 ELSE 0] = {} /\ Within[0] = {}
    BY <1>1, WithinStep
  <2> QED
    BY <2>1, <2>2 DEF Progress
<1> QED
  BY <1>3, <1>4, <1>5 DEF ReachInv

\* Dissemination and the stores are bounded per origin, and that is enough: one
\* period after another every AS hears of the origins its neighbours know.
THEOREM ReachesInTime == Spec => []ReachedInTime
<1>1. IInv /\ ReachInv /\ [Next]_vars => ReachInv'
  BY LastingStep, TracingStep, AdvertisedStep, ArrivingStep, ProgressStep DEF ReachInv
<1>2. ASSUME ReachInv PROVE ReachedInTime
  <2> SUFFICES ASSUME stage = "idle", next_period < expiration_period,
                      NEW pair \in Within[now \div beaconing_period + 1]
               PROVE  \E path \in OfOrigin(pair[2], pair[1]) : store[pair[2]][path].is_valid
    BY DEF ReachedInTime
  <2>1. PICK n \in Nat :
          /\ now = n * beaconing_period
          /\ Young => \A pr \in Within[n + 1] : ValidOf(pr[2], pr[1]) # {}
    BY <1>2 DEF ReachInv, Progress
  <2>2. now \div beaconing_period = n
    BY <2>1, BeaconingAssumption
  <2>3. Young
    BY DEF Young
  <2>4. ValidOf(pair[2], pair[1]) # {}
    BY <2>1, <2>2, <2>3
  <2> QED
    BY <2>4 DEF ValidOf
<1> QED
  BY <1>1, <1>2, InitReach, Invariant, PTL DEF Spec
=============================================================================
