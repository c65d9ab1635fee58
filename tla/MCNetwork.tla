----------------------------- MODULE MCNetwork ------------------------------
(***************************************************************************)
(* An instance of Network with three ASes in a triangle.  The host of the  *)
(* first has an application to the one of the last, to which one path      *)
(* leads directly and one through the AS between.  The configuration may   *)
(* give the direct path, which then has not been reversed.                 *)
(***************************************************************************)
EXTENDS Network, TLC

CONSTANTS A, B, C

Host(as) == [as |-> as, kind |-> "host", no |-> 2]
Hop3(as, ing, eg) == [as |-> as, ing |-> ing, eg |-> eg]

MCHosts == {Host(A), Host(C)}
MCApps == {Host(A)}
MCAppDestination == (Host(A) :> Host(C))

\* A1 - C1, A2 - B1 and B2 - C2 are the links.
MCLink ==
  (BR(A, 1) :> BR(C, 1)) @@ (BR(C, 1) :> BR(A, 1)) @@
  (BR(A, 2) :> BR(B, 1)) @@ (BR(B, 1) :> BR(A, 2)) @@
  (BR(B, 2) :> BR(C, 2)) @@ (BR(C, 2) :> BR(B, 2))

Direct == [reverse |-> TRUE, hops |-> <<Hop3(A, 1, 0), Hop3(C, 0, 1)>>]
ThroughB == [reverse |-> TRUE, hops |-> <<Hop3(A, 2, 0), Hop3(B, 2, 1), Hop3(C, 0, 2)>>]
Configured == [reverse |-> FALSE, hops |-> <<Hop3(A, 0, 1), Hop3(C, 1, 0)>>]

MCSegments == {Direct, ThroughB, Configured}
MCConfiguredPaths == {Configured}
MCISD == [as \in {A, B, C} |-> 0]
=============================================================================
