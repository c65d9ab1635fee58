----------------------------- MODULE MCTimeSync -----------------------------
(***************************************************************************)
(* Model checking of TimeSync with four servers, of which the last has a   *)
(* malicious reference and the first lacks paths to the other two.         *)
(***************************************************************************)
EXTENDS TimeSync

CONSTANTS s1, s2, s3, s4

\* A negative offset, far out of the reach of any correction.
MCMaliciousOffset == [s \in Servers |-> IF s = s4 THEN -40 ELSE 0]

\* The errors at the start.
MCNoErrors == {0}
MCSomeErrors == {-6, 0}

\* The pairs of servers that may have no path.
MCPathsMissing == {<<s1, s2>>, <<s1, s3>>}
=============================================================================
