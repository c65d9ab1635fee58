---------------------------- MODULE MCNtpExchange ----------------------------
(***************************************************************************)
(* Model checking of NtpExchange: two servers, of which the first measures *)
(* its offset to the second.                                               *)
(***************************************************************************)
EXTENDS NtpExchange

CONSTANTS s1, s2

MCOnePath == {<<s1, s2, "a">>}

\* The drift of clocks without jitter: one time step in 40.
MCConstantDrift == [s \in Servers |-> 1]

MCNoDrift == {0}
MCLocalCorrections == {-2}
MCGlobalCorrections == {3}

\* A short wait or a long one.
MCQueueDelays == {0, 30}
MCPathDelays == {4, 8}
MCProcessingDelays == {0, 10}
=============================================================================
