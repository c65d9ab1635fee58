-------------------------- MODULE MCPolarisSender --------------------------
(***************************************************************************)
(* Values for the constants of PolarisSender.  One unit of time stands for *)
(* one update interval (0.25 s); the other intervals are scaled down but   *)
(* keep their order.                                                       *)
(***************************************************************************)
EXTENDS PolarisSender, TLC

\* A ramp with the shape of the sigmoid: it starts above 0 and ends below 1.
MCRamp == [t \in 0..transition_time |->
             IF 2 * t < transition_time THEN 1
             ELSE IF 2 * t = transition_time THEN 2 ELSE 3]

PathSymmetry == Permutations(Paths)
=============================================================================
