---------------------------- MODULE MCBeaconing -----------------------------
(***************************************************************************)
(* Core ASes 0, 3 and 6 around 2, to which 0 has three links, more than    *)
(* an AS stores of paths that are longer.  Below 3 a chain of customers    *)
(* that is as long as a beacon lives, so that the last of them never has a *)
(* valid beacon.  Beacons travel up and down the numbers of the ASes.      *)
(***************************************************************************)
EXTENDS Beaconing, TLC

CONSTANTS Parallel, i0, i1   \* interfaces

L(a, out, b, in, relation) ==
  [from |-> a, out |-> out, to |-> b, in |-> in, relation |-> relation]
Core(a, out, b, in) == {L(a, out, b, in, "CORE"), L(b, in, a, out, "CORE")}
Customer(a, out, b, in) == {L(a, out, b, in, "CUSTOMER")}

MCInterfaces == Parallel \union {i0, i1}
MCCoreAses == {0, 2, 3, 6}
MCLinks == UNION {Core(0, i, 2, i) : i \in Parallel}
           \union Core(2, i0, 3, i0) \union Core(2, i1, 6, i0)
           \union Customer(3, i1, 4, i0) \union Customer(4, i1, 1, i0)
           \union Customer(1, i1, 5, i0)

\* The links between 0 and 2 are alike.
ParallelLinks == Permutations(Parallel)
=============================================================================
