------------------------------ MODULE MCWorld ------------------------------
(* World on small instances: clients a and b, the sessions a1 and a2 of a,   *)
(* and b1 of b.                                                              *)
EXTENDS World, TLC

CONSTANTS a, b, a1, a2, b1

Owners == (a1 :> a) @@ (a2 :> a) @@ (b1 :> b)

\* Both sessions of a are on WebTransport: nothing tells them apart.
Symmetry == Permutations({a1, a2})
=============================================================================
