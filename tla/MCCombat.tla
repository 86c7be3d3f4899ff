------------------------------ MODULE MCCombat ------------------------------
(* Combat on small instances.  The positions are the spawn point and a point *)
(* at distance exactly 2, the first that is out of reach.                    *)
EXTENDS Combat, TLC

MCSpawn == <<0, 0, 0>>
Here    == {<<0, 0, 0>>}
TwoFar  == {<<0, 0, 0>>, <<2, 0, 0>>}

\* Only the swingers are interchangeable when the rest differ in transport.
Symmetry == Permutations(Swinger)
=============================================================================
