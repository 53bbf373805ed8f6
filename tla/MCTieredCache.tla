--------------------------- MODULE MCTieredCache ---------------------------
(* Two keys for TieredCache: k1 is read and written alone and together     *)
(* with k2.  Nobody writes 3: it is what reading 2 may make of it.         *)
EXTENDS TieredCache, TLC
CONSTANTS k1, k2
MCKeys == {k1, k2}
MCRecoded == 1 :> {1} @@ 2 :> {2, 3} @@ 3 :> {3}
MCInputs == {<<{k1}, 2>>, <<{k1, k2}, 1>>}
=============================================================================
