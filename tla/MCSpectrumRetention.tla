------------------------ MODULE MCSpectrumRetention -------------------------
(***************************************************************************)
(* Three lookups over two epochs of a named object and one of an object    *)
(* without an IAU name.  Each lookup mints one identifier at most.         *)
(***************************************************************************)
EXTENDS SpectrumRetention, TLC
CONSTANTS a, b, c, early, late, unnamed, i1, i2, i3
MCRankings == {<<early>>, <<early, late>>, <<late>>, <<unnamed>>}
MCNameless == {unnamed}
MCBlueshifted == {late}
\* Nothing distinguishes one lookup from another.
Symmetry == Permutations({a, b, c})
=============================================================================
