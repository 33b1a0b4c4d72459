--------------------------- MODULE MCModelAccess ----------------------------
(***************************************************************************)
(* One browser with two tabs and one registry model, m, which deployments  *)
(* gate, publish and remove; uploaded models are the other public ones.    *)
(* Of two links to m, one lapses while the browser is watched and the      *)
(* other outlives the watch.                                               *)
(***************************************************************************)
EXTENDS ModelAccess, TLC
CONSTANTS m, t1, t2, k1, k2
Gated == [requires_credential |-> TRUE, listed |-> FALSE, is_active |-> TRUE]
Published == [requires_credential |-> FALSE, listed |-> TRUE, is_active |-> TRUE]
MCRegistries == [{m} -> {Gated, Published, NoDefinition}]
MCLinks == [model : {m}, expires_at : {1, 2}]
Symmetry == Permutations({t1, t2}) \cup Permutations({k1, k2})
=============================================================================
