---------------------------- MODULE MCResolution ----------------------------
(***************************************************************************)
(* Lookups of one designation by request threads a, b, c of the workers w1 *)
(* and w2.  A search takes up to one tick, a refusal lives for less than   *)
(* two, a wait runs out after two, and a candidate set is current for two  *)
(* (a day in the code: it outlives everything else, and ages all the same).*)
(***************************************************************************)
EXTENDS Resolution, TLC
CONSTANTS a, b, c, w1, w2
TwoWorkers == a :> w1 @@ b :> w1 @@ c :> w2
\* The threads of one worker are interchangeable.
SameWorkerThreads == Permutations({a, b})
=============================================================================
