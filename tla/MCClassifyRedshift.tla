------------------------- MODULE MCClassifyRedshift --------------------------
(***************************************************************************)
(* Two objects with two spectra each, one upload, two recorded redshifts   *)
(* and one that only a researcher enters.  The later spectrum of b records *)
(* none.                                                                   *)
(***************************************************************************)
EXTENDS ClassifyRedshift, TLC
CONSTANTS a, b, e1, e2, z1, z2
MCSourceZ == (a :> (e1 :> z1 @@ e2 :> z2)) @@ (b :> (e1 :> z2 @@ e2 :> NoZ))
=============================================================================
