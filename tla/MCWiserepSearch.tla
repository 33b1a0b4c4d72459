--------------------------- MODULE MCWiserepSearch ---------------------------
(***************************************************************************)
(* Six spectra.  1, 2, 3 and 5 are the supernova's, 2 with no date and 3   *)
(* the earliest; 4 is a neighbour's that goes by the alias of the          *)
(* supernova, and is not public; 6, published late, is the supernova's.    *)
(***************************************************************************)
EXTENDS WiserepSearch, TLC
CONSTANTS a, b

TwoWorkers == Permutations({a, b})

Spectrum(o, names, p, id, day) ==
    [object |-> o, internal |-> names, public |-> p, kind |-> "Object",
     id |-> id, day |-> day, quality |-> "unset"]

SixSpectra ==
    1 :> Spectrum("2002er", {"alias"}, TRUE, 11, 2) @@
    2 :> Spectrum("2002er", {}, TRUE, 12, NoDay) @@
    3 :> Spectrum("2002er", {}, TRUE, 13, 1) @@
    4 :> Spectrum("2002era", {"alias"}, FALSE, 14, 1) @@
    5 :> Spectrum("2002er", {}, TRUE, 15, 3) @@
    6 :> Spectrum("2002er", {}, TRUE, 16, 4)

Found2002er == "2002er" :> 1..6 @@ "alias" :> {1, 4}

NoOrder == <<1, 5, 2, 4, 3>>
=============================================================================
