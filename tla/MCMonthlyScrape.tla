--------------------------- MODULE MCMonthlyScrape ---------------------------
(***************************************************************************)
(* Two windows of two supernovae each.  1 and 2 have the same samples, not *)
(* all finite; 3 and 4, published late, have the same finite ones.  2 and  *)
(* 3 are object 2's and have links of one file name.  5 is no supernova's, *)
(* 6 is not named, and 7 not dated.                                        *)
(***************************************************************************)
EXTENDS Leaderboard, TLC
CONSTANTS x, nan

Row(d, o, t, known, f) ==
    [day |-> d, object |-> o, type |-> t, redshift |-> known, file |-> f,
     dated |-> TRUE, named |-> TRUE, public |-> TRUE]
Export ==
    1 :> Row(6, 1, "SN Ia", TRUE, "f") @@ 2 :> Row(5, 2, "SN", FALSE, "g") @@
    3 :> Row(4, 2, "SN", FALSE, "g") @@ 4 :> Row(3, 3, "SN II", FALSE, "h") @@
    5 :> Row(2, 4, "SN", FALSE, "k") @@
    6 :> [Row(2, 3, "SN II", FALSE, "h") EXCEPT !.named = FALSE] @@
    7 :> [Row(6, 1, "SN Ia", TRUE, "f") EXCEPT !.dated = FALSE]

Link(r, f, samples) == [file |-> f, mentions |-> {r}, data |-> samples]
Pages ==
    1 :> [type |-> "SN Ib", redshift |-> FALSE, links |-> {Link(1, "f", nan)}] @@
    2 :> [type |-> "SN II", redshift |-> TRUE,
          links |-> {Link(2, "g", nan), Link(3, "g", x)}] @@
    3 :> [type |-> "SN II", redshift |-> FALSE, links |-> {Link(4, "h", x)}] @@
    4 :> [type |-> "TDE", redshift |-> FALSE, links |-> {Link(5, "k", x)}]

\* 1, 7, 2, 3, 4, 5, 6.
Positions == <<1, 3, 4, 5, 6, 7, 2>>

TwoWindows == {<<5, 6>>, <<2, 4>>}
=============================================================================
