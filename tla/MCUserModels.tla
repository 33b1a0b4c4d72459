---------------------------- MODULE MCUserModels ----------------------------
(***************************************************************************)
(* Two requests, one model, and a batch of four spectra: two that have    *)
(* one name when they are not in an archive, and one of an unknown type.   *)
(***************************************************************************)
EXTENDS BatchProcessing, TLC
CONSTANTS a, b, m1

Paths == <<"d/x.dat", "x.dat", "w.dat", "y.pdf">>
WithoutFolder == "d/x.dat" :> "x.dat" @@ "x.dat" :> "x.dat" @@ "w.dat" :> "w.dat" @@ "y.pdf" :> "y.pdf"

FewRedshifts ==
    {Broadcast(NoRedshift), Keyed("x.dat" :> 2 @@ "w.dat" :> 1),
     Keyed("x.dat" :> 2 @@ "d/x.dat" :> 3 @@ "w.dat" :> 1)}

FileOrder == <<"model", "classes", "metadata">>
Renamings == Permutations({a, b})
=============================================================================
