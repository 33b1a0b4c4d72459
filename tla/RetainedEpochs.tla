--------------------------- MODULE RetainedEpochs ---------------------------
(***************************************************************************)
(* What retention promises to the lookups of the system: an epoch of an    *)
(* object is retained under one identifier, for good, and a lookup that    *)
(* asks for the epoch and is answered is answered with that identifier,    *)
(* whoever retained it.  Retaining and answering are single steps here.    *)
(***************************************************************************)
CONSTANTS Lookups, Epochs, Ids, NoEpoch, NoId

VARIABLES
    idOf,       \* the identifier each epoch is retained under
    asked,      \* the epoch each lookup asked for
    answer      \* the identifier it was answered with

vars == <<idOf, asked, answer>>

Init ==
    /\ idOf = [e \in Epochs |-> NoId]
    /\ asked = [l \in Lookups |-> NoEpoch]
    /\ answer = [l \in Lookups |-> NoId]

Ask(l, e) ==
    /\ asked[l] = NoEpoch
    /\ asked' = [asked EXCEPT ![l] = e]
    /\ UNCHANGED <<idOf, answer>>

\* The first save of an epoch settles its identifier.
Retain(e, i) ==
    /\ idOf[e] = NoId
    /\ \A f \in Epochs : idOf[f] # i
    /\ idOf' = [idOf EXCEPT ![e] = i]

Answer(l) ==
    /\ asked[l] # NoEpoch
    /\ answer[l] = NoId
    /\ idOf'[asked[l]] # NoId
    /\ answer' = [answer EXCEPT ![l] = idOf'[asked[l]]]
    /\ UNCHANGED asked

Next ==
    \/ \E l \in Lookups, e \in Epochs : Ask(l, e)
    \/ \E e \in Epochs, i \in Ids :
        Retain(e, i) /\ (UNCHANGED <<asked, answer>> \/ \E l \in Lookups : Answer(l))
    \/ \E l \in Lookups : Answer(l) /\ UNCHANGED idOf

Spec == Init /\ [][Next]_vars
=============================================================================
