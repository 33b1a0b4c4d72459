-------------------------- MODULE ClassifyRedshift ---------------------------
(***************************************************************************)
(* Which redshift a classification runs with: the view ui_views.classify,  *)
(* its form forms.ClassifyForm, and the page and the session a researcher  *)
(* carries from one submission to the next.                                *)
(*                                                                         *)
(* One researcher with one page, submissions one after the other, none     *)
(* from a page left behind with the browser's back button.  A redshift is  *)
(* a model value or NoZ.  Failures the view answers with an AppException   *)
(* are modelled, at the lookup and at the classification; a database error *)
(* inside the view is not: the session is stored in that same database.    *)
(***************************************************************************)
EXTENDS Naturals

CONSTANTS
    Objects,        \* designations
    Files,          \* contents of uploaded spectra, which record no redshift
    Epochs,         \* eligible spectra of an object
    Earliest,       \* the one selected when none is chosen
    Redshifts,
    SourceZ,        \* what WISeREP records for each spectrum
    NoZ, NoName, NoFile, NoKey, NoParams, NoProvenance, NoHidden, NoRequest, NoRun

Zs == Redshifts \cup {NoZ}

ASSUME SourceRecords ==
    /\ Earliest \in Epochs
    /\ SourceZ \in [Objects -> [Epochs -> Zs]]
ASSUME NoSuchObjects == NoName \notin Objects /\ NoKey \notin Objects

VARIABLES
    policy,         \* redshift_input of the selected model
    sourceKey,      \* classify_input_source_key
    lastParams,     \* classify_last_params
    provenance,     \* classify_spectrum_provenance
    cachedFile,     \* classify_uploaded_file
    page,           \* what the researcher looks at
    request,        \* the submission in flight
    run,            \* how the last submission was classified, if it was
    declined        \* history: the object whose recorded redshift was declined

session == <<sourceKey, lastParams, provenance, cachedFile>>
vars == <<policy, session, page, request, run, declined>>

Policies == {"required", "optional", "none"}
Box == [z : Zs, known : BOOLEAN]
EmptyBox == [z |-> NoZ, known |-> FALSE]

\* hidden: what the epoch and ambiguity forms resubmit, for one of the offers.
Page == [name : Objects \cup {NoName}, box : Box, label : BOOLEAN,
         epoch : Epochs, result : BOOLEAN,
         hidden : Box \cup {NoHidden}, offers : SUBSET Objects]

\* main: from the main form; controls: the redshift field is in the data.
Request == [main : BOOLEAN, name : Objects \cup {NoName},
            file : Files \cup {NoFile}, box : Box, controls : BOOLEAN,
            epoch : Epochs]

Provenance == [name : Objects, epoch : Epochs, redshift_from_source : BOOLEAN,
               source_redshift : Zs, preserved_fields : Box]

Run == [z : Zs, used : Zs, label : BOOLEAN, optedOut : BOOLEAN]

ASSUME NoSuchRecords ==
    /\ NoProvenance \notin Provenance
    /\ NoParams \notin [name : Objects \cup {NoName}, box : Box]

TypeOK ==
    /\ policy \in Policies
    /\ sourceKey \in Objects \cup Files \cup {NoKey}
    /\ lastParams \in [name : Objects \cup {NoName}, box : Box] \cup {NoParams}
    /\ provenance \in Provenance \cup {NoProvenance}
    /\ cachedFile \in Files \cup {NoFile}
    /\ page \in Page
    /\ request \in Request \cup {NoRequest}
    /\ run \in Run \cup {NoRun}
    /\ declined \in Objects \cup {NoKey}

FreshPage == [name |-> NoName, box |-> EmptyBox, label |-> FALSE,
              epoch |-> Earliest, result |-> FALSE,
              hidden |-> NoHidden, offers |-> {}]

Init ==
    /\ policy \in Policies
    /\ sourceKey = NoKey /\ lastParams = NoParams
    /\ provenance = NoProvenance /\ cachedFile = NoFile
    /\ page = FreshPage
    /\ request = NoRequest /\ run = NoRun
    /\ declined = NoKey

-----------------------------------------------------------------------------
(* Reading a submission q.                                                 *)

\* A file the browser no longer sends is taken from the session.
FileOf(q) == IF q.file = NoFile /\ q.name = NoName THEN cachedFile ELSE q.file

ByName(q) == q.name # NoName /\ FileOf(q) = NoFile
UploadKey(q) == FileOf(q)              \* mutant: objects are not told apart
Key(q) == IF q.name # NoName THEN q.name ELSE FileOf(q)
SourceChanged(q) == sourceKey # NoKey /\ Key(q) # sourceKey

\* clean(); another field, or the epoch, may be invalid too.
Invalid(q) ==
    \/ q.name = NoName /\ FileOf(q) = NoFile
    \/ q.box.known /\ q.box.z = NoZ
    \/ policy = "required" /\ q.box.z = NoZ /\ FileOf(q) # NoFile

\* redshift_required_deferred
Deferred(q) == policy = "required" /\ q.box.z = NoZ /\ ByName(q)

\* The parameters before the lookup: another source resets them.
Params(q) == IF SourceChanged(q) THEN EmptyBox ELSE q.box

Source(q) == IF ByName(q) THEN SourceZ[q.name][q.epoch] ELSE NoZ

Attributed ==
    IF provenance # NoProvenance /\ provenance.redshift_from_source
         /\ lastParams # NoParams
      THEN lastParams.box.z ELSE NoZ

Offered == IF provenance # NoProvenance THEN provenance.source_redshift ELSE NoZ

AlwaysUnedited(q) == TRUE               \* mutant: the lookup always fills in
Unedited(q) ==
    \/ SourceChanged(q)
    \/ q.box.z = NoZ
    \/ q.box.z = Source(q)
    \/ Attributed # NoZ /\ q.box.z = Attributed

OptedOut(q) ==
    /\ ByName(q)
    /\ ~SourceChanged(q)
    /\ Offered # NoZ
    /\ q.controls
    /\ q.box.z = NoZ \/ ~q.box.known

FilledIn(q) == ByName(q) /\ ~OptedOut(q) /\ Source(q) # NoZ /\ Unedited(q)

\* params["zValue"] and params["knownZ"] once the lookup has answered.
Resolved(q) ==
    IF OptedOut(q) THEN EmptyBox
    ELSE IF FilledIn(q) THEN [z |-> Source(q), known |-> TRUE]
    ELSE Params(q)

\* process_spectrum_with_params sets the spectrum's redshift only to a value,
\* and the classifiers read it from the spectrum.
Used(q) == IF Resolved(q).z # NoZ THEN Resolved(q).z ELSE Source(q)

NeedsRedshift(q) == ByName(q) /\ Deferred(q) /\ Resolved(q).z = NoZ

-----------------------------------------------------------------------------
(* Pages.                                                                  *)

\* The form as it was submitted.
Bound(q) == [FreshPage EXCEPT !.name = q.name, !.box = q.box]

\* The form rebuilt with the parameters b of the lookup.
Rebuilt(q, b) == [Bound(q) EXCEPT !.box = b, !.hidden = b, !.epoch = q.epoch]

OpenPage ==
    /\ request = NoRequest
    /\ policy' \in Policies             \* a model is selected before
    /\ sourceKey' = NoKey /\ lastParams' = NoParams
    /\ provenance' = NoProvenance /\ cachedFile' = NoFile
    /\ page' = FreshPage
    /\ run' = NoRun
    /\ declined' = NoKey
    /\ UNCHANGED request

\* Apply overlays: the result on the page again, rendered from the session.
Overlay ==
    /\ request = NoRequest
    /\ page.result
    /\ lastParams # NoParams
    /\ LET p == [FreshPage EXCEPT !.name = lastParams.name,
                                  !.box = lastParams.box, !.result = TRUE]
           held == provenance
       IN page' = IF held = NoProvenance THEN p
                  ELSE [p EXCEPT !.label = held.redshift_from_source,
                                 !.epoch = held.epoch,
                                 !.hidden = held.preserved_fields,
                                 !.offers = {held.name}]
    /\ run' = NoRun
    /\ UNCHANGED <<policy, session, request, declined>>

-----------------------------------------------------------------------------
(* Submissions.                                                            *)

Send(q) ==
    /\ request = NoRequest
    /\ request' = q
    /\ run' = NoRun
    /\ UNCHANGED <<policy, session, page, declined>>

\* The main form; a model that takes no redshift shows no redshift controls.
SubmitForm ==
    \E name \in Objects \cup {NoName}, file \in Files \cup {NoFile},
       box \in IF policy = "none" THEN {EmptyBox} ELSE Box :
        Send([main |-> TRUE, name |-> name, file |-> file, box |-> box,
              controls |-> policy # "none", epoch |-> Earliest])

\* A choice of epoch, or of one of the objects a designation matched.
SubmitHidden ==
    /\ page.hidden # NoHidden
    /\ \E name \in page.offers, epoch \in Epochs :
        Send([main |-> FALSE, name |-> name, file |-> NoFile,
              box |-> page.hidden, controls |-> page.hidden.z # NoZ,
              epoch |-> epoch])

Respond == request' = NoRequest

Reject(q) ==
    /\ Invalid(q) \/ q.main             \* any other field
    /\ page' = Bound(q)
    /\ UNCHANGED <<policy, session, run, declined>>

\* What the view does with a valid form before it looks anything up.
Accept(q) ==
    /\ ~Invalid(q)
    /\ sourceKey' = Key(q)
    /\ cachedFile' = IF q.name # NoName THEN NoFile ELSE FileOf(q)
    /\ UNCHANGED policy

Unclassified(q) ==
    /\ declined' = IF declined = Key(q) THEN declined ELSE NoKey
    /\ UNCHANGED <<lastParams, provenance, run>>

\* The designation matches several objects, or names one without a usable
\* spectrum, or the source refuses; a file that cannot be read.
LookupFails(q) ==
    /\ Accept(q)
    /\ \E offers \in {{}, {q.name}, Objects \ {q.name}} :
        page' = IF ByName(q) THEN [Rebuilt(q, Params(q)) EXCEPT !.offers = offers]
                             ELSE Bound(q)
    /\ Unclassified(q)

RefuseWithoutRedshift(q) ==
    /\ Accept(q)
    /\ NeedsRedshift(q)
    /\ page' = Bound(q)
    /\ Unclassified(q)

ClassificationFails(q) ==
    /\ Accept(q)
    /\ ~NeedsRedshift(q)
    /\ page' = IF ByName(q) THEN [Rebuilt(q, Resolved(q)) EXCEPT !.offers = {q.name}]
                            ELSE Bound(q)
    /\ Unclassified(q)

\* Only a lookup by name has provenance to keep.
StaleProvenance(q) ==                   \* mutant: an upload leaves it behind
    IF ~ByName(q) THEN provenance
    ELSE [name |-> q.name, epoch |-> q.epoch,
          redshift_from_source |-> FilledIn(q),
          source_redshift |-> Source(q), preserved_fields |-> Resolved(q)]
UsedProvenance(q) ==                    \* mutant: what was used, not held
    IF ~ByName(q) THEN NoProvenance
    ELSE [name |-> q.name, epoch |-> q.epoch,
          redshift_from_source |-> FilledIn(q),
          source_redshift |-> Resolved(q).z, preserved_fields |-> Resolved(q)]
ProvenanceOf(q) ==
    IF ~ByName(q) THEN NoProvenance
    ELSE [name |-> q.name, epoch |-> q.epoch,
          redshift_from_source |-> FilledIn(q),
          source_redshift |-> Source(q), preserved_fields |-> Resolved(q)]

ResultPage(q) ==
    IF ByName(q)
      THEN [Rebuilt(q, Resolved(q)) EXCEPT
                !.label = FilledIn(q), !.result = TRUE, !.offers = {q.name}]
    ELSE [Bound(q) EXCEPT !.box = Params(q), !.result = TRUE]

Classified(q) ==
    /\ Accept(q)
    /\ ~NeedsRedshift(q)
    /\ lastParams' = [name |-> q.name, box |-> Resolved(q)]
    /\ provenance' = ProvenanceOf(q)
    /\ page' = ResultPage(q)
    /\ run' = [z |-> Resolved(q).z, used |-> Used(q),
               label |-> FilledIn(q), optedOut |-> OptedOut(q)]
    /\ declined' = IF OptedOut(q) /\ Source(q) # NoZ THEN q.name ELSE NoKey

Answer ==
    /\ request # NoRequest
    /\ \/ Reject(request)
       \/ LookupFails(request)
       \/ RefuseWithoutRedshift(request)
       \/ ClassificationFails(request)
       \/ Classified(request)
    /\ Respond

Next == OpenPage \/ Overlay \/ SubmitForm \/ SubmitHidden \/ Answer

Spec == Init /\ [][Next]_vars

-----------------------------------------------------------------------------

Ran == request # NoRequest /\ run' # NoRun

\* A redshift the page attributes to WISeREP is the one WISeREP records for
\* the spectrum on the page, also when the page is rendered from the session's
\* separately kept parameters and provenance.
LabelledValueIsTheSources ==
    page.label =>
        /\ page.name # NoName
        /\ page.box.z = SourceZ[page.name][page.epoch]

\* A value of the researcher's own, entered for the source already in play, is
\* the one the classification runs with, and is not attributed to WISeREP (R10).
TypedValueIsUsed ==
    [][Ran =>
        LET z == request.box.z IN
        /\ \A o \in Objects, e \in Epochs : z # SourceZ[o][e]
        /\ z # NoZ
        /\ request.box.known
        /\ request.main
        /\ Key(request) = sourceKey
        => run'.used = z /\ ~run'.label]_vars

\* Once a redshift is declined, submitting the page again does not bring it
\* back ("stick instead of springing back on the next submit").
OptOutSticks ==
    [][Ran /\ request.main /\ ByName(request) /\ policy # "none"
        /\ request.name = declined /\ request.box.z = NoZ
        => run'.z = NoZ]_vars

-----------------------------------------------------------------------------

\* "Classifying %s without a redshift: the source's value was declined on this
\* submission" (ui_views.py), and the tests of R10 that it "classifies without
\* one".
DeclinedValueIsNotUsed ==
    [][Ran /\ run'.optedOut => run'.used = NoZ]_vars

\* R11 of the by-name plan: "No path substitutes zero for a missing redshift",
\* so a model that requires a redshift does not run without one (AE4).
RequiredRedshiftIsThere ==
    [][Ran /\ policy = "required" => run'.used # NoZ]_vars
=============================================================================
