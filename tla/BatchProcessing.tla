--------------------------- MODULE BatchProcessing ---------------------------
(***************************************************************************)
(* A batch of spectra, from the page or the REST API                       *)
(* (domain/services/batch_processing_service.py): load one classifier,     *)
(* give each spectrum the redshift the researcher assigned to it, and      *)
(* classify them side by side on one event loop, at most Limit at a time.  *)
(* The classifier of a user model is read from the files other requests    *)
(* may be writing or removing.                                             *)
(*                                                                         *)
(* Spectra are numbered in the order they were sent.  An archive spells a  *)
(* spectrum with its folder; an uploaded file has lost it, so that two of  *)
(* them may have one name.                                                 *)
(***************************************************************************)
EXTENDS UserModels, FiniteSetsExt

CONSTANTS
    Spectra,        \* the batch: numbers
    PathOf,         \* their paths
    BaseOf,         \* a path without its folder
    Supported,      \* names with a known extension
    Redshifts,      \* what the redshift field may say
    NoRedshift,
    BuiltIn,        \* built-in models that need no credential
    Required,       \* those that require a redshift
    Limit           \* how many are classified at a time: 8

ASSUME SpectraAreFinite == IsFiniteSet(Spectra)
ASSUME LimitIsPositive == Limit \in Nat \ {0}

VARIABLES batch, progress, z, results

batchVars == <<batch, progress, z, results>>
vars == <<modelVars, batchVars>>

NoGiven == [all |-> NoRedshift, each |-> <<>>]
NoBatch == [pc |-> "off", by |-> NoModel, model |-> NoModel, zip |-> FALSE, given |-> NoGiven]
BatchJob == [pc : {"off", "load", "read", "run", "done"}, by : Clients \cup {NoModel},
             model : BuiltIn \cup Models \cup {NoModel}, zip : BOOLEAN,
             given : Redshifts \cup {NoGiven}]

NameOf(f) == IF batch.zip THEN PathOf[f] ELSE BaseOf[PathOf[f]]
Names == {NameOf(f) : f \in Spectra}
NoResults == [n \in {} |-> 0]
Failed == [ok |-> FALSE, spectrum |-> 0, z |-> NoRedshift]

BatchTypeOK ==
    /\ TypeOK
    /\ batch \in BatchJob
    /\ progress \in [Spectra -> {"out", "waiting", "running", "ended"}]
    /\ DOMAIN results \subseteq Names
    /\ Cardinality({f \in Spectra : progress[f] = "running"}) <= Limit

NotStarted ==
    /\ progress = [f \in Spectra |-> "out"]
    /\ z = [f \in Spectra |-> NoRedshift]
    /\ results = NoResults

InitBatch == InitModels /\ batch = NoBatch /\ NotStarted

-----------------------------------------------------------------------------
(* The request.                                                             *)

Submit(c, model, zip, given) ==
    /\ At(c, "idle") /\ batch.pc = "off"
    /\ Goto(c, "batch")
    /\ batch' = [pc |-> "load", by |-> c, model |-> model, zip |-> zip, given |-> given]
    /\ UNCHANGED <<store, issued, history, progress, z, results>>

\* parse_batch_redshifts: one number for all, or one for each name; not both.
Broadcast(value) == [all |-> value, each |-> <<>>]
Keyed(values) == [all |-> NoRedshift, each |-> values]

SomeRedshift(given) == given.all # NoRedshift \/ given.each # <<>>

\* What a session may have selected: a model that was listed then.
Selected == BuiltIn \cup rows \cup doomed

\* The batch page, for the model of the session; a session with access to a
\* gated model does not get here.  A model that requires a redshift is refused
\* without one.
PageBatch(c) ==
    \E model \in Selected, zip \in BOOLEAN, given \in Redshifts :
        /\ model \in Required => SomeRedshift(given)
        /\ Submit(c, model, zip, given)

\* _resolve_model_type: no gated model, and any identifier for an uploaded one.
Resolvable == BuiltIn \cup issued

\* The API asks for no redshift.
ApiBatch(c) ==
    /\ ApiWrites
    /\ \E model \in Resolvable, zip \in BOOLEAN, given \in Redshifts :
        Submit(c, model, zip, given)

\* The classifier is loaded once, and read from the store for a user model.
LoadClassifier ==
    /\ batch.pc = "load"
    /\ batch.model \notin BuiltIn => Usable(batch.model)
    /\ batch' = [batch EXCEPT !.pc = "read"]
    /\ UNCHANGED <<modelVars, progress, z, results>>

-----------------------------------------------------------------------------
(* Redshifts: one for all, or one for each by its name.                     *)

\* The name as the archive spells it, else without its folder.
RedshiftFor(name, each) ==
    IF name \in DOMAIN each THEN each[name]
    ELSE IF BaseOf[name] \in DOMAIN each THEN each[BaseOf[name]] ELSE NoRedshift

Assigned(name) ==
    IF batch.given.each = <<>> THEN batch.given.all
    ELSE RedshiftFor(name, batch.given.each)

Entries == {f \in Spectra : progress[f] # "out"}

\* A spectrum without a redshift, or a redshift without a spectrum.
Mismatched(entries) ==
    LET each == batch.given.each
        names == {NameOf(f) : f \in entries}
        used == {IF n \in DOMAIN each THEN n ELSE BaseOf[n] : n \in names}
    IN  each # <<>> /\ (\E n \in names : Assigned(n) = NoRedshift
                         \/ DOMAIN each \ used # {})

\* Unsupported files and unreadable members of an archive are out, with an
\* error for a result.
Enter(bad) ==
    LET entries == {f \in Spectra : NameOf(f) \in Supported} \ bad
    IN  /\ progress' = [f \in Spectra |-> IF f \in entries THEN "waiting" ELSE "out"]
        /\ results' = [n \in {NameOf(f) : f \in Spectra \ entries} |-> Failed]

ReadSpectra ==
    /\ batch.pc = "read"
    /\ \E bad \in SUBSET {f \in Spectra : batch.zip} :
        /\ ~Mismatched({f \in Spectra : NameOf(f) \in Supported} \ bad)
        /\ Enter(bad)
    /\ batch' = [batch EXCEPT !.pc = "run"]
    /\ UNCHANGED <<modelVars, z>>

-----------------------------------------------------------------------------
(* The spectra, each in a task of its own.                                  *)

Running == {f \in Spectra : progress[f] = "running"}
Waiting == {f \in Spectra : progress[f] = "waiting"}

\* Mutant: the tasks write the redshift into the parameters they share.
SharedParams(f) == z' = [g \in Spectra |-> Assigned(NameOf(f))]

OwnParams(f) == z' = [z EXCEPT ![f] = Assigned(NameOf(f))]

\* Mutant: a semaphore for each task.
AdmitAll(f) ==
    /\ batch.pc = "run" /\ f \in Waiting /\ \A g \in Waiting : f <= g
    /\ progress' = [progress EXCEPT ![f] = "running"]
    /\ OwnParams(f)
    /\ UNCHANGED <<modelVars, batch, results>>

\* The semaphore admits the tasks in their order.
Admit(f) ==
    /\ batch.pc = "run" /\ f \in Waiting /\ \A g \in Waiting : f <= g
    /\ Cardinality(Running) < Min({Limit, Cardinality(Entries)})
    /\ progress' = [progress EXCEPT ![f] = "running"]
    /\ OwnParams(f)
    /\ UNCHANGED <<modelVars, batch, results>>

Record(f, result) ==
    /\ batch.pc = "run" /\ f \in Running
    /\ progress' = [progress EXCEPT ![f] = "ended"]
    /\ results' = [n \in DOMAIN results \cup {NameOf(f)} |->
                      IF n = NameOf(f) THEN result ELSE results[n]]
    /\ UNCHANGED <<modelVars, batch, z>>

Classified(f) == Record(f, [ok |-> TRUE, spectrum |-> f, z |-> z[f]])
SpectrumFails(f) == Record(f, Failed)

AllEnded ==
    /\ batch.pc = "run" /\ Running \cup Waiting = {}
    /\ batch' = [batch EXCEPT !.pc = "done"]
    /\ UNCHANGED <<modelVars, progress, z, results>>

\* The answer is sent; or there is none: no classifier, redshifts that do not
\* match the batch, a killed worker.
EndBatch ==
    /\ batch.pc # "off"
    /\ End(batch.by)
    /\ batch' = NoBatch
    /\ progress' = [f \in Spectra |-> "out"]
    /\ z' = [f \in Spectra |-> NoRedshift]
    /\ results' = NoResults
    /\ UNCHANGED <<store, issued, history>>

Batch ==
    \/ LoadClassifier \/ ReadSpectra \/ AllEnded \/ EndBatch
    \/ \E f \in Spectra : Admit(f) \/ Classified(f) \/ SpectrumFails(f)

Next ==
    \/ \E c \in Clients : Store(c) /\ UNCHANGED batchVars
    \/ \E c \in Clients : PageBatch(c) \/ ApiBatch(c)
    \/ Batch

Spec == InitBatch /\ [][Next]_vars

-----------------------------------------------------------------------------

\* A finished batch has a result under the name of each of its spectra, of a
\* spectrum of that name, made with the redshift the researcher gave for that
\* name, by its path rather than by its file name where both are given, however
\* the tasks took turns (_resolve_batch_redshifts: "a silently wrong redshift
\* yields a confidently wrong classification").
Given(name) ==
    LET each == batch.given.each IN
    CASE each = <<>> -> batch.given.all
      [] name \in DOMAIN each -> each[name]
      [] OTHER -> each[BaseOf[name]]

ResultsAreTheSpectras ==
    batch.pc = "done" =>
        /\ DOMAIN results = Names
        /\ \A n \in Names : results[n].ok =>
            /\ NameOf(results[n].spectrum) = n
            /\ results[n].z = Given(n)
=============================================================================
