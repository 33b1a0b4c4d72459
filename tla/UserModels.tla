----------------------------- MODULE UserModels -----------------------------
(***************************************************************************)
(* Models that researchers upload.  A model is a row of the database       *)
(* (DjangoModelRepository) and a directory of files (ModelStorage), which  *)
(* ModelService writes and removes one after the other; nothing ties the   *)
(* two together but the order of the steps.  Several requests are under    *)
(* way at a time, a write may fail, and a worker may be killed anywhere.   *)
(*                                                                         *)
(* An upload is announced by its row, under a fresh identifier.  The page  *)
(* uploads; deleting and updating are operations of the REST API only,     *)
(* whose writes are closed unless ASTRODASH_API_WRITES_ENABLED is set.     *)
(***************************************************************************)
EXTENDS Naturals, Sequences, FiniteSets, SequencesExt

CONSTANTS
    Models,     \* identifiers
    Clients,    \* requests under way at a time
    Parts,      \* a model's files, in the order they are written
    Metadata,   \* the last of them, which a classifier does not need
    ApiWrites,  \* whether the API accepts writes
    NoModel

ASSUME PartsAreDistinct ==
    /\ Parts \in Seq(Range(Parts)) /\ Parts # <<>> /\ IsInjective(Parts)
    /\ Metadata = Last(Parts)
ASSUME ApiWritesIsSet == ApiWrites \in BOOLEAN
ASSUME NoModelIsNone == NoModel \notin Models

VARIABLES
    rows,       \* models in the database
    dirs,       \* models that have a directory
    files,      \* each model's files: missing, torn or whole
    job,        \* what each request is doing
    issued,     \* identifiers given out
    doomed,     \* history: models whose deletion began
    unconfirmed,    \* history: models whose row was saved by an upload that saw
                    \* an error, and cleans up
    stranded    \* history: models whose files a killed upload or a failed
                \* clean-up left

store == <<rows, dirs, files>>
history == <<doomed, unconfirmed, stranded>>
modelVars == <<store, job, issued, history>>

NoJob == [pc |-> "idle", model |-> NoModel, part |-> 0, then |-> "idle"]
NoFiles == [p \in Range(Parts) |-> "missing"]

Uploading == {"write", "writing", "validate", "save"}
Deleting == {"remove", "forget"}
Updating == {"load", "merge", "merging", "resave"}
Steps == {"idle", "batch"} \cup Uploading \cup Deleting \cup Updating

TypeOK ==
    /\ rows \subseteq issued /\ dirs \subseteq issued /\ issued \subseteq Models
    /\ doomed \cup unconfirmed \cup stranded \subseteq issued
    /\ files \in [Models -> [Range(Parts) -> {"missing", "torn", "whole"}]]
    /\ \A m \in Models \ dirs : files[m] = NoFiles
    /\ job \in [Clients -> [pc : Steps, model : issued \cup {NoModel},
                            part : 0..Len(Parts), then : {"idle", "forget"}]]

InitModels ==
    /\ rows = {} /\ dirs = {} /\ issued = {}
    /\ files = [m \in Models |-> NoFiles]
    /\ job = [c \in Clients |-> NoJob]
    /\ doomed = {} /\ unconfirmed = {} /\ stranded = {}

At(c, pc) == job[c].pc = pc
Becomes(c, pc, m, part, then) ==
    job' = [job EXCEPT ![c] = [pc |-> pc, model |-> m, part |-> part, then |-> then]]
Goto(c, pc) == Becomes(c, pc, job[c].model, job[c].part, job[c].then)
NextPart(c) == Becomes(c, "write", job[c].model, job[c].part + 1, job[c].then)
Clean(c, then) == Becomes(c, "remove", job[c].model, job[c].part, then)
End(c) == job' = [job EXCEPT ![c] = NoJob]
Cleaned(c) == IF job[c].then = "idle" THEN End(c) ELSE Goto(c, "forget")
SetFile(m, p, state) == files' = [files EXCEPT ![m][p] = state]

-----------------------------------------------------------------------------
(* upload_model                                                             *)

\* validate_model_upload_request passed; a row of that name does not matter.
StartUpload(c) ==
    /\ At(c, "idle")
    /\ \E m \in Models \ issued :
        /\ issued' = issued \cup {m}
        /\ Becomes(c, "write", m, 1, "idle")
    /\ UNCHANGED <<store, history>>

\* The page, whose form has the same requirements, and the API.
PageUpload(c) == StartUpload(c)
ApiUpload(c) == ApiWrites /\ StartUpload(c)

BeginPart(c) ==
    /\ At(c, "write")
    /\ dirs' = dirs \cup {job[c].model}
    /\ SetFile(job[c].model, Parts[job[c].part], "torn")
    /\ Goto(c, "writing")
    /\ UNCHANGED <<rows, issued, history>>

\* Mutant: the row is saved when the model file is there.
SaveAfterFirst(c) ==
    /\ At(c, "writing")
    /\ SetFile(job[c].model, Parts[job[c].part], "whole")
    /\ rows' = rows \cup {job[c].model}
    /\ IF job[c].part < Len(Parts)
       THEN NextPart(c)
       ELSE Goto(c, "validate")
    /\ UNCHANGED <<dirs, issued, history>>

EndPart(c) ==
    /\ At(c, "writing")
    /\ SetFile(job[c].model, Parts[job[c].part], "whole")
    /\ IF job[c].part < Len(Parts)
       THEN NextPart(c)
       ELSE Goto(c, "validate")
    /\ UNCHANGED <<rows, dirs, issued, history>>

\* A failed write is cleaned up after.
WriteFails(c) ==
    /\ job[c].pc \in {"write", "writing"}
    /\ Clean(c, "idle")
    /\ UNCHANGED <<store, issued, history>>

\* A forward pass on dummy inputs, whose failure does not refuse the model.
Validate(c) ==
    /\ At(c, "validate")
    /\ Goto(c, "save")
    /\ UNCHANGED <<store, issued, history>>

SaveRow(c) ==
    /\ At(c, "save")
    /\ rows' = rows \cup {job[c].model}
    /\ End(c)
    /\ UNCHANGED <<dirs, files, issued, history>>

SaveFails(c) ==
    /\ At(c, "save")
    /\ Clean(c, "idle")
    /\ UNCHANGED <<store, issued, history>>

\* The row is committed and the connection lost before the request knows.
SaveUnconfirmed(c) ==
    /\ At(c, "save")
    /\ rows' = rows \cup {job[c].model}
    /\ unconfirmed' = unconfirmed \cup {job[c].model}
    /\ Clean(c, "idle")
    /\ UNCHANGED <<dirs, files, issued, doomed, stranded>>

-----------------------------------------------------------------------------
(* cleanup_model_files: rmtree, whose failure is logged and passed over.    *)

RemovePart(c) ==
    /\ At(c, "remove")
    /\ \E p \in Range(Parts) :
        /\ files[job[c].model][p] # "missing"
        /\ SetFile(job[c].model, p, "missing")
    /\ UNCHANGED <<rows, dirs, job, issued, history>>

RemoveDir(c) ==
    /\ At(c, "remove") /\ files[job[c].model] = NoFiles
    /\ dirs' = dirs \ {job[c].model}
    /\ Cleaned(c)
    /\ UNCHANGED <<rows, files, issued, history>>

RemoveFails(c) ==
    /\ At(c, "remove")
    /\ stranded' = stranded \cup {job[c].model}
    /\ Cleaned(c)
    /\ UNCHANGED <<store, issued, doomed, unconfirmed>>

-----------------------------------------------------------------------------
(* delete_model: the files, then the row.                                   *)

StartDelete(c) ==
    /\ ApiWrites /\ At(c, "idle")
    /\ \E m \in rows :
        /\ Becomes(c, "remove", m, 0, "forget")
        /\ doomed' = doomed \cup {m}
    /\ UNCHANGED <<store, issued, unconfirmed, stranded>>

Forget(c) ==
    /\ At(c, "forget")
    /\ rows' = rows \ {job[c].model}
    /\ End(c)
    /\ UNCHANGED <<dirs, files, issued, history>>

-----------------------------------------------------------------------------
(* update_model_metadata: read the row, rewrite the metadata file in place, *)
(* save the row that was read.                                              *)

StartUpdate(c) ==
    /\ ApiWrites /\ At(c, "idle")
    /\ \E m \in rows : Becomes(c, "load", m, 0, "idle")
    /\ UNCHANGED <<store, issued, history>>

LoadMetadata(c) ==
    /\ At(c, "load") /\ files[job[c].model][Metadata] = "whole"
    /\ Goto(c, "merge")
    /\ UNCHANGED <<store, issued, history>>

BeginMerge(c) ==
    /\ At(c, "merge") /\ job[c].model \in dirs
    /\ SetFile(job[c].model, Metadata, "torn")
    /\ Goto(c, "merging")
    /\ UNCHANGED <<rows, dirs, issued, history>>

\* A file removed meanwhile does not come back.
EndMerge(c) ==
    /\ At(c, "merging")
    /\ files' = IF files[job[c].model][Metadata] = "torn"
                THEN [files EXCEPT ![job[c].model][Metadata] = "whole"] ELSE files
    /\ Goto(c, "resave")
    /\ UNCHANGED <<rows, dirs, issued, history>>

\* update_or_create: the row is there again if it was deleted.
Resave(c) ==
    /\ At(c, "resave")
    /\ rows' = rows \cup {job[c].model}
    /\ End(c)
    /\ UNCHANGED <<dirs, files, issued, history>>

\* No metadata, a field that may not be set, or an error of the database.
RequestFails(c) ==
    /\ job[c].pc \in Updating \cup {"forget"}
    /\ End(c)
    /\ UNCHANGED <<store, issued, history>>

\* The worker of a request is killed; an upload's files stay.
Killed(c) ==
    /\ job[c].pc \notin {"idle", "batch"}
    /\ stranded' = stranded \cup {job[c].model}
    /\ End(c)
    /\ UNCHANGED <<store, issued, doomed, unconfirmed>>

Store(c) ==
    \/ PageUpload(c) \/ ApiUpload(c)
    \/ BeginPart(c) \/ EndPart(c) \/ WriteFails(c)
    \/ Validate(c) \/ SaveRow(c) \/ SaveFails(c) \/ SaveUnconfirmed(c)
    \/ RemovePart(c) \/ RemoveDir(c) \/ RemoveFails(c)
    \/ StartDelete(c) \/ Forget(c)
    \/ StartUpdate(c) \/ LoadMetadata(c) \/ BeginMerge(c) \/ EndMerge(c) \/ Resave(c)
    \/ RequestFails(c) \/ Killed(c)

\* What UserClassifier loads.
Usable(m) == \A p \in Range(Parts) \ {Metadata} : files[m][p] = "whole"

-----------------------------------------------------------------------------

\* A model in the list can be loaded, whatever was killed or failed around it,
\* with two exceptions: somebody has begun to delete it (and a save by another
\* request may have put its row back since), or the upload saw an error although
\* its row was saved, and removed the files of a model that is listed.  Files
\* without a row belong to a request under way, or were left by a kill or a
\* failed clean-up (upload_model: "Clean up any saved files on error").
InHand(m) == \E c \in Clients : job[c].model = m

RowsAndFilesAgree ==
    /\ \A m \in rows : Usable(m) \/ m \in doomed \cup unconfirmed
    /\ \A m \in dirs \ rows : InHand(m) \/ m \in stranded
=============================================================================
