-------------------------- MODULE UserModelsProofs --------------------------
(***************************************************************************)
(* Proofs about UserModels as BatchProcessing composes it: for any number  *)
(* of requests, models and files of a model, whatever is killed or fails,  *)
(* a listed model can be loaded until somebody begins to delete it, unless *)
(* its upload saw an error although the row was saved.                     *)
(*                                                                         *)
(* The argument: the identifier of an upload is its own until it saves its *)
(* row (Private), so no other request touches its files; the row is saved  *)
(* when the files are whole; and a directory is removed only for a model   *)
(* that is doomed, whose row was saved unconfirmed, or still private.      *)
(*                                                                         *)
(* And about the batch: for any batch, any redshifts and any limit, a      *)
(* finished batch has the result of each spectrum under its name, made     *)
(* with the redshift given for that name.  A task writes its redshift into *)
(* parameters of its own, so what a running spectrum was given stands      *)
(* until its result is recorded; and no entry of a batch that was read     *)
(* lacks a redshift, when redshifts are given by name.                     *)
(***************************************************************************)
EXTENDS BatchProcessing, FiniteSetTheorems, FunctionTheorems, TLAPS

\* Models whose row is, or was, there to be seen.
Announced == rows \cup doomed

\* Nobody else knows of the model of request c.
Private(c) ==
    /\ job[c].model \in issued \ Announced
    /\ \A d \in Clients \ {c} : job[d].model # job[c].model

Whole(m) == \A p \in Range(Parts) : files[m][p] = "whole"

UploadInv(c) ==
    /\ job[c].pc \in Uploading => Private(c)
    /\ job[c].pc \in {"write", "writing"} =>
        /\ job[c].part \in 1..Len(Parts)
        /\ \A i \in 1..(job[c].part - 1) : files[job[c].model][Parts[i]] = "whole"
    /\ At(c, "writing") => job[c].model \in dirs
    /\ job[c].pc \in {"validate", "save"} => Whole(job[c].model)

RemovalInv(c) ==
    /\ At(c, "remove") => /\ job[c].model \in doomed \cup unconfirmed \/ Private(c)
                          /\ job[c].then = "forget" => job[c].model \in doomed
    /\ At(c, "forget") => /\ job[c].model \in doomed
                          /\ job[c].model \notin dirs \/ job[c].model \in stranded

JobInv(c) ==
    /\ job[c].pc \in {"idle", "batch"} => job[c].model = NoModel
    /\ UploadInv(c)
    /\ RemovalInv(c)
    /\ job[c].pc \in Updating => job[c].model \in Announced

\* A directory without a row is an upload's, or a leftover.
Claimed(m) ==
    \E c \in Clients : /\ job[c].model = m
                       /\ job[c].pc \in Uploading \cup {"remove"}

StoreInv ==
    /\ \A m \in rows : Usable(m) \/ m \in doomed \cup unconfirmed
    /\ \A m \in dirs \ rows : m \in stranded \/ Claimed(m)

BatchInv ==
    /\ batch \in BatchJob
    /\ batch.pc # "off" => batch.by \in Clients /\ At(batch.by, "batch")

IInv == TypeOK /\ (\A c \in Clients : JobInv(c)) /\ StoreInv /\ BatchInv

\* What a step of request c leaves alone: everything but its own model.
Local(c) ==
    LET own == job[c].model IN
    /\ \A d \in Clients \ {c} : job'[d] = job[d]
    /\ job'[c].model \in {own, NoModel} \cup Announced \cup (Models \ issued)
    /\ issued \subseteq issued' /\ doomed \subseteq doomed' /\ stranded \subseteq stranded'
    /\ unconfirmed \subseteq unconfirmed'
    /\ rows \ {own} \subseteq rows' /\ rows' \subseteq rows \cup {own}
    /\ Announced \subseteq Announced' /\ Announced' \subseteq Announced \cup {own}
    /\ \A m \in Models \ {own} : files'[m] = files[m] /\ (m \in dirs' <=> m \in dirs)
    /\ own \in dirs' => own \in dirs \/ Private(c)

\* What the step owes for the model it worked on.
OwnModel(c) ==
    \A m \in Models : m = job[c].model =>
        /\ m \in rows' => Usable(m)' \/ m \in doomed' \cup unconfirmed'
        /\ m \in dirs' \ rows' => m \in stranded' \/ Claimed(m)'

-----------------------------------------------------------------------------

LEMMA PartsFacts ==
    /\ Len(Parts) \in Nat \ {0}
    /\ \A i \in 1..Len(Parts) : Parts[i] \in Range(Parts)
    /\ \A p \in Range(Parts) : \E i \in 1..Len(Parts) : Parts[i] = p
    /\ \A i, j \in 1..Len(Parts) : Parts[i] = Parts[j] => i = j
    /\ Metadata \in Range(Parts)
BY PartsAreDistinct DEF Range, Last, IsInjective

\* Types in a form the provers use.
LEMMA Types ==
    ASSUME TypeOK, NEW c \in Clients
    PROVE  /\ job[c].pc \in Steps /\ job[c].model \in issued \cup {NoModel}
           /\ job[c].part \in 0..Len(Parts) /\ job[c].then \in {"idle", "forget"}
           /\ rows \subseteq Models /\ dirs \subseteq Models /\ issued \subseteq Models
           /\ doomed \subseteq Models /\ unconfirmed \subseteq Models
BY DEF TypeOK

Job(models) ==
    [pc : Steps, model : models \cup {NoModel}, part : 0..Len(Parts), then : {"idle", "forget"}]

\* Abbreviations: the job of c becomes r, and one file changes.
Doing(pc, m, part, then) == [pc |-> pc, model |-> m, part |-> part, then |-> then]

JobBecomes(c, r) ==
    /\ job' \in [Clients -> Job(issued')] /\ job'[c] = r
    /\ \A d \in Clients \ {c} : job'[d] = job[d]

OneFile(m, p, state) ==
    /\ files' \in [Models -> [Range(Parts) -> {"missing", "torn", "whole"}]]
    /\ files'[m][p] = state
    /\ \A n \in Models \ {m} : files'[n] = files[n]
    /\ \A q \in Range(Parts) \ {p} : files'[m][q] = files[m][q]

USE DEF Doing, JobBecomes, OneFile

\* What the ways to change a job do.
LEMMA SetJob ==
    ASSUME TypeOK, NEW c \in Clients, issued \subseteq issued', NEW r \in Job(issued'),
           job' = [job EXCEPT ![c] = r]
    PROVE  JobBecomes(c, r)
BY DEF TypeOK, Job

LEMMA BeginStep ==
    ASSUME TypeOK, NEW c \in Clients, issued \subseteq issued', NEW pc \in Steps, NEW m \in issued',
           NEW part \in 0..Len(Parts), NEW then \in {"idle", "forget"},
           Becomes(c, pc, m, part, then)
    PROVE  JobBecomes(c, Doing(pc, m, part, then))
BY SetJob, Doing(pc, m, part, then) \in Job(issued') DEF Becomes, Job

LEMMA EndStep ==
    ASSUME TypeOK, NEW c \in Clients, issued \subseteq issued',
           End(c)
    PROVE  JobBecomes(c, Doing("idle", NoModel, 0, "idle"))
<1>1. NoJob \in Job(issued')
  BY PartsFacts DEF NoJob, Job, Steps
<1>. QED  BY <1>1, SetJob DEF End, NoJob

LEMMA GotoStep ==
    ASSUME TypeOK, NEW c \in Clients, issued \subseteq issued', NEW pc \in Steps,
           Goto(c, pc)
    PROVE  JobBecomes(c, Doing(pc, job[c].model, job[c].part, job[c].then))
<1>. DEFINE r == Doing(pc, job[c].model, job[c].part, job[c].then)
<1>1. r \in Job(issued')
  BY Types DEF Job
<1>. QED  BY <1>1, SetJob DEF Becomes, Goto

LEMMA CleanStep ==
    ASSUME TypeOK, NEW c \in Clients, issued \subseteq issued', NEW then \in {"idle", "forget"},
           Clean(c, then)
    PROVE  JobBecomes(c, Doing("remove", job[c].model, job[c].part, then))
<1>. DEFINE r == Doing("remove", job[c].model, job[c].part, then)
<1>1. r \in Job(issued')
  BY Types DEF Job, Steps, Deleting
<1>. QED  BY <1>1, SetJob DEF Becomes, Clean

LEMMA NextPartStep ==
    ASSUME TypeOK, NEW c \in Clients, issued \subseteq issued', job[c].part \in 1..(Len(Parts) - 1),
           NextPart(c)
    PROVE  JobBecomes(c, Doing("write", job[c].model, job[c].part + 1, job[c].then))
<1>. DEFINE r == Doing("write", job[c].model, job[c].part + 1, job[c].then)
<1>1. r \in Job(issued')
  BY Types, PartsFacts DEF Job, Steps, Uploading
<1>. QED  BY <1>1, SetJob DEF Becomes, NextPart

LEMMA FilesTyped ==
    ASSUME TypeOK, NEW m \in Models, NEW p, NEW state \in {"missing", "torn", "whole"},
           p \in Range(Parts), SetFile(m, p, state)
    PROVE  OneFile(m, p, state)
BY DEF TypeOK, SetFile

\* A step of one request keeps what holds of the others.
LEMMA OthersKeep ==
    ASSUME IInv, NEW c \in Clients, Local(c), NEW d \in Clients \ {c}
    PROVE  JobInv(d)'
<1>. DEFINE m == job[d].model
            own == job[c].model
<1>1. JobInv(d) /\ job'[d] = job[d] /\ NoModel \notin Models
  BY NoModelIsNone DEF IInv, Local
<1>2. m \in issued \cup {NoModel} /\ issued \subseteq Models /\ rows \subseteq Models /\ doomed \subseteq Models
  BY Types DEF IInv
<1>3. ASSUME Private(d) PROVE Private(d)' /\ m # own /\ m \in Models
  <2>1. m \in issued' /\ m # own /\ m \in Models
    BY <1>2, <1>3 DEF Private, Local
  <2>2. m \notin Announced'
    BY <1>3, <2>1 DEF Private, Local
  <2>3. \A e \in Clients \ {d} : job'[e].model # m
    BY <1>1, <1>2, <1>3, <2>1 DEF Private, Local
  <2>. QED  BY <1>1, <2>1, <2>2, <2>3 DEF Private
<1>4. UploadInv(d)'
  <2>1. CASE Private(d)
    <3>1. files'[m] = files[m] /\ (m \in dirs' <=> m \in dirs)
      BY <1>3, <2>1 DEF Local
    <3>. QED  BY <1>1, <1>3, <2>1, <3>1 DEF JobInv, UploadInv, At, Whole
  <2>2. CASE ~Private(d)
    BY <1>1, <2>2 DEF JobInv, UploadInv, At, Uploading
  <2>. QED  BY <2>1, <2>2
<1>5. RemovalInv(d)'
  <2>1. CASE At(d, "forget")
    <3>1. m \in doomed /\ (m \notin dirs \/ m \in stranded)
      BY <1>1, <2>1 DEF JobInv, RemovalInv
    <3>2. m \in Models /\ (m \in dirs' => m \in dirs)
      BY <1>2, <3>1 DEF Local, Private, Announced
    <3>. QED  BY <1>1, <2>1, <3>1, <3>2 DEF RemovalInv, At, Local
  <2>2. CASE ~At(d, "forget")
    BY <1>1, <1>3, <2>2 DEF JobInv, RemovalInv, At, Local
  <2>. QED  BY <2>1, <2>2
<1>6. (job[d].pc \in Updating => m \in Announced)'
  BY <1>1 DEF JobInv, Local
<1>. QED  BY <1>1, <1>4, <1>5, <1>6 DEF JobInv

\* So a step has to be looked at for its own request and model only.
LEMMA LocalStep ==
    ASSUME IInv, NEW c \in Clients, Local(c), TypeOK', JobInv(c)', OwnModel(c)
    PROVE  (TypeOK /\ (\A d \in Clients : JobInv(d)) /\ StoreInv)'
<1>. DEFINE own == job[c].model
<1>1. \A d \in Clients : JobInv(d)'
  BY OthersKeep
<1>0. rows' \subseteq Models /\ dirs' \subseteq Models
  BY DEF TypeOK
<1>2. ASSUME NEW m \in rows', m \notin doomed' \cup unconfirmed' PROVE Usable(m)'
  <2>1. CASE m = own
    BY <1>0, <1>2, <2>1 DEF OwnModel
  <2>2. CASE m # own
    <3>1. m \in rows /\ m \notin doomed \cup unconfirmed /\ m \in Models
      BY <1>2, <2>2, Types DEF Local, IInv
    <3>2. files'[m] = files[m]
      BY <2>2, <3>1 DEF Local
    <3>. QED  BY <3>1, <3>2 DEF IInv, StoreInv, Usable
  <2>. QED  BY <2>1, <2>2
<1>3. ASSUME NEW m \in dirs' \ rows' PROVE m \in stranded' \/ Claimed(m)'
  <2>1. CASE m = own
    BY <1>0, <1>3, <2>1 DEF OwnModel, Claimed
  <2>2. CASE m # own
    <3>1. m \in dirs \ rows
      BY <1>0, <1>3, <2>2 DEF Local
    <3>2. m \in stranded \/ Claimed(m)
      BY <3>1 DEF IInv, StoreInv
    <3>. QED  BY <2>2, <3>2 DEF Claimed, Local
  <2>. QED  BY <2>1, <2>2
<1>. QED  BY <1>1, <1>2, <1>3 DEF StoreInv

LEMMA ModelInHand ==
    ASSUME TypeOK, NEW c \in Clients, JobInv(c), job[c].pc \notin {"idle", "batch"}
    PROVE  job[c].model \in issued /\ job[c].model \in Models
BY Types DEF TypeOK, JobInv, UploadInv, RemovalInv, Private, At, Announced,
             Steps, Uploading, Deleting, Updating

-----------------------------------------------------------------------------

LEMMA StartUploadKeeps ==
    ASSUME IInv, NEW c \in Clients, StartUpload(c)
    PROVE  (TypeOK /\ (\A d \in Clients : JobInv(d)) /\ StoreInv)'
<1>. USE DEF StartUpload, At, store, history
<1>0. TypeOK /\ JobInv(c) /\ StoreInv
  BY DEF IInv
<1>m. PICK m \in Models \ issued : issued' = issued \cup {m} /\ Becomes(c, "write", m, 1, "idle")
  OBVIOUS
<1>1. JobBecomes(c, Doing("write", m, 1, "idle"))
  <2>1. 1 \in 0..Len(Parts) /\ "write" \in Steps /\ m \in issued' /\ issued \subseteq issued'
    BY <1>m, PartsFacts DEF Steps, Uploading
  <2>. QED  BY <1>0, <1>m, <2>1, BeginStep
<1>3. TypeOK'
  BY <1>0, <1>1, <1>m, Types, PartsFacts DEF TypeOK, NoFiles, Job
<1>4. Local(c)
  BY <1>0, <1>1, <1>m, Types
     DEF JobInv, UploadInv, RemovalInv, Local, Announced, Private, Uploading, Updating,
         NoJob
<1>5. JobInv(c)'
  <2>1. \A d \in Clients : job[d].model \in issued \cup {NoModel}
    BY <1>0, Types
  <2>2. Private(c)'
    BY <1>0, <1>1, <1>m, <2>1, NoModelIsNone DEF TypeOK, Private, Announced
  <2>. QED  BY <1>1, <2>2, PartsFacts
               DEF JobInv, UploadInv, RemovalInv, Uploading, Updating
<1>6. OwnModel(c)
  BY <1>0, <1>1, <1>m, Types, PartsFacts, NoModelIsNone
     DEF JobInv, UploadInv, RemovalInv, StoreInv, OwnModel, Usable, Claimed, Announced,
         Private, Whole, Uploading, Updating, NoJob
<1>. QED  BY <1>3, <1>4, <1>5, <1>6, LocalStep

LEMMA BeginPartKeeps ==
    ASSUME IInv, NEW c \in Clients, BeginPart(c)
    PROVE  (TypeOK /\ (\A d \in Clients : JobInv(d)) /\ StoreInv)'
<1>. USE DEF BeginPart, At, store, history
<1>0. TypeOK /\ JobInv(c) /\ StoreInv /\ job[c].model \in issued /\ job[c].model \in Models
  BY ModelInHand DEF IInv
<1>1. JobBecomes(c, Doing("writing", job[c].model, job[c].part, job[c].then))
  BY <1>0, GotoStep DEF Steps, Uploading, Deleting, Updating
<1>2. OneFile(job[c].model, Parts[job[c].part], "torn")
  BY <1>0, FilesTyped, PartsFacts DEF JobInv, UploadInv
<1>3. TypeOK'
  BY <1>0, <1>1, <1>2, Types, PartsFacts DEF TypeOK, NoFiles, Job
<1>4. Local(c)
  BY <1>0, <1>1, <1>2, Types
     DEF JobInv, UploadInv, RemovalInv, Local, Announced, Private, Uploading, Updating,
         NoJob
<1>5. JobInv(c)'
  <2>1. Private(c)'
    BY <1>0, <1>1 DEF JobInv, UploadInv, Uploading, Private, Announced
  <2>2. /\ job[c].part \in 1..Len(Parts)
        /\ \A i \in 1..(job[c].part - 1) : files[job[c].model][Parts[i]] = "whole"
    BY <1>0 DEF JobInv, UploadInv
  <2>3. ASSUME NEW i \in 1..(job[c].part - 1) PROVE files'[job[c].model][Parts[i]] = "whole"
    <3>1. i \in 1..Len(Parts) /\ i # job[c].part
      BY <2>2, PartsFacts
    <3>2. Parts[i] \in Range(Parts) \ {Parts[job[c].part]}
      BY <2>2, <3>1, PartsFacts
    <3>. QED  BY <1>2, <2>2, <3>2
  <2>. QED  BY <1>1, <2>1, <2>2, <2>3
               DEF JobInv, UploadInv, RemovalInv, Uploading, Updating
<1>6. OwnModel(c)
  BY <1>0, <1>1, <1>2, Types, PartsFacts, NoModelIsNone
     DEF JobInv, UploadInv, RemovalInv, StoreInv, OwnModel, Usable, Claimed, Announced,
         Private, Whole, Uploading, Updating, NoJob
<1>. QED  BY <1>3, <1>4, <1>5, <1>6, LocalStep

LEMMA EndPartKeeps ==
    ASSUME IInv, NEW c \in Clients, EndPart(c)
    PROVE  (TypeOK /\ (\A d \in Clients : JobInv(d)) /\ StoreInv)'
<1>. USE DEF EndPart, At, store, history
<1>0. TypeOK /\ JobInv(c) /\ StoreInv /\ job[c].model \in issued /\ job[c].model \in Models
  BY ModelInHand DEF IInv
<1>a. job[c].part \in 1..Len(Parts)
  BY <1>0 DEF JobInv, UploadInv
<1>1. JobBecomes(c, IF job[c].part < Len(Parts)
                   THEN Doing("write", job[c].model, job[c].part + 1, job[c].then)
                   ELSE Doing("validate", job[c].model, job[c].part, job[c].then))
  <2>1. CASE job[c].part < Len(Parts)
    BY <1>0, <1>a, <2>1, NextPartStep, PartsFacts
  <2>2. CASE ~(job[c].part < Len(Parts))
    BY <1>0, <2>2, GotoStep DEF Steps, Uploading
  <2>. QED  BY <2>1, <2>2
<1>2. OneFile(job[c].model, Parts[job[c].part], "whole")
  BY <1>0, FilesTyped, PartsFacts DEF JobInv, UploadInv
<1>3. TypeOK'
  <2>1. job[c].model \in dirs
    BY <1>0 DEF JobInv, UploadInv
  <2>. QED  BY <1>0, <1>1, <1>2, <2>1, Types DEF TypeOK, NoFiles, Job
<1>4. Local(c)
  BY <1>0, <1>1, <1>2, <1>a, Types
     DEF JobInv, UploadInv, RemovalInv, Local, Announced, Private, Uploading, Updating,
         NoJob
<1>5. JobInv(c)'
  <2>1. Private(c)'
    BY <1>0, <1>1 DEF JobInv, UploadInv, Uploading, Private, Announced
  <2>2. \A i \in 1..(job[c].part - 1) : files[job[c].model][Parts[i]] = "whole"
    BY <1>0 DEF JobInv, UploadInv
  <2>3. ASSUME NEW i \in 1..job[c].part PROVE files'[job[c].model][Parts[i]] = "whole"
    <3>1. CASE i = job[c].part
      BY <1>2, <3>1
    <3>2. CASE i # job[c].part
      <4>1. i \in 1..(job[c].part - 1) /\ i \in 1..Len(Parts)
        BY <1>a, <3>2, PartsFacts
      <4>2. Parts[i] \in Range(Parts) \ {Parts[job[c].part]}
        BY <1>a, <3>2, <4>1, PartsFacts
      <4>. QED  BY <1>2, <2>2, <4>1, <4>2
    <3>. QED  BY <3>1, <3>2
  <2>4. CASE job[c].part < Len(Parts)
    BY <1>1, <1>a, <2>1, <2>3, <2>4, PartsFacts
       DEF JobInv, UploadInv, RemovalInv, Uploading, Updating
  <2>5. CASE ~(job[c].part < Len(Parts))
    <3>1. job[c].part = Len(Parts)
      BY <1>a, <2>5, PartsFacts
    <3>2. \A p \in Range(Parts) : files'[job[c].model][p] = "whole"
      BY <2>3, <3>1, PartsFacts
    <3>. QED  BY <1>1, <2>1, <2>5, <3>2
                 DEF JobInv, UploadInv, RemovalInv, Whole, Uploading, Updating
  <2>. QED  BY <2>4, <2>5
<1>6. OwnModel(c)
  BY <1>0, <1>1, <1>2, <1>a, Types, PartsFacts, NoModelIsNone
     DEF JobInv, UploadInv, RemovalInv, StoreInv, OwnModel, Usable, Claimed, Announced,
         Private, Whole, Uploading, Updating, NoJob
<1>. QED  BY <1>3, <1>4, <1>5, <1>6, LocalStep

LEMMA WriteFailsKeeps ==
    ASSUME IInv, NEW c \in Clients, WriteFails(c)
    PROVE  (TypeOK /\ (\A d \in Clients : JobInv(d)) /\ StoreInv)'
<1>. USE DEF WriteFails, At, store, history
<1>0. TypeOK /\ JobInv(c) /\ StoreInv /\ job[c].model \in issued /\ job[c].model \in Models
  BY ModelInHand DEF IInv
<1>1. JobBecomes(c, Doing("remove", job[c].model, job[c].part, "idle"))
  BY <1>0, CleanStep
<1>3. TypeOK'
  BY <1>0, <1>1, Types, PartsFacts DEF TypeOK, NoFiles, Job
<1>4. Local(c)
  BY <1>0, <1>1, Types
     DEF JobInv, UploadInv, RemovalInv, Local, Announced, Private, Uploading, Updating,
         NoJob
<1>5. JobInv(c)'
  BY <1>0, <1>1, Types, PartsFacts, NoModelIsNone
     DEF JobInv, UploadInv, RemovalInv, Announced, Private, Whole, Uploading, Updating,
         NoJob
<1>6. OwnModel(c)
  BY <1>0, <1>1, Types, PartsFacts, NoModelIsNone
     DEF JobInv, UploadInv, RemovalInv, StoreInv, OwnModel, Usable, Claimed, Announced,
         Private, Whole, Uploading, Updating, NoJob
<1>. QED  BY <1>3, <1>4, <1>5, <1>6, LocalStep

LEMMA ValidateKeeps ==
    ASSUME IInv, NEW c \in Clients, Validate(c)
    PROVE  (TypeOK /\ (\A d \in Clients : JobInv(d)) /\ StoreInv)'
<1>. USE DEF Validate, At, store, history
<1>0. TypeOK /\ JobInv(c) /\ StoreInv /\ job[c].model \in issued /\ job[c].model \in Models
  BY ModelInHand DEF IInv
<1>1. JobBecomes(c, Doing("save", job[c].model, job[c].part, job[c].then))
  BY <1>0, GotoStep DEF Steps, Uploading, Deleting, Updating
<1>3. TypeOK'
  BY <1>0, <1>1, Types, PartsFacts DEF TypeOK, NoFiles, Job
<1>4. Local(c)
  BY <1>0, <1>1, Types
     DEF JobInv, UploadInv, RemovalInv, Local, Announced, Private, Uploading, Updating,
         NoJob
<1>5. JobInv(c)'
  BY <1>0, <1>1, Types, PartsFacts, NoModelIsNone
     DEF JobInv, UploadInv, RemovalInv, Announced, Private, Whole, Uploading, Updating,
         NoJob
<1>6. OwnModel(c)
  BY <1>0, <1>1, Types, PartsFacts, NoModelIsNone
     DEF JobInv, UploadInv, RemovalInv, StoreInv, OwnModel, Usable, Claimed, Announced,
         Private, Whole, Uploading, Updating, NoJob
<1>. QED  BY <1>3, <1>4, <1>5, <1>6, LocalStep

LEMMA SaveRowKeeps ==
    ASSUME IInv, NEW c \in Clients, SaveRow(c)
    PROVE  (TypeOK /\ (\A d \in Clients : JobInv(d)) /\ StoreInv)'
<1>. USE DEF SaveRow, At, store, history
<1>0. TypeOK /\ JobInv(c) /\ StoreInv /\ job[c].model \in issued /\ job[c].model \in Models
  BY ModelInHand DEF IInv
<1>1. JobBecomes(c, Doing("idle", NoModel, 0, "idle"))
  BY <1>0, EndStep
<1>3. TypeOK'
  BY <1>0, <1>1, Types, PartsFacts DEF TypeOK, NoFiles, Job
<1>4. Local(c)
  BY <1>0, <1>1, Types
     DEF JobInv, UploadInv, RemovalInv, Local, Announced, Private, Uploading, Updating,
         NoJob
<1>5. JobInv(c)'
  BY <1>0, <1>1, Types, PartsFacts, NoModelIsNone
     DEF JobInv, UploadInv, RemovalInv, Announced, Private, Whole, Uploading, Updating,
         NoJob
<1>6. OwnModel(c)
  BY <1>0, <1>1, Types, PartsFacts, NoModelIsNone
     DEF JobInv, UploadInv, RemovalInv, StoreInv, OwnModel, Usable, Claimed, Announced,
         Private, Whole, Uploading, Updating, NoJob
<1>. QED  BY <1>3, <1>4, <1>5, <1>6, LocalStep

LEMMA SaveFailsKeeps ==
    ASSUME IInv, NEW c \in Clients, SaveFails(c)
    PROVE  (TypeOK /\ (\A d \in Clients : JobInv(d)) /\ StoreInv)'
<1>. USE DEF SaveFails, At, store, history
<1>0. TypeOK /\ JobInv(c) /\ StoreInv /\ job[c].model \in issued /\ job[c].model \in Models
  BY ModelInHand DEF IInv
<1>1. JobBecomes(c, Doing("remove", job[c].model, job[c].part, "idle"))
  BY <1>0, CleanStep
<1>3. TypeOK'
  BY <1>0, <1>1, Types, PartsFacts DEF TypeOK, NoFiles, Job
<1>4. Local(c)
  BY <1>0, <1>1, Types
     DEF JobInv, UploadInv, RemovalInv, Local, Announced, Private, Uploading, Updating,
         NoJob
<1>5. JobInv(c)'
  BY <1>0, <1>1, Types, PartsFacts, NoModelIsNone
     DEF JobInv, UploadInv, RemovalInv, Announced, Private, Whole, Uploading, Updating,
         NoJob
<1>6. OwnModel(c)
  BY <1>0, <1>1, Types, PartsFacts, NoModelIsNone
     DEF JobInv, UploadInv, RemovalInv, StoreInv, OwnModel, Usable, Claimed, Announced,
         Private, Whole, Uploading, Updating, NoJob
<1>. QED  BY <1>3, <1>4, <1>5, <1>6, LocalStep

LEMMA SaveUnconfirmedKeeps ==
    ASSUME IInv, NEW c \in Clients, SaveUnconfirmed(c)
    PROVE  (TypeOK /\ (\A d \in Clients : JobInv(d)) /\ StoreInv)'
<1>. USE DEF SaveUnconfirmed, At, store, history
<1>0. TypeOK /\ JobInv(c) /\ StoreInv /\ job[c].model \in issued /\ job[c].model \in Models
  BY ModelInHand DEF IInv
<1>1. JobBecomes(c, Doing("remove", job[c].model, job[c].part, "idle"))
  BY <1>0, CleanStep
<1>3. TypeOK'
  BY <1>0, <1>1, Types, PartsFacts DEF TypeOK, NoFiles, Job
<1>4. Local(c)
  BY <1>0, <1>1, Types
     DEF JobInv, UploadInv, RemovalInv, Local, Announced, Private, Uploading, Updating,
         NoJob
<1>5. JobInv(c)'
  BY <1>0, <1>1, Types, PartsFacts, NoModelIsNone
     DEF JobInv, UploadInv, RemovalInv, Announced, Private, Whole, Uploading, Updating,
         NoJob
<1>6. OwnModel(c)
  BY <1>0, <1>1, Types, PartsFacts, NoModelIsNone
     DEF JobInv, UploadInv, RemovalInv, StoreInv, OwnModel, Usable, Claimed, Announced,
         Private, Whole, Uploading, Updating, NoJob
<1>. QED  BY <1>3, <1>4, <1>5, <1>6, LocalStep

LEMMA RemovePartKeeps ==
    ASSUME IInv, NEW c \in Clients, RemovePart(c)
    PROVE  (TypeOK /\ (\A d \in Clients : JobInv(d)) /\ StoreInv)'
<1>. USE DEF RemovePart, At, store, history
<1>0. TypeOK /\ JobInv(c) /\ StoreInv /\ job[c].model \in issued /\ job[c].model \in Models
  BY ModelInHand DEF IInv
<1>1. PICK p \in Range(Parts) : SetFile(job[c].model, p, "missing")
  OBVIOUS
<1>2. OneFile(job[c].model, p, "missing")
  BY <1>0, <1>1, FilesTyped, PartsFacts DEF JobInv, UploadInv
<1>3. TypeOK'
  <2>1. \A m \in Models \ dirs' : files'[m] = NoFiles
    <3> SUFFICES ASSUME NEW m \in Models \ dirs PROVE files'[m] = NoFiles
      OBVIOUS
    <3>1. files[m] = NoFiles /\ files'[m] \in [Range(Parts) -> {"missing", "torn", "whole"}]
      BY <1>0, <1>2 DEF TypeOK
    <3>2. \A q \in Range(Parts) : files'[m][q] = "missing"
      BY <1>2, <3>1 DEF NoFiles
    <3> QED BY <3>1, <3>2 DEF NoFiles
  <2> QED BY <1>0, <1>2, <2>1 DEF TypeOK
<1>4. Local(c)
  BY <1>0, <1>1, <1>2, Types
     DEF JobInv, UploadInv, RemovalInv, Local, Announced, Private, Uploading, Updating,
         NoJob
<1>5. JobInv(c)'
  BY <1>0, <1>1, <1>2, Types, PartsFacts, NoModelIsNone
     DEF JobInv, UploadInv, RemovalInv, Announced, Private, Whole, Uploading, Updating,
         NoJob
<1>6. OwnModel(c)
  BY <1>0, <1>1, <1>2, Types, PartsFacts, NoModelIsNone
     DEF JobInv, UploadInv, RemovalInv, StoreInv, OwnModel, Usable, Claimed, Announced,
         Private, Whole, Uploading, Updating, NoJob
<1>. QED  BY <1>3, <1>4, <1>5, <1>6, LocalStep

LEMMA RemoveDirKeeps ==
    ASSUME IInv, NEW c \in Clients, RemoveDir(c)
    PROVE  (TypeOK /\ (\A d \in Clients : JobInv(d)) /\ StoreInv)'
<1>. USE DEF RemoveDir, At, store, history
<1>0. TypeOK /\ JobInv(c) /\ StoreInv /\ job[c].model \in issued /\ job[c].model \in Models
  BY ModelInHand DEF IInv
<1>1. JobBecomes(c, IF job[c].then = "idle" THEN NoJob
                   ELSE Doing("forget", job[c].model, job[c].part, job[c].then))
  BY <1>0, GotoStep, EndStep DEF Cleaned, NoJob, Steps, Deleting
<1>3. TypeOK'
  BY <1>0, <1>1, Types, PartsFacts DEF TypeOK, NoFiles, Job
<1>4. Local(c)
  BY <1>0, <1>1, Types
     DEF JobInv, UploadInv, RemovalInv, Local, Announced, Private, Uploading, Updating,
         NoJob
<1>5. JobInv(c)'
  BY <1>0, <1>1, Types, PartsFacts, NoModelIsNone
     DEF JobInv, UploadInv, RemovalInv, Announced, Private, Whole, Uploading, Updating,
         NoJob
<1>6. OwnModel(c)
  BY <1>0, <1>1, Types, PartsFacts, NoModelIsNone
     DEF JobInv, UploadInv, RemovalInv, StoreInv, OwnModel, Usable, Claimed, Announced,
         Private, Whole, Uploading, Updating, NoJob
<1>. QED  BY <1>3, <1>4, <1>5, <1>6, LocalStep

LEMMA RemoveFailsKeeps ==
    ASSUME IInv, NEW c \in Clients, RemoveFails(c)
    PROVE  (TypeOK /\ (\A d \in Clients : JobInv(d)) /\ StoreInv)'
<1>. USE DEF RemoveFails, At, store, history
<1>0. TypeOK /\ JobInv(c) /\ StoreInv /\ job[c].model \in issued /\ job[c].model \in Models
  BY ModelInHand DEF IInv
<1>1. JobBecomes(c, IF job[c].then = "idle" THEN NoJob
                   ELSE Doing("forget", job[c].model, job[c].part, job[c].then))
  BY <1>0, GotoStep, EndStep DEF Cleaned, NoJob, Steps, Deleting
<1>3. TypeOK'
  BY <1>0, <1>1, Types, PartsFacts DEF TypeOK, NoFiles, Job
<1>4. Local(c)
  BY <1>0, <1>1, Types
     DEF JobInv, UploadInv, RemovalInv, Local, Announced, Private, Uploading, Updating,
         NoJob
<1>5. JobInv(c)'
  BY <1>0, <1>1, Types, PartsFacts, NoModelIsNone
     DEF JobInv, UploadInv, RemovalInv, Announced, Private, Whole, Uploading, Updating,
         NoJob
<1>6. OwnModel(c)
  BY <1>0, <1>1, Types, PartsFacts, NoModelIsNone
     DEF JobInv, UploadInv, RemovalInv, StoreInv, OwnModel, Usable, Claimed, Announced,
         Private, Whole, Uploading, Updating, NoJob
<1>. QED  BY <1>3, <1>4, <1>5, <1>6, LocalStep

LEMMA StartDeleteKeeps ==
    ASSUME IInv, NEW c \in Clients, StartDelete(c)
    PROVE  (TypeOK /\ (\A d \in Clients : JobInv(d)) /\ StoreInv)'
<1>. USE DEF StartDelete, At, store, history
<1>0. TypeOK /\ JobInv(c) /\ StoreInv
  BY DEF IInv
<1>m. PICK m \in rows : doomed' = doomed \cup {m} /\ Becomes(c, "remove", m, 0, "forget")
  OBVIOUS
<1>1. JobBecomes(c, Doing("remove", m, 0, "forget"))
  <2>1. 0 \in 0..Len(Parts) /\ "remove" \in Steps /\ m \in issued' /\ issued \subseteq issued'
    BY <1>0, <1>m, PartsFacts DEF TypeOK, Steps, Deleting
  <2>. QED  BY <1>0, <1>m, <2>1, BeginStep
<1>3. TypeOK'
  BY <1>0, <1>1, <1>m, Types, PartsFacts DEF TypeOK, NoFiles, Job
<1>4. Local(c)
  BY <1>0, <1>1, <1>m, Types
     DEF JobInv, UploadInv, RemovalInv, Local, Announced, Private, Uploading, Updating,
         NoJob
<1>5. JobInv(c)'
  BY <1>0, <1>1, <1>m, Types, PartsFacts, NoModelIsNone
     DEF JobInv, UploadInv, RemovalInv, Announced, Private, Whole, Uploading, Updating,
         NoJob
<1>6. OwnModel(c)
  BY <1>0, <1>1, <1>m, Types, PartsFacts, NoModelIsNone
     DEF JobInv, UploadInv, RemovalInv, StoreInv, OwnModel, Usable, Claimed, Announced,
         Private, Whole, Uploading, Updating, NoJob
<1>. QED  BY <1>3, <1>4, <1>5, <1>6, LocalStep

LEMMA ForgetKeeps ==
    ASSUME IInv, NEW c \in Clients, Forget(c)
    PROVE  (TypeOK /\ (\A d \in Clients : JobInv(d)) /\ StoreInv)'
<1>. USE DEF Forget, At, store, history
<1>0. TypeOK /\ JobInv(c) /\ StoreInv /\ job[c].model \in issued /\ job[c].model \in Models
  BY ModelInHand DEF IInv
<1>1. JobBecomes(c, Doing("idle", NoModel, 0, "idle"))
  BY <1>0, EndStep
<1>3. TypeOK'
  BY <1>0, <1>1, Types, PartsFacts DEF TypeOK, NoFiles, Job
<1>4. Local(c)
  BY <1>0, <1>1, Types
     DEF JobInv, UploadInv, RemovalInv, Local, Announced, Private, Uploading, Updating,
         NoJob
<1>5. JobInv(c)'
  BY <1>0, <1>1, Types, PartsFacts, NoModelIsNone
     DEF JobInv, UploadInv, RemovalInv, Announced, Private, Whole, Uploading, Updating,
         NoJob
<1>6. OwnModel(c)
  BY <1>0, <1>1, Types, PartsFacts, NoModelIsNone
     DEF JobInv, UploadInv, RemovalInv, StoreInv, OwnModel, Usable, Claimed, Announced,
         Private, Whole, Uploading, Updating, NoJob
<1>. QED  BY <1>3, <1>4, <1>5, <1>6, LocalStep

LEMMA StartUpdateKeeps ==
    ASSUME IInv, NEW c \in Clients, StartUpdate(c)
    PROVE  (TypeOK /\ (\A d \in Clients : JobInv(d)) /\ StoreInv)'
<1>. USE DEF StartUpdate, At, store, history
<1>0. TypeOK /\ JobInv(c) /\ StoreInv
  BY DEF IInv
<1>m. PICK m \in rows : Becomes(c, "load", m, 0, "idle")
  OBVIOUS
<1>1. JobBecomes(c, Doing("load", m, 0, "idle"))
  <2>1. 0 \in 0..Len(Parts) /\ "load" \in Steps /\ m \in issued' /\ issued \subseteq issued'
    BY <1>0, <1>m, PartsFacts DEF TypeOK, Steps, Updating
  <2>. QED  BY <1>0, <1>m, <2>1, BeginStep
<1>3. TypeOK'
  BY <1>0, <1>1, <1>m, Types, PartsFacts DEF TypeOK, NoFiles, Job
<1>4. Local(c)
  BY <1>0, <1>1, <1>m, Types
     DEF JobInv, UploadInv, RemovalInv, Local, Announced, Private, Uploading, Updating,
         NoJob
<1>5. JobInv(c)'
  BY <1>0, <1>1, <1>m, Types, PartsFacts, NoModelIsNone
     DEF JobInv, UploadInv, RemovalInv, Announced, Private, Whole, Uploading, Updating,
         NoJob
<1>6. OwnModel(c)
  BY <1>0, <1>1, <1>m, Types, PartsFacts, NoModelIsNone
     DEF JobInv, UploadInv, RemovalInv, StoreInv, OwnModel, Usable, Claimed, Announced,
         Private, Whole, Uploading, Updating, NoJob
<1>. QED  BY <1>3, <1>4, <1>5, <1>6, LocalStep

LEMMA LoadMetadataKeeps ==
    ASSUME IInv, NEW c \in Clients, LoadMetadata(c)
    PROVE  (TypeOK /\ (\A d \in Clients : JobInv(d)) /\ StoreInv)'
<1>. USE DEF LoadMetadata, At, store, history
<1>0. TypeOK /\ JobInv(c) /\ StoreInv /\ job[c].model \in issued /\ job[c].model \in Models
  BY ModelInHand DEF IInv
<1>1. JobBecomes(c, Doing("merge", job[c].model, job[c].part, job[c].then))
  BY <1>0, GotoStep DEF Steps, Uploading, Deleting, Updating
<1>3. TypeOK'
  BY <1>0, <1>1, Types, PartsFacts DEF TypeOK, NoFiles, Job
<1>4. Local(c)
  BY <1>0, <1>1, Types
     DEF JobInv, UploadInv, RemovalInv, Local, Announced, Private, Uploading, Updating,
         NoJob
<1>5. JobInv(c)'
  BY <1>0, <1>1, Types, PartsFacts, NoModelIsNone
     DEF JobInv, UploadInv, RemovalInv, Announced, Private, Whole, Uploading, Updating,
         NoJob
<1>6. OwnModel(c)
  BY <1>0, <1>1, Types, PartsFacts, NoModelIsNone
     DEF JobInv, UploadInv, RemovalInv, StoreInv, OwnModel, Usable, Claimed, Announced,
         Private, Whole, Uploading, Updating, NoJob
<1>. QED  BY <1>3, <1>4, <1>5, <1>6, LocalStep

LEMMA BeginMergeKeeps ==
    ASSUME IInv, NEW c \in Clients, BeginMerge(c)
    PROVE  (TypeOK /\ (\A d \in Clients : JobInv(d)) /\ StoreInv)'
<1>. USE DEF BeginMerge, At, store, history
<1>0. TypeOK /\ JobInv(c) /\ StoreInv /\ job[c].model \in issued /\ job[c].model \in Models
  BY ModelInHand DEF IInv
<1>1. JobBecomes(c, Doing("merging", job[c].model, job[c].part, job[c].then))
  BY <1>0, GotoStep DEF Steps, Uploading, Deleting, Updating
<1>2. OneFile(job[c].model, Metadata, "torn")
  BY <1>0, FilesTyped, PartsFacts DEF JobInv, UploadInv
<1>3. TypeOK'
  BY <1>0, <1>1, <1>2, Types, PartsFacts DEF TypeOK, NoFiles, Job
<1>4. Local(c)
  BY <1>0, <1>1, <1>2, Types
     DEF JobInv, UploadInv, RemovalInv, Local, Announced, Private, Uploading, Updating,
         NoJob
<1>5. JobInv(c)'
  BY <1>0, <1>1, <1>2, Types, PartsFacts, NoModelIsNone
     DEF JobInv, UploadInv, RemovalInv, Announced, Private, Whole, Uploading, Updating,
         NoJob
<1>6. OwnModel(c)
  <2>. SUFFICES ASSUME NEW m \in Models, m = job[c].model
                PROVE  /\ m \in rows' => Usable(m)' \/ m \in doomed' \cup unconfirmed'
                       /\ m \in dirs' \ rows' => m \in stranded' \/ Claimed(m)'
    BY DEF OwnModel
  <2>1. m \in rows' => Usable(m)' \/ m \in doomed' \cup unconfirmed'
    <3>1. \A p \in Range(Parts) \ {Metadata} : files'[m][p] = files[m][p]
      BY <1>2
    <3>. QED  BY <1>0, <3>1 DEF StoreInv, Usable
  <2>2. m \in dirs' \ rows' => m \in stranded' \/ Claimed(m)'
    BY <1>0, <1>1 DEF StoreInv, Claimed, Uploading
  <2>. QED  BY <2>1, <2>2
<1>. QED  BY <1>3, <1>4, <1>5, <1>6, LocalStep

LEMMA EndMergeKeeps ==
    ASSUME IInv, NEW c \in Clients, EndMerge(c)
    PROVE  (TypeOK /\ (\A d \in Clients : JobInv(d)) /\ StoreInv)'
<1>. USE DEF EndMerge, At, store, history
<1>0. TypeOK /\ JobInv(c) /\ StoreInv /\ job[c].model \in issued /\ job[c].model \in Models
  BY ModelInHand DEF IInv
<1>1. JobBecomes(c, Doing("resave", job[c].model, job[c].part, job[c].then))
  BY <1>0, GotoStep DEF Steps, Uploading, Deleting, Updating
<1>2. /\ files' \in [Models -> [Range(Parts) -> {"missing", "torn", "whole"}]]
      /\ \A n \in Models \ {job[c].model} : files'[n] = files[n]
      /\ files' # files => files[job[c].model][Metadata] = "torn"
      /\ \A q \in Range(Parts) \ {Metadata} : files'[job[c].model][q] = files[job[c].model][q]
  BY <1>0, PartsFacts DEF TypeOK
<1>3. TypeOK'
  BY <1>0, <1>1, <1>2, Types, PartsFacts DEF TypeOK, NoFiles, Job
<1>4. Local(c)
  BY <1>0, <1>1, <1>2, Types
     DEF JobInv, UploadInv, RemovalInv, Local, Announced, Private, Uploading, Updating,
         NoJob
<1>5. JobInv(c)'
  BY <1>0, <1>1, <1>2, Types, PartsFacts, NoModelIsNone
     DEF JobInv, UploadInv, RemovalInv, Announced, Private, Whole, Uploading, Updating,
         NoJob
<1>6. OwnModel(c)
  <2>. SUFFICES ASSUME NEW m \in Models, m = job[c].model
                PROVE  /\ m \in rows' => Usable(m)' \/ m \in doomed' \cup unconfirmed'
                       /\ m \in dirs' \ rows' => m \in stranded' \/ Claimed(m)'
    BY DEF OwnModel
  <2>1. m \in rows' => Usable(m)' \/ m \in doomed' \cup unconfirmed'
    <3>1. \A p \in Range(Parts) \ {Metadata} : files'[m][p] = files[m][p]
      BY <1>2
    <3>. QED  BY <1>0, <3>1 DEF StoreInv, Usable
  <2>2. m \in dirs' \ rows' => m \in stranded' \/ Claimed(m)'
    BY <1>0, <1>1 DEF StoreInv, Claimed, Uploading
  <2>. QED  BY <2>1, <2>2
<1>. QED  BY <1>3, <1>4, <1>5, <1>6, LocalStep

LEMMA ResaveKeeps ==
    ASSUME IInv, NEW c \in Clients, Resave(c)
    PROVE  (TypeOK /\ (\A d \in Clients : JobInv(d)) /\ StoreInv)'
<1>. USE DEF Resave, At, store, history
<1>0. TypeOK /\ JobInv(c) /\ StoreInv /\ job[c].model \in issued /\ job[c].model \in Models
  BY ModelInHand DEF IInv
<1>1. JobBecomes(c, Doing("idle", NoModel, 0, "idle"))
  BY <1>0, EndStep
<1>3. TypeOK'
  BY <1>0, <1>1, Types, PartsFacts DEF TypeOK, NoFiles, Job
<1>4. Local(c)
  BY <1>0, <1>1, Types
     DEF JobInv, UploadInv, RemovalInv, Local, Announced, Private, Uploading, Updating,
         NoJob
<1>5. JobInv(c)'
  BY <1>0, <1>1, Types, PartsFacts, NoModelIsNone
     DEF JobInv, UploadInv, RemovalInv, Announced, Private, Whole, Uploading, Updating,
         NoJob
<1>6. OwnModel(c)
  BY <1>0, <1>1, Types, PartsFacts, NoModelIsNone
     DEF JobInv, UploadInv, RemovalInv, StoreInv, OwnModel, Usable, Claimed, Announced,
         Private, Whole, Uploading, Updating, NoJob
<1>. QED  BY <1>3, <1>4, <1>5, <1>6, LocalStep

LEMMA RequestFailsKeeps ==
    ASSUME IInv, NEW c \in Clients, RequestFails(c)
    PROVE  (TypeOK /\ (\A d \in Clients : JobInv(d)) /\ StoreInv)'
<1>. USE DEF RequestFails, At, store, history
<1>0. TypeOK /\ JobInv(c) /\ StoreInv /\ job[c].model \in issued /\ job[c].model \in Models
  BY ModelInHand DEF IInv, Updating
<1>1. JobBecomes(c, Doing("idle", NoModel, 0, "idle"))
  BY <1>0, EndStep
<1>3. TypeOK'
  BY <1>0, <1>1, Types, PartsFacts DEF TypeOK, NoFiles, Job
<1>4. Local(c)
  BY <1>0, <1>1, Types
     DEF JobInv, UploadInv, RemovalInv, Local, Announced, Private, Uploading, Updating,
         NoJob
<1>5. JobInv(c)'
  BY <1>0, <1>1, Types, PartsFacts, NoModelIsNone
     DEF JobInv, UploadInv, RemovalInv, Announced, Private, Whole, Uploading, Updating,
         NoJob
<1>6. OwnModel(c)
  BY <1>0, <1>1, Types, PartsFacts, NoModelIsNone
     DEF JobInv, UploadInv, RemovalInv, StoreInv, OwnModel, Usable, Claimed, Announced,
         Private, Whole, Uploading, Updating, NoJob
<1>. QED  BY <1>3, <1>4, <1>5, <1>6, LocalStep

LEMMA KilledKeeps ==
    ASSUME IInv, NEW c \in Clients, Killed(c)
    PROVE  (TypeOK /\ (\A d \in Clients : JobInv(d)) /\ StoreInv)'
<1>. USE DEF Killed, At, store, history
<1>0. TypeOK /\ JobInv(c) /\ StoreInv /\ job[c].model \in issued /\ job[c].model \in Models
  BY ModelInHand DEF IInv
<1>1. JobBecomes(c, Doing("idle", NoModel, 0, "idle"))
  BY <1>0, EndStep
<1>3. TypeOK'
  BY <1>0, <1>1, Types, PartsFacts DEF TypeOK, NoFiles, Job
<1>4. Local(c)
  BY <1>0, <1>1, Types
     DEF JobInv, UploadInv, RemovalInv, Local, Announced, Private, Uploading, Updating,
         NoJob
<1>5. JobInv(c)'
  BY <1>0, <1>1, Types, PartsFacts, NoModelIsNone
     DEF JobInv, UploadInv, RemovalInv, Announced, Private, Whole, Uploading, Updating,
         NoJob
<1>6. OwnModel(c)
  BY <1>0, <1>1, Types, PartsFacts, NoModelIsNone
     DEF JobInv, UploadInv, RemovalInv, StoreInv, OwnModel, Usable, Claimed, Announced,
         Private, Whole, Uploading, Updating, NoJob
<1>. QED  BY <1>3, <1>4, <1>5, <1>6, LocalStep

-----------------------------------------------------------------------------

LEMMA InitHolds == InitBatch => IInv
<1>. SUFFICES ASSUME InitBatch PROVE IInv
  OBVIOUS
<1>. USE DEF InitBatch, InitModels
<1>1. TypeOK
  BY PartsFacts DEF TypeOK, NoJob, NoFiles, Steps
<1>2. \A c \in Clients : JobInv(c)
  BY DEF JobInv, UploadInv, RemovalInv, At, NoJob, Uploading, Updating
<1>3. StoreInv /\ BatchInv
  BY DEF StoreInv, BatchInv, NoBatch, BatchJob
<1>. QED  BY <1>1, <1>2, <1>3 DEF IInv

\* Every step of a request, and no step of the store is the batch's.
LEMMA StoreKeeps ==
    ASSUME IInv, NEW c \in Clients, Store(c), UNCHANGED batchVars
    PROVE  IInv'
<1>. SUFFICES (TypeOK /\ (\A d \in Clients : JobInv(d)) /\ StoreInv)'
  <2>1. job[c].pc # "batch" /\ \A d \in Clients \ {c} : job'[d] = job[d]
    BY DEF IInv, TypeOK, Store, PageUpload, ApiUpload, StartUpload, BeginPart,
       EndPart, WriteFails, Validate, SaveRow, SaveFails, SaveUnconfirmed,
       RemovePart, RemoveDir, RemoveFails, StartDelete, Forget, StartUpdate,
       LoadMetadata, BeginMerge, EndMerge, Resave, RequestFails, Killed, At, Goto,
       NextPart,
           Clean, Cleaned, End, Becomes, Uploading, Updating
  <2>2. BatchInv'
    BY <2>1 DEF IInv, BatchInv, At, batchVars
  <2>. QED  BY <2>2 DEF IInv
<1>1. CASE StartUpload(c)
  BY <1>1, StartUploadKeeps
<1>2. CASE BeginPart(c)
  BY <1>2, BeginPartKeeps
<1>3. CASE EndPart(c)
  BY <1>3, EndPartKeeps
<1>4. CASE WriteFails(c)
  BY <1>4, WriteFailsKeeps
<1>5. CASE Validate(c)
  BY <1>5, ValidateKeeps
<1>6. CASE SaveRow(c)
  BY <1>6, SaveRowKeeps
<1>7. CASE SaveFails(c)
  BY <1>7, SaveFailsKeeps
<1>8. CASE SaveUnconfirmed(c)
  BY <1>8, SaveUnconfirmedKeeps
<1>9. CASE RemovePart(c)
  BY <1>9, RemovePartKeeps
<1>10. CASE RemoveDir(c)
  BY <1>10, RemoveDirKeeps
<1>11. CASE RemoveFails(c)
  BY <1>11, RemoveFailsKeeps
<1>12. CASE StartDelete(c)
  BY <1>12, StartDeleteKeeps
<1>13. CASE Forget(c)
  BY <1>13, ForgetKeeps
<1>14. CASE StartUpdate(c)
  BY <1>14, StartUpdateKeeps
<1>15. CASE LoadMetadata(c)
  BY <1>15, LoadMetadataKeeps
<1>16. CASE BeginMerge(c)
  BY <1>16, BeginMergeKeeps
<1>17. CASE EndMerge(c)
  BY <1>17, EndMergeKeeps
<1>18. CASE Resave(c)
  BY <1>18, ResaveKeeps
<1>19. CASE RequestFails(c)
  BY <1>19, RequestFailsKeeps
<1>20. CASE Killed(c)
  BY <1>20, KilledKeeps
<1>. QED  BY <1>1, <1>2, <1>3, <1>4, <1>5, <1>6, <1>7, <1>8, <1>9, <1>10, <1>11,
             <1>12, <1>13, <1>14, <1>15, <1>16, <1>17, <1>18, <1>19, <1>20
             DEF Store, PageUpload, ApiUpload

LEMMA BatchKeeps ==
    ASSUME IInv, NEW c \in Clients, UNCHANGED <<store, issued, history>>,
           job[c].pc \in {"idle", "batch"},
           Goto(c, "batch") \/ End(c)
    PROVE  (TypeOK /\ (\A d \in Clients : JobInv(d)) /\ StoreInv)'
<1>. USE DEF store, history
<1>1. TypeOK /\ JobInv(c) /\ StoreInv /\ job[c].model = NoModel
  BY DEF IInv, JobInv
<1>2. /\ job' \in [Clients -> Job(issued')]
      /\ job'[c].model = NoModel /\ job'[c].pc \in {"idle", "batch"}
      /\ \A d \in Clients \ {c} : job'[d] = job[d]
  <2>1. CASE Goto(c, "batch")
    <3>1. TypeOK /\ "batch" \in Steps /\ issued \subseteq issued'
      BY <1>1 DEF Steps
    <3>2. JobBecomes(c, Doing("batch", job[c].model, job[c].part, job[c].then))
      BY <2>1, <3>1, GotoStep
    <3>. QED  BY <1>1, <3>2
  <2>2. CASE End(c)
    BY <1>1, <2>2, EndStep
  <2>. QED  BY <2>1, <2>2
<1>3. TypeOK'
  BY <1>1, <1>2 DEF TypeOK, NoFiles, Job
<1>4. Local(c)
  BY <1>1, <1>2, Types, NoModelIsNone DEF Local, Announced
<1>5. JobInv(c)'
  BY <1>2 DEF JobInv, UploadInv, RemovalInv, At, Uploading, Updating
<1>6. OwnModel(c)
  BY <1>1, NoModelIsNone DEF OwnModel
<1>. QED  BY <1>3, <1>4, <1>5, <1>6, LocalStep

\* A step of the batch that leaves it with its request.
BatchStays ==
    /\ batch' \in BatchJob
    /\ batch'.pc # "off" => batch.pc # "off" /\ batch'.by = batch.by

LEMMA NextKeeps == IInv /\ [Next]_vars => IInv'
<1>. SUFFICES ASSUME IInv, [Next]_vars PROVE IInv'
  OBVIOUS
<1>1. ASSUME NEW c \in Clients, Store(c), UNCHANGED batchVars PROVE IInv'
  BY <1>1, StoreKeeps
<1>2. ASSUME NEW c \in Clients, PageBatch(c) \/ ApiBatch(c) PROVE IInv'
  <2>1. PICK model \in BuiltIn \cup Models, zip \in BOOLEAN, given \in Redshifts :
            Submit(c, model, zip, given)
    BY <1>2 DEF PageBatch, ApiBatch, Selected, Resolvable, IInv, TypeOK
  <2>2. (TypeOK /\ (\A d \in Clients : JobInv(d)) /\ StoreInv)'
    BY <2>1, BatchKeeps DEF Submit, At
  <2>3. job'[c].pc = "batch"
    <3>1. "batch" \in Steps
      BY DEF Steps
    <3>2. TypeOK
      BY DEF IInv
    <3>3. issued \subseteq issued'
      BY <2>1 DEF Submit
    <3>4. Goto(c, "batch")
      BY <2>1 DEF Submit
    <3>5. job'[c] = Doing("batch", job[c].model, job[c].part, job[c].then)
      BY <3>1, <3>2, <3>3, <3>4, GotoStep
    <3>. QED  BY <3>5
  <2>4. BatchInv'
    BY <2>1, <2>3 DEF Submit, BatchInv, BatchJob, At
  <2>. QED  BY <2>2, <2>4 DEF IInv
<1>3. CASE EndBatch
  <2>1. batch.by \in Clients /\ At(batch.by, "batch")
    BY <1>3 DEF EndBatch, IInv, BatchInv
  <2>2. (TypeOK /\ (\A d \in Clients : JobInv(d)) /\ StoreInv)'
    BY <1>3, <2>1, BatchKeeps DEF EndBatch, At
  <2>3. BatchInv'
    BY <1>3 DEF EndBatch, BatchInv, BatchJob, NoBatch
  <2>. QED  BY <2>2, <2>3 DEF IInv
<1>4. ASSUME UNCHANGED modelVars, BatchStays PROVE IInv'
  <2>. USE <1>4 DEF modelVars, store, history
  <2>1. TypeOK'
    BY DEF IInv, TypeOK, NoFiles
  <2>2. \A c \in Clients : JobInv(c)'
    BY DEF IInv, JobInv, UploadInv, RemovalInv, Private, Announced, Whole, At
  <2>3. StoreInv'
    BY DEF IInv, StoreInv, Claimed, Usable
  <2>4. BatchInv'
    BY DEF IInv, BatchInv, BatchStays, At
  <2>. QED  BY <2>1, <2>2, <2>3, <2>4 DEF IInv
<1>5. ASSUME LoadClassifier \/ ReadSpectra \/ AllEnded PROVE UNCHANGED modelVars /\ BatchStays
  BY <1>5 DEF LoadClassifier, ReadSpectra, AllEnded, BatchStays, IInv, BatchInv, BatchJob
<1>6. ASSUME NEW f \in Spectra, Admit(f) \/ Classified(f) \/ SpectrumFails(f)
      PROVE  UNCHANGED modelVars /\ BatchStays
  BY <1>6 DEF Admit, Classified, SpectrumFails, Record, BatchStays, IInv, BatchInv
<1>7. CASE UNCHANGED vars
  BY <1>4, <1>7 DEF vars, batchVars, BatchStays, IInv, BatchInv
<1>. QED  BY <1>1, <1>2, <1>3, <1>4, <1>5, <1>6, <1>7 DEF Next, Batch

-----------------------------------------------------------------------------

THEOREM StoreInvariant == Spec => []IInv
BY InitHolds, NextKeeps, PTL DEF Spec

\* Every state reached has variables of the declared types.
THEOREM StoreTyped == Spec => []TypeOK
BY StoreInvariant, PTL DEF IInv

\* A listed model can be loaded until somebody begins to delete it, unless its
\* upload saw an error although its row was saved, and cleaned up; and files
\* without a row belong to a request under way or were left by a kill or a
\* failed clean-up.
THEOREM Consistent == Spec => []RowsAndFilesAgree
<1>1. IInv => RowsAndFilesAgree
  BY DEF IInv, StoreInv, RowsAndFilesAgree, Claimed, InHand
<1>. QED  BY <1>1, StoreInvariant, PTL
-----------------------------------------------------------------------------
(* The batch.                                                               *)


\* What the record of a result says of its name.
Faithful(n) ==
    results[n].ok => NameOf(results[n].spectrum) = n /\ results[n].z = Assigned(n)

\* Redshifts by name leave no entry without one.
HasRedshift(n) == batch.given.each # <<>> => Assigned(n) # NoRedshift

ProgressInv ==
    /\ progress \in [Spectra -> {"out", "waiting", "running", "ended"}]
    /\ \E base : z = [f \in Spectra |-> base[f]]
    /\ Cardinality(Running) <= Limit

EntryInv(f) ==
    /\ progress[f] = "running" => z[f] = Assigned(NameOf(f))
    /\ progress[f] # "out" => HasRedshift(NameOf(f))
    /\ progress[f] \in {"out", "ended"} => NameOf(f) \in DOMAIN results

ResultsInv ==
    /\ DOMAIN results \subseteq Names
    /\ batch.pc \in {"off", "load", "read"} => DOMAIN results = {}
    /\ batch.pc \in {"run", "done"} =>
        /\ \A f \in Spectra : EntryInv(f)
        /\ \A n \in DOMAIN results : Faithful(n) /\ (results[n].ok => HasRedshift(n))
    /\ batch.pc = "done" => \A f \in Spectra : progress[f] \in {"out", "ended"}

BInv == IInv /\ ProgressInv /\ ResultsInv

-----------------------------------------------------------------------------

LEMMA MinOfTwo ==
    ASSUME NEW a \in Nat, NEW b \in Nat
    PROVE  Min({a, b}) <= a /\ Min({a, b}) \in Nat
BY DEF Min

LEMMA RunningFinite ==
    /\ IsFiniteSet(Running) /\ Cardinality(Running) \in Nat
    /\ IsFiniteSet(Entries) /\ Cardinality(Entries) \in Nat
BY SpectraAreFinite, FS_Subset, FS_CardinalityType DEF Running, Entries

\* The names and the redshifts of a batch are fixed with its request.
LEMMA SameBatch ==
    ASSUME batch'.zip = batch.zip, batch'.given = batch.given
    PROVE  /\ Names' = Names
           /\ \A f \in Spectra : NameOf(f)' = NameOf(f)
           /\ \A n : Assigned(n)' = Assigned(n) /\ (HasRedshift(n)' <=> HasRedshift(n))
BY DEF NameOf, Names, Assigned, HasRedshift

LEMMA OnlyThePc ==
    ASSUME batch \in BatchJob, NEW pc, batch' = [batch EXCEPT !.pc = pc]
    PROVE  batch'.pc = pc /\ batch'.zip = batch.zip /\ batch'.given = batch.given
BY DEF BatchJob

LEMMA BatchInit == InitBatch => BInv
<1>. SUFFICES ASSUME InitBatch PROVE BInv
  OBVIOUS
<1>1. IInv
  BY InitHolds
<1>2. Running = {} /\ Cardinality(Running) = 0
  BY FS_EmptySet DEF InitBatch, NotStarted, Running
<1>3. ProgressInv
  BY <1>2, LimitIsPositive DEF InitBatch, NotStarted, ProgressInv
<1>4. ResultsInv
  BY DEF InitBatch, NotStarted, NoBatch, NoResults, ResultsInv
<1>. QED  BY <1>1, <1>3, <1>4 DEF BInv

\* Nothing of the batch changes, or it is sent, or gone.
LEMMA RequestKeeps ==
    ASSUME ResultsInv, ProgressInv,
           \/ UNCHANGED batchVars
           \/ /\ batch.pc = "off" /\ batch'.pc = "load" /\ UNCHANGED <<progress, z, results>>
           \/ EndBatch
    PROVE  (ProgressInv /\ ResultsInv)'
<1>1. CASE UNCHANGED batchVars
  BY <1>1 DEF batchVars, ResultsInv, ProgressInv, EntryInv, Faithful, HasRedshift, Running, Names,
              NameOf, Assigned
<1>2. CASE batch.pc = "off" /\ batch'.pc = "load" /\ UNCHANGED <<progress, z, results>>
  BY <1>2 DEF ResultsInv, ProgressInv, Running
<1>3. CASE EndBatch
  <2>1. Running' = {} /\ Cardinality(Running)' = 0
    BY <1>3, FS_EmptySet DEF EndBatch, Running
  <2>2. ProgressInv'
    BY <1>3, <2>1, LimitIsPositive DEF EndBatch, ProgressInv
  <2>3. ResultsInv'
    BY <1>3 DEF EndBatch, ResultsInv, NoResults, NoBatch
  <2>. QED  BY <2>2, <2>3
<1>. QED  BY <1>1, <1>2, <1>3

LEMMA LoadKeeps ==
    ASSUME BInv, LoadClassifier
    PROVE  (ProgressInv /\ ResultsInv)'
<1>1. batch.pc = "load" /\ batch'.pc = "read" /\ UNCHANGED <<progress, z, results>>
  BY OnlyThePc DEF LoadClassifier, BInv, IInv, BatchInv
<1>. QED  BY <1>1 DEF BInv, ProgressInv, ResultsInv, Running

LEMMA ReadKeeps ==
    ASSUME BInv, ReadSpectra
    PROVE  (ProgressInv /\ ResultsInv)'
<1>1. PICK bad \in SUBSET {f \in Spectra : batch.zip} :
        /\ ~Mismatched({f \in Spectra : NameOf(f) \in Supported} \ bad)
        /\ Enter(bad)
  BY DEF ReadSpectra
<1>. DEFINE entries == {f \in Spectra : NameOf(f) \in Supported} \ bad
<1>2. batch'.pc = "run" /\ batch'.zip = batch.zip /\ batch'.given = batch.given /\ z' = z
  BY OnlyThePc DEF ReadSpectra, BInv, IInv, BatchInv
<1>3. /\ progress' = [f \in Spectra |-> IF f \in entries THEN "waiting" ELSE "out"]
      /\ results' = [n \in {NameOf(f) : f \in Spectra \ entries} |-> Failed]
  BY <1>1 DEF Enter
<1>4. Running' = {} /\ Cardinality(Running)' = 0
  BY <1>3, FS_EmptySet DEF Running
<1>5. ProgressInv'
  BY <1>2, <1>3, <1>4, LimitIsPositive DEF ProgressInv, BInv
<1>6. \A f \in entries : HasRedshift(NameOf(f))
  BY <1>1 DEF Mismatched, HasRedshift
<1>7. ASSUME NEW f \in Spectra PROVE EntryInv(f)'
  <2>1. NameOf(f)' = NameOf(f) /\ (HasRedshift(NameOf(f))' <=> HasRedshift(NameOf(f)))
    BY <1>2, SameBatch
  <2>2. progress'[f] = IF f \in entries THEN "waiting" ELSE "out"
    BY <1>3
  <2>3. f \notin entries => NameOf(f) \in DOMAIN results'
    BY <1>3
  <2>. QED  BY <1>6, <2>1, <2>2, <2>3 DEF EntryInv
<1>8. \A n \in DOMAIN results' : ~results'[n].ok
  BY <1>3 DEF Failed
<1>9. DOMAIN results' \subseteq Names'
  BY <1>2, <1>3, SameBatch DEF Names
<1>. QED  BY <1>2, <1>5, <1>7, <1>8, <1>9 DEF ResultsInv, Faithful

LEMMA EndedKeeps ==
    ASSUME BInv, AllEnded
    PROVE  (ProgressInv /\ ResultsInv)'
<1>1. /\ batch.pc = "run" /\ batch'.pc = "done" /\ UNCHANGED <<progress, z, results>>
      /\ batch'.zip = batch.zip /\ batch'.given = batch.given
  BY OnlyThePc DEF AllEnded, BInv, IInv, BatchInv
<1>2. \A f \in Spectra : progress[f] \in {"out", "ended"}
  BY DEF AllEnded, Running, Waiting, BInv, ProgressInv
<1>3. ProgressInv'
  BY <1>1 DEF BInv, ProgressInv, Running
<1>4. \A f \in Spectra : EntryInv(f)'
  BY <1>1, SameBatch DEF BInv, ResultsInv, EntryInv
<1>5. \A n \in DOMAIN results : Faithful(n)' /\ (results'[n].ok => HasRedshift(n)')
  BY <1>1, SameBatch DEF BInv, ResultsInv, Faithful, NameOf
<1>6. DOMAIN results' \subseteq Names'
  BY <1>1, SameBatch DEF BInv, ResultsInv
<1>. QED  BY <1>1, <1>2, <1>3, <1>4, <1>5, <1>6 DEF ResultsInv

LEMMA AdmitKeeps ==
    ASSUME BInv, NEW f \in Spectra, Admit(f)
    PROVE  (ProgressInv /\ ResultsInv)'
<1>1. /\ batch.pc = "run" /\ batch' = batch /\ results' = results
      /\ progress' = [progress EXCEPT ![f] = "running"]
      /\ z' = [z EXCEPT ![f] = Assigned(NameOf(f))]
      /\ Cardinality(Running) < Min({Limit, Cardinality(Entries)})
  BY DEF Admit, OwnParams
<1>2. progress[f] = "waiting"
  BY DEF Admit, Waiting
<1>3. progress' \in [Spectra -> {"out", "waiting", "running", "ended"}]
  BY <1>1 DEF BInv, ProgressInv
<1>4. /\ z'[f] = Assigned(NameOf(f))
      /\ \A g \in Spectra \ {f} : z'[g] = z[g]
      /\ \E base : z' = [g \in Spectra |-> base[g]]
  <2>1. PICK base : z = [g \in Spectra |-> base[g]]
    BY DEF BInv, ProgressInv
  <2>2. z' = [g \in Spectra |-> [z EXCEPT ![f] = Assigned(NameOf(f))][g]]
    BY <1>1, <2>1
  <2>. QED  BY <1>1, <2>1, <2>2
<1>5. Cardinality(Running)' <= Limit
  <2>1. Running' = Running \cup {f} /\ f \notin Running
    BY <1>1, <1>2, <1>3 DEF Running, BInv, ProgressInv
  <2>2. Cardinality(Running') = Cardinality(Running) + 1
    BY <2>1, RunningFinite, FS_AddElement
  <2>3. Cardinality(Running) < Limit
    BY <1>1, RunningFinite, MinOfTwo, LimitIsPositive
  <2>. QED  BY <2>2, <2>3, RunningFinite, LimitIsPositive
<1>6. ASSUME NEW g \in Spectra PROVE EntryInv(g)'
  <2>1. EntryInv(g) /\ EntryInv(f)
    BY <1>1 DEF BInv, ResultsInv
  <2>2. progress'[g] = IF g = f THEN "running" ELSE progress[g]
    BY <1>1 DEF BInv, ProgressInv
  <2>. QED  BY <1>1, <1>2, <1>4, <2>1, <2>2, SameBatch DEF EntryInv
<1>7. ResultsInv'
  BY <1>1, <1>6, SameBatch DEF BInv, ResultsInv, Faithful, NameOf
<1>. QED  BY <1>3, <1>4, <1>5, <1>7 DEF ProgressInv

LEMMA RecordKeeps ==
    ASSUME BInv, NEW f \in Spectra, NEW r, Record(f, r),
           r = Failed \/ r = [ok |-> TRUE, spectrum |-> f, z |-> z[f]]
    PROVE  (ProgressInv /\ ResultsInv)'
<1>1. /\ batch.pc = "run" /\ progress[f] = "running" /\ batch' = batch /\ z' = z
      /\ progress' = [progress EXCEPT ![f] = "ended"]
      /\ results' = [n \in DOMAIN results \cup {NameOf(f)} |-> IF n = NameOf(f) THEN r ELSE results[n]]
  BY DEF Record, Running
<1>2. progress' \in [Spectra -> {"out", "waiting", "running", "ended"}]
  BY <1>1 DEF BInv, ProgressInv
<1>3. Cardinality(Running)' <= Limit
  <2>1. Running' \subseteq Running
    BY <1>1 DEF Running, BInv, ProgressInv
  <2>2. Cardinality(Running') <= Cardinality(Running) /\ Cardinality(Running') \in Nat
    BY <2>1, RunningFinite, FS_Subset, FS_CardinalityType
  <2>. QED  BY <2>2, RunningFinite, LimitIsPositive DEF BInv, ProgressInv
<1>4. ASSUME NEW g \in Spectra PROVE EntryInv(g)'
  <2>1. EntryInv(g)
    BY <1>1 DEF BInv, ResultsInv
  <2>2. progress'[g] = IF g = f THEN "ended" ELSE progress[g]
    BY <1>1 DEF BInv, ProgressInv
  <2>3. DOMAIN results' = DOMAIN results \cup {NameOf(f)}
    BY <1>1
  <2>. QED  BY <1>1, <2>1, <2>2, <2>3, SameBatch DEF EntryInv
<1>5. EntryInv(f)
  BY <1>1 DEF BInv, ResultsInv
<1>6. ASSUME NEW n \in DOMAIN results' PROVE Faithful(n)' /\ (results'[n].ok => HasRedshift(n)')
  <2>1. CASE n = NameOf(f)
    <3>1. results'[n] = r
      BY <1>1, <2>1
    <3>2. r.ok => r.spectrum = f /\ r.z = Assigned(n) /\ HasRedshift(n)
      BY <1>1, <1>5, <2>1 DEF EntryInv, Failed
    <3>. QED  BY <1>1, <2>1, <3>1, <3>2, SameBatch DEF Faithful, NameOf
  <2>2. CASE n # NameOf(f)
    <3>1. n \in DOMAIN results /\ results'[n] = results[n]
      BY <1>1, <2>2
    <3>2. Faithful(n) /\ (results[n].ok => HasRedshift(n))
      BY <1>1, <3>1 DEF BInv, ResultsInv
    <3>. QED  BY <1>1, <3>1, <3>2, SameBatch DEF Faithful, NameOf
  <2>. QED  BY <2>1, <2>2
<1>7. DOMAIN results' \subseteq Names'
  BY <1>1, SameBatch DEF BInv, ResultsInv, Names
<1>8. ProgressInv'
  BY <1>1, <1>2, <1>3 DEF BInv, ProgressInv
<1>. QED  BY <1>1, <1>4, <1>6, <1>7, <1>8 DEF ResultsInv

LEMMA BatchNext == BInv /\ [Next]_vars => BInv'
<1>. SUFFICES ASSUME BInv, [Next]_vars PROVE (ProgressInv /\ ResultsInv)'
  BY NextKeeps DEF BInv
<1>1. ASSUME UNCHANGED batchVars PROVE (ProgressInv /\ ResultsInv)'
  BY <1>1, RequestKeeps DEF BInv
<1>2. ASSUME NEW c \in Clients, PageBatch(c) \/ ApiBatch(c) PROVE (ProgressInv /\ ResultsInv)'
  <2>1. PICK model, zip, given : Submit(c, model, zip, given)
    BY <1>2 DEF PageBatch, ApiBatch
  <2>. QED  BY <2>1, RequestKeeps DEF Submit, BInv
<1>3. CASE EndBatch
  BY <1>3, RequestKeeps DEF BInv
<1>4. CASE LoadClassifier \/ ReadSpectra \/ AllEnded
  BY <1>4, LoadKeeps, ReadKeeps, EndedKeeps
<1>5. ASSUME NEW f \in Spectra, Admit(f) \/ Classified(f) \/ SpectrumFails(f)
      PROVE  (ProgressInv /\ ResultsInv)'
  BY <1>5, AdmitKeeps, RecordKeeps DEF Classified, SpectrumFails
<1>6. CASE UNCHANGED vars
  BY <1>1, <1>6 DEF vars
<1>. QED  BY <1>1, <1>2, <1>3, <1>4, <1>5, <1>6 DEF Next, Batch

-----------------------------------------------------------------------------

THEOREM BatchInvariant == Spec => []BInv
BY BatchInit, BatchNext, PTL DEF Spec

\* The batch and the store have the declared types, and no more than Limit
\* spectra are being classified.
THEOREM BatchTyped == Spec => []BatchTypeOK
<1>1. BInv => BatchTypeOK
  BY DEF BInv, IInv, BatchInv, ProgressInv, ResultsInv, BatchTypeOK, Running
<1>. QED  BY <1>1, BatchInvariant, PTL

\* A finished batch has, under the name of each spectrum, a result of a
\* spectrum of that name, made with the redshift given for that name.
THEOREM ResultsFaithful == Spec => []ResultsAreTheSpectras
<1>1. BInv => ResultsAreTheSpectras
  <2>. SUFFICES ASSUME BInv, batch.pc = "done" PROVE ResultsAreTheSpectras
    BY DEF ResultsAreTheSpectras
  <2>1. DOMAIN results = Names
    BY DEF BInv, ResultsInv, EntryInv, Names
  <2>2. ASSUME NEW n \in Names, results[n].ok
        PROVE  NameOf(results[n].spectrum) = n /\ results[n].z = Given(n)
    <3>1. /\ NameOf(results[n].spectrum) = n /\ results[n].z = Assigned(n)
          /\ HasRedshift(n)
      BY <2>1, <2>2 DEF BInv, ResultsInv, Faithful
    <3>2. Assigned(n) = Given(n)
      BY <3>1 DEF Assigned, Given, HasRedshift, RedshiftFor
    <3>. QED  BY <3>1, <3>2
  <2>. QED  BY <2>1, <2>2 DEF ResultsAreTheSpectras
<1>. QED  BY <1>1, BatchInvariant, PTL
=============================================================================
