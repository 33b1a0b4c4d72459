--------------------------- MODULE RedshiftProofs ---------------------------
(***************************************************************************)
(* Proofs about ClassifyRedshift, for any objects, files, epochs and       *)
(* recorded redshifts: what a submission leaves in the session and on the  *)
(* page, in whatever order they come.                                      *)
(*                                                                         *)
(* The argument: the parameters and the provenance of the session are      *)
(* written together, so they are of one spectrum although they are read    *)
(* apart (Paired); and a declined redshift is one that the session's       *)
(* provenance still offers for the source in play (Declining).             *)
(***************************************************************************)
EXTENDS ClassifyRedshift, TLAPS

\* Provenance stands beside the parameters of the same spectrum, whose redshift
\* is the recorded one when it is said to be.
Paired ==
    provenance # NoProvenance =>
        /\ lastParams # NoParams
        /\ lastParams.name = provenance.name
        /\ provenance.redshift_from_source =>
            lastParams.box.z = SourceZ[provenance.name][provenance.epoch]

\* What was declined is still offered, for the source in play.
Declining ==
    declined # NoKey =>
        /\ sourceKey = declined
        /\ provenance # NoProvenance /\ provenance.source_redshift # NoZ

\* A request in flight has not been classified, and its form showed the
\* redshift's controls unless the model takes none.
Sent ==
    request # NoRequest =>
        /\ run = NoRun
        /\ request.main => request.controls = (policy # "none")

IInv == TypeOK /\ Paired /\ Declining /\ Sent /\ LabelledValueIsTheSources

LEMMA InitIInv == Init => IInv
<1> SUFFICES ASSUME Init PROVE IInv
  OBVIOUS
<1>1. FreshPage \in Page
  BY SourceRecords DEF FreshPage, EmptyBox, Page, Box, Zs
<1>2. TypeOK
  BY <1>1 DEF Init, TypeOK
<1>3. Paired /\ Declining /\ Sent
  BY DEF Init, Paired, Declining, Sent
<1>4. LabelledValueIsTheSources
  BY DEF Init, FreshPage, LabelledValueIsTheSources
<1> QED BY <1>2, <1>3, <1>4 DEF IInv

-----------------------------------------------------------------------------
(* What is read from a submission.                                          *)

\* The redshifts of a submission are redshifts, and those of its source.
LEMMA Readings ==
    ASSUME TypeOK, NEW q \in Request
    PROVE  /\ q.box \in Box /\ q.box.z \in Zs /\ q.epoch \in Epochs
           /\ FileOf(q) \in Files \cup {NoFile}
           /\ ByName(q) => q.name \in Objects /\ Source(q) = SourceZ[q.name][q.epoch]
           /\ Source(q) \in Zs
           /\ Params(q) \in Box
           /\ Resolved(q) \in Box
           /\ Used(q) \in Zs
           /\ OptedOut(q) \in BOOLEAN /\ FilledIn(q) \in BOOLEAN
           /\ ~Invalid(q) => Key(q) \in Objects \cup Files
<1>1. /\ q.box \in Box /\ q.box.z \in Zs /\ q.epoch \in Epochs
      /\ q.name \in Objects \cup {NoName} /\ q.file \in Files \cup {NoFile}
  BY DEF Request, Box
<1>2. FileOf(q) \in Files \cup {NoFile}
  BY <1>1 DEF TypeOK, FileOf
<1>3. ByName(q) => q.name \in Objects
  BY <1>1 DEF ByName
<1>4. (ByName(q) => Source(q) = SourceZ[q.name][q.epoch]) /\ Source(q) \in Zs
  BY <1>1, <1>3, SourceRecords DEF Source, Zs
<1>5. EmptyBox \in Box
  BY DEF EmptyBox, Box, Zs
<1>6. Params(q) \in Box
  BY <1>1, <1>5 DEF Params
<1>7. Resolved(q) \in Box
  <2>1. [z |-> Source(q), known |-> TRUE] \in Box
    BY <1>4 DEF Box
  <2> QED BY <1>5, <1>6, <2>1 DEF Resolved
<1>8. Used(q) \in Zs
  BY <1>4, <1>7 DEF Used, Box
<1>9. OptedOut(q) \in BOOLEAN /\ FilledIn(q) \in BOOLEAN
  BY DEF OptedOut, FilledIn
<1>10. ~Invalid(q) => Key(q) \in Objects \cup Files
  BY <1>1, <1>2 DEF Invalid, Key
<1> QED BY <1>1, <1>2, <1>3, <1>4, <1>6, <1>7, <1>8, <1>9, <1>10

\* A value the lookup fills in is the recorded one.
LEMMA FilledValue ==
    ASSUME NEW q, FilledIn(q)
    PROVE  ByName(q) /\ Resolved(q).z = Source(q)
  BY DEF FilledIn, Resolved

\* The pages of a submission, field by field.
LEMMA PageFields ==
    ASSUME NEW q, NEW b, NEW offers
    PROVE  /\ Bound(q)
                 = [name |-> q.name, box |-> q.box, label |-> FALSE, epoch |-> Earliest,
                    result |-> FALSE, hidden |-> NoHidden, offers |-> {}]
           /\ Rebuilt(q, b)
                 = [name |-> q.name, box |-> b, label |-> FALSE, epoch |-> q.epoch,
                    result |-> FALSE, hidden |-> b, offers |-> {}]
           /\ [Rebuilt(q, b) EXCEPT !.offers = offers]
                 = [name |-> q.name, box |-> b, label |-> FALSE, epoch |-> q.epoch,
                    result |-> FALSE, hidden |-> b, offers |-> offers]
           /\ [Bound(q) EXCEPT !.box = b, !.result = TRUE]
                 = [name |-> q.name, box |-> b, label |-> FALSE, epoch |-> Earliest,
                    result |-> TRUE, hidden |-> NoHidden, offers |-> {}]
<1> DEFINE r == Bound(q)
           s == Rebuilt(q, b)
           u == [s EXCEPT !.offers = offers]
           w == [r EXCEPT !.box = b, !.result = TRUE]
<1>1. r = [name |-> q.name, box |-> q.box, label |-> FALSE, epoch |-> Earliest,
           result |-> FALSE, hidden |-> NoHidden, offers |-> {}]
  <2>1. ASSUME NEW p, p = Bound(q)
        PROVE  p = [name |-> q.name, box |-> q.box, label |-> FALSE, epoch |-> Earliest,
                    result |-> FALSE, hidden |-> NoHidden, offers |-> {}]
    BY <2>1 DEF Bound, FreshPage
  <2> QED BY <2>1
<1>2. s = [name |-> q.name, box |-> b, label |-> FALSE, epoch |-> q.epoch,
           result |-> FALSE, hidden |-> b, offers |-> {}]
  <2>1. s = [r EXCEPT !.box = b, !.hidden = b, !.epoch = q.epoch]
    BY DEF Rebuilt
  <2> HIDE DEF r, s
  <2> QED BY <1>1, <2>1
<1>3. u = [name |-> q.name, box |-> b, label |-> FALSE, epoch |-> q.epoch,
           result |-> FALSE, hidden |-> b, offers |-> offers]
  <2>1. u = [s EXCEPT !.offers = offers]
    BY DEF u
  <2> HIDE DEF s, u
  <2> QED BY <1>2, <2>1
<1>4. w = [name |-> q.name, box |-> b, label |-> FALSE, epoch |-> Earliest,
           result |-> TRUE, hidden |-> NoHidden, offers |-> {}]
  <2>1. w = [r EXCEPT !.box = b, !.result = TRUE]
    BY DEF w
  <2> HIDE DEF r, w
  <2> QED BY <1>1, <2>1
<1> QED BY ONLY <1>1, <1>2, <1>3, <1>4

\* The pages that answer a submission are pages, and the source's value is on
\* them when it is labelled.
LEMMA Pages ==
    ASSUME TypeOK, NEW q \in Request
    PROVE  /\ Bound(q) \in Page /\ ~Bound(q).label
           /\ \A b \in Box, offers \in SUBSET Objects :
                LET p == [Rebuilt(q, b) EXCEPT !.offers = offers]
                IN  p \in Page /\ ~p.label
           /\ ResultPage(q) \in Page
           /\ ResultPage(q).label =>
                /\ ResultPage(q).name # NoName
                /\ ResultPage(q).box.z = SourceZ[ResultPage(q).name][ResultPage(q).epoch]
<1>1. /\ q.name \in Objects \cup {NoName} /\ q.box \in Box /\ q.epoch \in Epochs
      /\ Earliest \in Epochs /\ EmptyBox \in Box
  BY SourceRecords DEF Request, EmptyBox, Box, Zs
<1>2. Bound(q) = [name |-> q.name, box |-> q.box, label |-> FALSE, epoch |-> Earliest,
                  result |-> FALSE, hidden |-> NoHidden, offers |-> {}]
  BY ONLY PageFields
<1>3. Bound(q) \in Page /\ ~Bound(q).label
  BY <1>1, <1>2 DEF Page
<1>4. ASSUME NEW b \in Box, NEW offers \in SUBSET Objects, NEW label \in BOOLEAN, NEW result \in BOOLEAN
      PROVE  [name |-> q.name, box |-> b, label |-> label, epoch |-> q.epoch,
              result |-> result, hidden |-> b, offers |-> offers] \in Page
  BY <1>1 DEF Page
<1>5. ASSUME NEW b \in Box, NEW offers \in SUBSET Objects
      PROVE  LET p == [Rebuilt(q, b) EXCEPT !.offers = offers]
             IN  p \in Page /\ ~p.label
  <2> DEFINE p == [Rebuilt(q, b) EXCEPT !.offers = offers]
  <2>1. p = [name |-> q.name, box |-> b, label |-> FALSE, epoch |-> q.epoch,
             result |-> FALSE, hidden |-> b, offers |-> offers]
    BY ONLY PageFields
  <2> HIDE DEF p
  <2>2. p \in Page /\ ~p.label
    BY <1>4, <2>1
  <2> QED BY ONLY <2>2 DEF p
<1>6. /\ Params(q) \in Box /\ Resolved(q) \in Box /\ FilledIn(q) \in BOOLEAN
      /\ ByName(q) => q.name \in Objects /\ Source(q) = SourceZ[q.name][q.epoch]
  BY Readings
<1>7. CASE ByName(q)
  <2>1. ResultPage(q) = [name |-> q.name, box |-> Resolved(q), label |-> FilledIn(q),
                         epoch |-> q.epoch, result |-> TRUE, hidden |-> Resolved(q),
                         offers |-> {q.name}]
    <3>1. ResultPage(q) = [Rebuilt(q, Resolved(q)) EXCEPT
                !.label = FilledIn(q), !.result = TRUE, !.offers = {q.name}]
      BY <1>7 DEF ResultPage
    <3> DEFINE s == Rebuilt(q, Resolved(q))
               v == [s EXCEPT !.label = FilledIn(q), !.result = TRUE, !.offers = {q.name}]
    <3>2. s = [name |-> q.name, box |-> Resolved(q), label |-> FALSE, epoch |-> q.epoch,
               result |-> FALSE, hidden |-> Resolved(q), offers |-> {}]
      BY ONLY PageFields
    <3>3. ResultPage(q) = v
      BY <3>1
    <3>4. v = [s EXCEPT !.label = FilledIn(q), !.result = TRUE, !.offers = {q.name}]
      BY DEF v
    <3> HIDE DEF s, v
    <3> QED BY <3>2, <3>3, <3>4
  <2>2. ResultPage(q) \in Page
    BY <1>4, <1>6, <1>7, <2>1
  <2>3. FilledIn(q) => Resolved(q).z = SourceZ[q.name][q.epoch]
    BY <1>6, FilledValue
  <2> QED BY <1>3, <1>5, <1>6, <1>7, <2>1, <2>2, <2>3, NoSuchObjects
<1>8. CASE ~ByName(q)
  <2>1. ResultPage(q) = [name |-> q.name, box |-> Params(q), label |-> FALSE, epoch |-> Earliest,
                         result |-> TRUE, hidden |-> NoHidden, offers |-> {}]
    <3>1. ResultPage(q) = [Bound(q) EXCEPT !.box = Params(q), !.result = TRUE]
      BY <1>8 DEF ResultPage
    <3> QED BY ONLY PageFields, <3>1
  <2>2. ResultPage(q) \in Page /\ ~ResultPage(q).label
    BY <1>1, <1>6, <2>1 DEF Page
  <2> QED BY <1>3, <1>5, <2>2
<1> QED BY <1>7, <1>8

-----------------------------------------------------------------------------
(* The steps.                                                               *)

LEMMA OpenPageKeeps == IInv /\ OpenPage => IInv'
<1> SUFFICES ASSUME IInv, OpenPage PROVE IInv'
  OBVIOUS
<1>1. FreshPage \in Page
  BY SourceRecords DEF FreshPage, EmptyBox, Page, Box, Zs
<1>2. TypeOK'
  BY <1>1 DEF IInv, OpenPage, TypeOK
<1>3. (Paired /\ Declining /\ Sent /\ LabelledValueIsTheSources)'
  BY DEF OpenPage, Paired, Declining, Sent, FreshPage, LabelledValueIsTheSources
<1> QED BY <1>2, <1>3 DEF IInv

\* The page put together again from the session shows the value of the
\* spectrum that the provenance is of.
LEMMA OverlayKeeps == IInv /\ Overlay => IInv'
<1> SUFFICES ASSUME IInv, Overlay PROVE IInv'
  OBVIOUS
<1> USE DEF IInv
<1>1. lastParams.name \in Objects \cup {NoName} /\ lastParams.box \in Box
  BY DEF Overlay, TypeOK
<1>2. /\ UNCHANGED <<policy, sourceKey, lastParams, provenance, cachedFile, request, declined>>
      /\ run' = NoRun /\ request = NoRequest
  BY DEF Overlay, session
<1>3. CASE provenance = NoProvenance
  <2>1. page' = [name |-> lastParams.name, box |-> lastParams.box, label |-> FALSE,
                 epoch |-> Earliest, result |-> TRUE, hidden |-> NoHidden, offers |-> {}]
    BY <1>3 DEF Overlay, FreshPage
  <2>2. page' \in Page /\ ~page'.label
    BY <1>1, <2>1, SourceRecords DEF Page
  <2> QED BY <1>2, <2>2 DEF TypeOK, Paired, Declining, Sent, LabelledValueIsTheSources
<1>4. CASE provenance # NoProvenance
  <2>1. page' = [name |-> lastParams.name, box |-> lastParams.box,
                 label |-> provenance.redshift_from_source, epoch |-> provenance.epoch,
                 result |-> TRUE, hidden |-> provenance.preserved_fields,
                 offers |-> {provenance.name}]
    BY <1>4 DEF Overlay, FreshPage
  <2>2. /\ provenance.name \in Objects /\ provenance.epoch \in Epochs
        /\ provenance.redshift_from_source \in BOOLEAN /\ provenance.preserved_fields \in Box
    BY <1>4 DEF TypeOK, Provenance
  <2>3. page' \in Page
    BY <1>1, <2>1, <2>2 DEF Page
  <2>4. page'.label =>
            page'.name # NoName /\ page'.box.z = SourceZ[page'.name][page'.epoch]
    BY <1>4, <2>1, <2>2, NoSuchObjects DEF Paired
  <2> QED BY <1>2, <2>3, <2>4 DEF TypeOK, Paired, Declining, Sent, LabelledValueIsTheSources
<1> QED BY <1>3, <1>4

LEMMA SendKeeps ==
    ASSUME IInv, NEW q \in Request, Send(q), q.main => q.controls = (policy # "none")
    PROVE  IInv'
<1>1. /\ UNCHANGED <<policy, sourceKey, lastParams, provenance, cachedFile, page, declined>>
      /\ request' = q /\ run' = NoRun
  BY DEF Send, session
<1>2. TypeOK'
  BY <1>1 DEF IInv, TypeOK
<1>3. (Paired /\ Declining /\ LabelledValueIsTheSources)'
  BY <1>1 DEF IInv, Paired, Declining, LabelledValueIsTheSources
<1>4. Sent'
  BY <1>1 DEF Sent
<1> QED BY <1>2, <1>3, <1>4 DEF IInv

LEMMA SubmitKeeps == IInv /\ (SubmitForm \/ SubmitHidden) => IInv'
<1>1. ASSUME IInv, SubmitForm PROVE IInv'
  <2>1. PICK name \in Objects \cup {NoName}, file \in Files \cup {NoFile},
             box \in IF policy = "none" THEN {EmptyBox} ELSE Box :
            Send([main |-> TRUE, name |-> name, file |-> file, box |-> box,
                  controls |-> policy # "none", epoch |-> Earliest])
    BY <1>1 DEF SubmitForm
  <2> DEFINE q == [main |-> TRUE, name |-> name, file |-> file, box |-> box,
                   controls |-> policy # "none", epoch |-> Earliest]
  <2>2. EmptyBox \in Box /\ (policy # "none") \in BOOLEAN
    BY DEF EmptyBox, Box, Zs
  <2>3. q \in Request /\ q.main /\ q.controls = (policy # "none")
    BY <2>2, SourceRecords DEF Request
  <2>4. Send(q)
    BY <2>1
  <2> HIDE DEF q
  <2> QED BY <1>1, <2>3, <2>4, SendKeeps
<1>2. ASSUME IInv, SubmitHidden PROVE IInv'
  <2>1. /\ page.hidden \in Box
        /\ page.offers \subseteq Objects
    BY <1>2 DEF SubmitHidden, IInv, TypeOK, Page
  <2>2. PICK name \in page.offers, epoch \in Epochs :
            Send([main |-> FALSE, name |-> name, file |-> NoFile, box |-> page.hidden,
                  controls |-> page.hidden.z # NoZ, epoch |-> epoch])
    BY <1>2 DEF SubmitHidden
  <2> DEFINE q == [main |-> FALSE, name |-> name, file |-> NoFile, box |-> page.hidden,
                   controls |-> page.hidden.z # NoZ, epoch |-> epoch]
  <2>3. q \in Request /\ ~q.main
    BY <2>1 DEF Request
  <2>4. Send(q)
    BY <2>2
  <2> HIDE DEF q
  <2> QED BY <1>2, <2>3, <2>4, SendKeeps
<1> QED BY <1>1, <1>2

\* What an answer without a classification leaves.
LEMMA UnclassifiedKeeps ==
    ASSUME IInv, NEW q \in Request, q = request, Accept(q), Unclassified(q),
           request' = NoRequest, page' \in Page, ~page'.label
    PROVE  IInv'
<1>1. /\ UNCHANGED <<policy, lastParams, provenance, run>>
      /\ sourceKey' = Key(q) /\ cachedFile' \in {NoFile, FileOf(q)} /\ ~Invalid(q)
      /\ declined' = IF declined = Key(q) THEN declined ELSE NoKey
  BY DEF Accept, Unclassified
<1>2. TypeOK'
  BY <1>1, Readings DEF IInv, TypeOK
<1>3. (Paired /\ Declining /\ Sent /\ LabelledValueIsTheSources)'
  BY <1>1 DEF IInv, Paired, Declining, Sent, LabelledValueIsTheSources
<1> QED BY <1>2, <1>3 DEF IInv

LEMMA ClassifiedKeeps ==
    ASSUME IInv, NEW q \in Request, q = request, Classified(q), request' = NoRequest
    PROVE  IInv'
<1>1. /\ UNCHANGED policy
      /\ sourceKey' = Key(q) /\ cachedFile' \in {NoFile, FileOf(q)} /\ ~Invalid(q)
      /\ lastParams' = [name |-> q.name, box |-> Resolved(q)]
      /\ provenance' = ProvenanceOf(q)
      /\ page' = ResultPage(q)
      /\ run' = [z |-> Resolved(q).z, used |-> Used(q),
                 label |-> FilledIn(q), optedOut |-> OptedOut(q)]
      /\ declined' = IF OptedOut(q) /\ Source(q) # NoZ THEN q.name ELSE NoKey
  BY DEF Classified, Accept
<1>2. TypeOK
  BY DEF IInv
<1>3. /\ q.name \in Objects \cup {NoName} /\ Resolved(q) \in Box /\ Resolved(q).z \in Zs
      /\ Used(q) \in Zs /\ Source(q) \in Zs /\ q.epoch \in Epochs
      /\ OptedOut(q) \in BOOLEAN /\ FilledIn(q) \in BOOLEAN
      /\ Key(q) \in Objects \cup Files /\ FileOf(q) \in Files \cup {NoFile}
      /\ ByName(q) => q.name \in Objects /\ Source(q) = SourceZ[q.name][q.epoch]
  <2>1. q.name \in Objects \cup {NoName}
    BY DEF Request
  <2>2. \A b \in Box : b.z \in Zs
    BY DEF Box
  <2> QED BY <1>1, <1>2, <2>1, <2>2, Readings
<1>4. lastParams' \in [name : Objects \cup {NoName}, box : Box]
  BY <1>1, <1>3
<1>5. run' \in Run
  BY <1>1, <1>3 DEF Run
<1>6. ByName(q) => provenance' \in Provenance
  BY <1>1, <1>3 DEF ProvenanceOf, Provenance
<1>7. ~ByName(q) => provenance' = NoProvenance
  BY <1>1 DEF ProvenanceOf
<1>8. page' \in Page
  BY <1>1, <1>2, Pages
<1>9. OptedOut(q) => ByName(q)
  BY DEF OptedOut
<1>10. TypeOK'
  BY <1>1, <1>2, <1>3, <1>4, <1>5, <1>6, <1>7, <1>8, <1>9 DEF TypeOK
<1>11. LabelledValueIsTheSources'
  BY <1>1, <1>2, Pages DEF LabelledValueIsTheSources
<1>12. Paired'
  <2>1. CASE ByName(q)
    <3>1. /\ provenance'.name = q.name /\ provenance'.epoch = q.epoch
          /\ provenance'.redshift_from_source = FilledIn(q)
      BY <1>1, <2>1 DEF ProvenanceOf
    <3>2. lastParams'.name = q.name /\ lastParams'.box = Resolved(q)
      BY <1>1
    <3>3. FilledIn(q) => Resolved(q).z = SourceZ[q.name][q.epoch]
      BY <1>3, FilledValue
    <3> QED BY <1>4, <3>1, <3>2, <3>3, NoSuchRecords DEF Paired
  <2>2. CASE ~ByName(q)
    BY <1>7, <2>2 DEF Paired
  <2> QED BY <2>1, <2>2
<1>13. Declining'
  <2> SUFFICES ASSUME OptedOut(q), Source(q) # NoZ
               PROVE  /\ sourceKey' = q.name
                      /\ provenance' # NoProvenance /\ provenance'.source_redshift # NoZ
    BY <1>1 DEF Declining
  <2>1. Key(q) = q.name
    BY <1>9 DEF Key, ByName
  <2>2. provenance'.source_redshift = Source(q)
    BY <1>1, <1>9 DEF ProvenanceOf
  <2> QED BY <1>1, <1>6, <1>9, <2>1, <2>2, NoSuchRecords
<1>14. Sent'
  BY DEF Sent
<1> QED BY <1>10, <1>11, <1>12, <1>13, <1>14 DEF IInv

LEMMA AnswerKeeps == IInv /\ Answer => IInv'
<1> SUFFICES ASSUME IInv, Answer PROVE IInv'
  OBVIOUS
<1> DEFINE q == request
<1>1. q \in Request /\ request' = NoRequest /\ TypeOK
  BY DEF Answer, Respond, IInv, TypeOK
<1>2. CASE Reject(q)
  <2>1. /\ UNCHANGED <<policy, sourceKey, lastParams, provenance, cachedFile, run, declined>>
        /\ page' = Bound(q)
    BY <1>2 DEF Reject, session
  <2>2. page' \in Page /\ ~page'.label
    BY <1>1, <2>1, Pages
  <2> QED BY <1>1, <2>1, <2>2 DEF IInv, TypeOK, Paired, Declining, Sent, LabelledValueIsTheSources
<1>3. CASE LookupFails(q)
  <2>1. PICK offers \in {{}, {q.name}, Objects \ {q.name}} :
            page' = IF ByName(q) THEN [Rebuilt(q, Params(q)) EXCEPT !.offers = offers]
                                 ELSE Bound(q)
    BY <1>3 DEF LookupFails
  <2>2. Params(q) \in Box /\ (ByName(q) => offers \in SUBSET Objects)
    BY <1>1, Readings
  <2>3. page' \in Page /\ ~page'.label
    BY <1>1, <2>1, <2>2, Pages
  <2> QED BY <1>1, <1>3, <2>3, UnclassifiedKeeps DEF LookupFails
<1>4. CASE RefuseWithoutRedshift(q)
  <2>1. page' \in Page /\ ~page'.label
    BY <1>1, <1>4, Pages DEF RefuseWithoutRedshift
  <2> QED BY <1>1, <1>4, <2>1, UnclassifiedKeeps DEF RefuseWithoutRedshift
<1>5. CASE ClassificationFails(q)
  <2>1. Resolved(q) \in Box /\ (ByName(q) => {q.name} \in SUBSET Objects)
    BY <1>1, Readings
  <2>2. page' \in Page /\ ~page'.label
    BY <1>1, <1>5, <2>1, Pages DEF ClassificationFails
  <2> QED BY <1>1, <1>5, <2>2, UnclassifiedKeeps DEF ClassificationFails
<1>6. CASE Classified(q)
  BY <1>1, <1>6, ClassifiedKeeps
<1> QED BY <1>2, <1>3, <1>4, <1>5, <1>6 DEF Answer

LEMMA StepIInv == IInv /\ [Next]_vars => IInv'
<1>1. IInv /\ UNCHANGED vars => IInv'
  BY DEF IInv, TypeOK, Paired, Declining, Sent, LabelledValueIsTheSources, vars, session
<1> QED BY <1>1, OpenPageKeeps, OverlayKeeps, SubmitKeeps, AnswerKeeps DEF Next

\* Submissions of every kind in every order keep the inductive invariant.
THEOREM RedshiftInvariant == Spec => []IInv
  BY InitIInv, StepIInv, PTL DEF Spec

\* Type correctness of the page and its session.
THEOREM RedshiftTyped == Spec => []TypeOK
<1>1. IInv => TypeOK
  BY DEF IInv
<1> QED BY <1>1, RedshiftInvariant, PTL

\* A redshift the page attributes to WISeREP is WISeREP's for the spectrum on
\* the page (LabelledValueIsTheSources).
THEOREM LabelsAreTrue == Spec => []LabelledValueIsTheSources
<1>1. IInv => LabelledValueIsTheSources
  BY DEF IInv
<1> QED BY <1>1, RedshiftInvariant, PTL

\* Only a classification ends a submission with a run.
LEMMA RunsAreClassified ==
    ASSUME IInv, [Next]_vars, Ran
    PROVE  request \in Request /\ Classified(request)
<1>1. request # NoRequest /\ request \in Request /\ run = NoRun /\ run' # NoRun
  BY DEF IInv, TypeOK, Sent, Ran
<1>2. CASE Answer
  BY <1>1, <1>2 DEF Answer, Reject, LookupFails, RefuseWithoutRedshift, ClassificationFails,
                    Unclassified
<1>3. CASE OpenPage \/ Overlay \/ SubmitForm \/ SubmitHidden
  BY <1>1, <1>3 DEF OpenPage, Overlay, SubmitForm, SubmitHidden, Send
<1>4. CASE UNCHANGED vars
  BY <1>1, <1>4 DEF vars
<1> QED BY <1>2, <1>3, <1>4 DEF Next

\* What the researcher types for the source in play is what the classification
\* runs with, and is not attributed to WISeREP (TypedValueIsUsed).
THEOREM TypedValuesAreUsed == Spec => TypedValueIsUsed
<1> DEFINE z == request.box.z
           A == Ran =>
                 (/\ \A o \in Objects, e \in Epochs : z # SourceZ[o][e]
                  /\ z # NoZ
                  /\ request.box.known
                  /\ request.main
                  /\ Key(request) = sourceKey
                  => run'.used = z /\ ~run'.label)
<1>1. ASSUME IInv, [Next]_vars, Ran,
             \A o \in Objects, e \in Epochs : z # SourceZ[o][e],
             z # NoZ, request.box.known, Key(request) = sourceKey
      PROVE  run'.used = z /\ ~run'.label
  <2>1. request \in Request /\ Classified(request) /\ TypeOK
    BY <1>1, RunsAreClassified DEF IInv
  <2>2. run'.used = Used(request) /\ run'.label = FilledIn(request)
    BY <2>1 DEF Classified
  <2>3. ~SourceChanged(request) /\ ~OptedOut(request)
    BY <1>1 DEF SourceChanged, OptedOut
  <2>4. z # Source(request)
    <3>1. ByName(request) =>
            /\ request.name \in Objects /\ request.epoch \in Epochs
            /\ Source(request) = SourceZ[request.name][request.epoch]
      BY <2>1, Readings
    <3>2. ~ByName(request) => Source(request) = NoZ
      BY DEF Source
    <3> QED BY <1>1, <3>1, <3>2
  <2>5. ~(Attributed # NoZ /\ z = Attributed)
    <3>1. CASE provenance # NoProvenance /\ provenance.redshift_from_source
      <4>1. provenance.name \in Objects /\ provenance.epoch \in Epochs
        BY <2>1, <3>1 DEF TypeOK, Provenance
      <4>2. Attributed = SourceZ[provenance.name][provenance.epoch]
        BY <1>1, <3>1 DEF IInv, Paired, Attributed
      <4> QED BY <1>1, <4>1, <4>2
    <3>2. CASE ~(provenance # NoProvenance /\ provenance.redshift_from_source)
      BY <3>2 DEF Attributed
    <3> QED BY <3>1, <3>2
  <2>6. ~FilledIn(request)
    BY <1>1, <2>3, <2>4, <2>5 DEF FilledIn, Unedited
  <2>7. Used(request) = z
    BY <1>1, <2>3, <2>6 DEF Used, Resolved, Params
  <2> QED BY <2>2, <2>6, <2>7
<1>2. IInv /\ [Next]_vars => [A]_vars
  BY <1>1
<1> QED BY <1>2, RedshiftInvariant, PTL DEF Spec, TypedValueIsUsed

\* A declined redshift does not come back with the next submission of the form
\* (OptOutSticks).
THEOREM OptOutsStick == Spec => OptOutSticks
<1> DEFINE A == Ran /\ request.main /\ ByName(request) /\ policy # "none"
                 /\ request.name = declined /\ request.box.z = NoZ
                 => run'.z = NoZ
<1>1. ASSUME IInv, [Next]_vars, Ran, request.main, ByName(request), policy # "none",
             request.name = declined, request.box.z = NoZ
      PROVE  run'.z = NoZ
  <2>1. request \in Request /\ Classified(request)
    BY <1>1, RunsAreClassified
  <2>2. run'.z = Resolved(request).z
    BY <2>1 DEF Classified
  <2>3. declined # NoKey
    BY <1>1, <2>1, Readings, NoSuchObjects DEF IInv
  <2>4. ~SourceChanged(request) /\ Offered # NoZ
    BY <1>1, <2>3 DEF IInv, Declining, SourceChanged, Key, ByName, Offered
  <2>5. request.controls
    BY <1>1, <2>1 DEF IInv, Sent, Ran
  <2>6. OptedOut(request)
    BY <1>1, <2>4, <2>5 DEF OptedOut
  <2> QED BY <2>2, <2>6 DEF Resolved, EmptyBox
<1>2. IInv /\ [Next]_vars => [A]_vars
  BY <1>1
<1> QED BY <1>2, RedshiftInvariant, PTL DEF Spec, OptOutSticks
=============================================================================
