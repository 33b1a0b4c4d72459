------------------------- MODULE ModelAccessProofs --------------------------
(***************************************************************************)
(* Proofs about ModelAccess, for any tabs, models, registries, links and   *)
(* session keys: a scope stays under the key it was granted under, the     *)
(* artifacts of a session are those of its scope, gated models run and     *)
(* what a scope produced is shown only by requests begun before its        *)
(* deadline.                                                               *)
(*                                                                         *)
(* The argument: the copy of the session that a request works on may be    *)
(* old when it is written back, but a handler never adds a scope to it,    *)
(* and it goes back under the key it was loaded from.  begin_scope alone   *)
(* adds one, and uses a key that no row, no cookie and no request has.     *)
(* So it is enough that the copies in flight meet what the rows meet.      *)
(***************************************************************************)
EXTENDS ModelAccess, TLAPS

\* The artifacts of a session are those of its scope.
WellOwned(s) == s.artifacts # NoArtifacts => s.artifacts.under = s.scope

\* What a handler may make of the session s that it loaded.
Handled(s, t) ==
    /\ t \in Session
    /\ WellOwned(s) => WellOwned(t)
    /\ t.scope \in {NoScope, s.scope}

RowInv(k) ==
    sessions[k] # NoSession =>
        WellOwned(sessions[k]) /\ sessions[k].scope \in {NoScope, grantOf[k]}

\* A session of which w may show the results now.
InTime(w, s) ==
    ShownScope(w, s) # NoScope => clock < ShownScope(w, s).expires_at

BegunInTime(r) ==
    ShownScope(work[r], copy[r]) # NoScope =>
        began[r] < ShownScope(work[r], copy[r]).expires_at

CopyInv(r) ==
    /\ BegunInTime(r)
    /\ WellOwned(copy[r])
    /\ copy[r].scope # NoScope => key[r] # NoKey /\ copy[r].scope = grantOf[key[r]]
    /\ work[r] = "grant" => link[r] \in Links
    /\ work[r] = "classify" => running[r] \in ModelIds

IInv ==
    /\ TypeOK
    /\ \A k \in Keys : RowInv(k)
    /\ \A r \in Requests : CopyInv(r)

-----------------------------------------------------------------------------
(* What the handlers make of a session.                                     *)

LEMMA EmptyFacts == Empty \in Session /\ WellOwned(Empty) /\ Empty.scope = NoScope
BY DEF Empty, Session, WellOwned

LEMMA SessionFacts ==
    ASSUME NEW s \in Session
    PROVE  /\ s.scope \in Links \cup {NoScope}
           /\ s.selected \in ModelIds \cup {NoModel}
           /\ s.artifacts \in Artifacts \cup {NoArtifacts}
           /\ s.scope # NoScope =>
                s.scope.model \in Models /\ s.scope.expires_at \in Nat
BY LinksNameModels DEF Session

LEMMA HandledFacts ==
    ASSUME NEW s \in Session
    PROVE  /\ Handled(s, s) /\ Handled(s, Swept(s)) /\ Handled(s, Unselected(s))
           /\ \A m \in ModelIds : /\ Handled(s, [s EXCEPT !.selected = m])
                                  /\ Handled(s, [Swept(s) EXCEPT !.selected = m])
BY DEF Handled, Swept, Unselected, Empty, Session, WellOwned

LEMMA RevalidatedFacts ==
    ASSUME NEW s \in Session
    PROVE  Handled(s, Revalidated(s))
BY HandledFacts, SessionFacts DEF Revalidated, ModelIds

\* What a request loads.
LEMMA LoadedFacts ==
    ASSUME IInv
    PROVE  /\ Loaded \in Session /\ WellOwned(Loaded)
           /\ HasSession => cookie \in Keys
           /\ Loaded.scope # NoScope => HasSession /\ Loaded.scope = grantOf[cookie]
<1>1. CASE HasSession
  <2>1. cookie \in Keys /\ sessions[cookie] \in Session
    BY <1>1 DEF HasSession, IInv, TypeOK
  <2> QED
    BY <1>1, <2>1 DEF Loaded, IInv, RowInv, HasSession
<1>2. CASE ~HasSession
  BY <1>2, EmptyFacts DEF Loaded
<1> QED
  BY <1>1, <1>2

-----------------------------------------------------------------------------
(* The two halves of a request.                                             *)

\* A request that begins with a handled session keeps the invariant.
LEMMA BeginStep ==
    ASSUME IInv, NEW r \in Requests, NEW s, NEW w \in Work,
           Begin(r, s, w), Handled(Loaded, s), InTime(w, s),
           \/ link' = link
           \/ \E l \in Links : link' = [link EXCEPT ![r] = l],
           \/ running' = running
           \/ \E m \in ModelIds : running' = [running EXCEPT ![r] = m],
           w = "grant" => link'[r] \in Links,
           w = "classify" => running'[r] \in ModelIds
    PROVE  IInv'
<1>1. /\ s \in Session /\ WellOwned(s)
      /\ s.scope # NoScope => HasSession /\ s.scope = grantOf[cookie]
  BY LoadedFacts DEF Handled
<1>2. /\ work' = [work EXCEPT ![r] = w] /\ copy' = [copy EXCEPT ![r] = s]
      /\ key' = [key EXCEPT ![r] = IF HasSession THEN cookie ELSE NoKey]
      /\ began' = [began EXCEPT ![r] = clock]
      /\ UNCHANGED <<clock, registry, sessions, cookie, grantOf>>
  BY DEF Begin, system, table
<1>3. (IF HasSession THEN cookie ELSE NoKey) \in Keys \cup {NoKey}
  BY LoadedFacts
<1>4. TypeOK'
  BY <1>1, <1>2, <1>3 DEF IInv, TypeOK
<1>5. \A k \in Keys : RowInv(k)'
  BY <1>2 DEF IInv, RowInv
<1>6. /\ work'[r] = w /\ copy'[r] = s
      /\ key'[r] = IF HasSession THEN cookie ELSE NoKey
      /\ began'[r] = clock
  BY <1>2 DEF IInv, TypeOK
<1>7. CopyInv(r)'
  <2>1. WellOwned(copy'[r])
    BY <1>1, <1>6
  <2>2. HasSession => cookie # NoKey
    BY DEF HasSession
  <2>3. BegunInTime(r)'
    BY <1>6 DEF BegunInTime, InTime, ShownScope
  <2> QED
    BY <1>1, <1>2, <1>6, <2>1, <2>2, <2>3 DEF CopyInv, WellOwned
<1>8. ASSUME NEW q \in Requests \ {r}
      PROVE  CopyInv(q)'
  BY <1>2 DEF IInv, TypeOK, CopyInv, BegunInTime, ShownScope, WellOwned
<1> QED
  BY <1>4, <1>5, <1>7, <1>8 DEF IInv

\* A request is done with.
LEMMA RespondFacts ==
    ASSUME IInv, NEW r \in Requests, Respond(r), UNCHANGED system,
           sessions' \in [Keys -> Session \cup {NoSession}], cookie' \in Keys \cup {NoKey},
           grantOf' \in [Keys -> Links \cup {NoScope}],
           \A k \in Keys : RowInv(k)',
           \A q \in Requests, k \in Keys : key[q] = k => q = r \/ grantOf'[k] = grantOf[k]
    PROVE  IInv'
<1>1. TypeOK'
  BY EmptyFacts, ClockBounded DEF IInv, TypeOK, Respond, system, Work
<1>2. CopyInv(r)'
  <2>1. copy'[r] = Empty /\ work'[r] = "idle"
    BY DEF IInv, TypeOK, Respond
  <2> QED
    BY <2>1, EmptyFacts DEF CopyInv, BegunInTime, ShownScope, WellOwned
<1>3. ASSUME NEW q \in Requests \ {r}
      PROVE  CopyInv(q)'
  <2>1. /\ copy'[q] = copy[q] /\ work'[q] = work[q] /\ key'[q] = key[q]
        /\ link'[q] = link[q] /\ running'[q] = running[q] /\ began'[q] = began[q]
    BY DEF IInv, TypeOK, Respond
  <2>2. key[q] # NoKey => grantOf'[key[q]] = grantOf[key[q]]
    BY DEF IInv, TypeOK
  <2>3. CopyInv(q)
    BY DEF IInv
  <2> QED
    BY <2>1, <2>2, <2>3 DEF CopyInv, BegunInTime, ShownScope, WellOwned
<1> QED
  BY <1>1, <1>2, <1>3 DEF IInv

\* A request that writes back a handled copy keeps the invariant.
LEMMA SaveStep ==
    ASSUME IInv, NEW r \in Requests, NEW s,
           Save(r, s), Handled(copy[r], s), Respond(r), UNCHANGED <<system, grantOf>>
    PROVE  IInv'
<1>1. /\ s \in Session /\ WellOwned(s)
      /\ s.scope # NoScope => key[r] # NoKey /\ s.scope = grantOf[key[r]]
  BY DEF Handled, IInv, CopyInv
<1>2. key[r] \in Keys \cup {NoKey}
  BY DEF IInv, TypeOK
<1>3. \/ sessions' = sessions /\ cookie' \in Keys \cup {NoKey}
      \/ \E k \in Keys : /\ sessions' = [sessions EXCEPT ![k] = s]
                         /\ cookie' = k
                         /\ s.scope \in {NoScope, grantOf[k]}
  BY <1>1, <1>2 DEF Save, table, IInv, TypeOK
<1>4. /\ sessions' \in [Keys -> Session \cup {NoSession}]
      /\ cookie' \in Keys \cup {NoKey}
      /\ \A k \in Keys : sessions'[k] = sessions[k]
                          \/ (sessions'[k] = s /\ s.scope \in {NoScope, grantOf[k]})
  BY <1>1, <1>3 DEF IInv, TypeOK
<1>5. \A k \in Keys : RowInv(k)'
  BY <1>1, <1>4 DEF IInv, RowInv, WellOwned
<1> QED
  BY <1>4, <1>5, RespondFacts DEF IInv, TypeOK

\* A grant puts its scope under a key that nothing else has.
LEMMA GrantStep ==
    ASSUME IInv, NEW r \in Requests, Grant(r)
    PROVE  IInv'
<1> DEFINE s == Scoped(copy[r], link[r])
<1>1. link[r] \in Links /\ link[r].model \in Models
  BY LinksNameModels DEF Grant, IInv, CopyInv
<1>2. s \in Session /\ WellOwned(s) /\ s.scope = link[r]
  BY <1>1 DEF Scoped, Swept, Empty, Session, WellOwned, ModelIds
<1>3. PICK k \in Keys :
        /\ Unused(k)
        /\ sessions' = [j \in Keys |-> IF j = k THEN s
                ELSE IF j = key[r] THEN NoSession ELSE sessions[j]]
        /\ cookie' = k
        /\ grantOf' = [grantOf EXCEPT ![k] = link[r]]
  BY DEF Grant
<1> HIDE DEF s
<1>4. /\ sessions' \in [Keys -> Session \cup {NoSession}] /\ cookie' \in Keys \cup {NoKey}
      /\ grantOf' \in [Keys -> Links \cup {NoScope}]
  BY <1>1, <1>2, <1>3 DEF IInv, TypeOK
<1>5. ASSUME NEW j \in Keys
      PROVE  RowInv(j)'
  <2>1. CASE j = k
    <3>1. sessions'[j] = s /\ grantOf'[j] = link[r]
      BY <1>3, <2>1 DEF IInv, TypeOK
    <3> QED
      BY <1>2, <3>1 DEF RowInv, WellOwned
  <2>2. CASE j # k
    <3>1. sessions'[j] \in {NoSession, sessions[j]} /\ grantOf'[j] = grantOf[j]
      BY <1>3, <2>2 DEF IInv, TypeOK
    <3> QED
      BY <3>1 DEF IInv, RowInv, WellOwned
  <2> QED
    BY <2>1, <2>2
<1>6. \A q \in Requests, j \in Keys : key[q] = j => q = r \/ grantOf'[j] = grantOf[j]
  BY <1>3 DEF Unused, IInv, TypeOK
<1>7. Respond(r) /\ UNCHANGED system
  BY DEF Grant
<1> QED
  BY <1>4, <1>5, <1>6, <1>7, RespondFacts

-----------------------------------------------------------------------------
(* The requests.                                                            *)

\* Requests whose handler has nothing to run: what they leave is a handled session.
LEMMA QuietBegin ==
    ASSUME IInv, NEW r \in Requests, NEW s, NEW w \in Work \ {"grant", "classify"},
           Begin(r, s, w), Handled(Loaded, s), InTime(w, s), UNCHANGED <<link, running>>
    PROVE  IInv'
BY BeginStep

\* A request that shows nothing of a scope is never late, and one that goes by a
\* session that has not lapsed is not.
LEMMA QuietInTime ==
    ASSUME NEW s, NEW w \in {"reply", "grant", "batch"}
    PROVE  InTime(w, s)
BY DEF InTime, ShownScope

LEMMA UnlapsedInTime ==
    ASSUME IInv, NEW s \in Session, WellOwned(s), ~Lapsed(s), NEW w \in Work,
           w # "classify" => s.artifacts # NoArtifacts
    PROVE  InTime(w, s)
BY SessionFacts, ClockBounded DEF InTime, ShownScope, WellOwned, Lapsed, IInv, TypeOK

LEMMA RevalidatedInTime ==
    ASSUME IInv, Gate(Loaded) = "pass", NEW w \in {"reply", "show", "classify"},
           w = "show" => Revalidated(Loaded).artifacts # NoArtifacts
    PROVE  InTime(w, Revalidated(Loaded))
<1>1. Loaded \in Session /\ WellOwned(Loaded)
  BY LoadedFacts
<1>2. ~Lapsed(Loaded)
  BY DEF Gate
<1>3. Handled(Loaded, Revalidated(Loaded))
  BY <1>1, RevalidatedFacts
<1>4. ~Lapsed(Revalidated(Loaded))
  BY <1>2, <1>3 DEF Handled, Lapsed
<1>5. w \in Work
  BY DEF Work
<1>6. CASE w = "reply"
  BY <1>6, QuietInTime
<1>7. CASE w # "reply"
  BY <1>1, <1>3, <1>4, <1>5, <1>7, UnlapsedInTime DEF Handled
<1> QED
  BY <1>6, <1>7

LEMMA GateSteps ==
    ASSUME IInv, NEW r \in Requests,
           PresentCredential(r) \/ FollowLink(r) \/ EndModelScope(r) \/ SelectModel(r)
    PROVE  IInv'
<1>1. Loaded \in Session
  BY LoadedFacts
<1>2. {"reply", "grant"} \subseteq Work
  BY DEF Work
<1>3. CASE PresentCredential(r)
  <2>1. PICK l \in Links : Begin(r, Loaded, "grant") /\ link' = [link EXCEPT ![r] = l]
    BY <1>3 DEF PresentCredential
  <2>2. running' = running /\ link'[r] \in Links
    BY <1>3, <2>1 DEF PresentCredential, IInv, TypeOK
  <2> QED
    BY <1>1, <1>2, <2>1, <2>2, HandledFacts, QuietInTime, BeginStep
<1>4. CASE FollowLink(r)
  <2>1. PICK l \in Links :
            Begin(r, IF DefinitionOf(l.model) = NoDefinition
                       THEN Swept(Loaded)
                       ELSE [Swept(Loaded) EXCEPT !.selected = l.model], "reply")
    BY <1>4 DEF FollowLink
  <2>2. l.model \in ModelIds
    BY LinksNameModels DEF ModelIds
  <2>3. /\ Handled(Loaded, Swept(Loaded))
        /\ Handled(Loaded, [Swept(Loaded) EXCEPT !.selected = l.model])
    BY <1>1, <2>2, HandledFacts
  <2> QED
    BY <1>2, <1>4, <2>1, <2>3, QuietInTime, QuietBegin DEF FollowLink
<1>5. CASE EndModelScope(r)
  BY <1>1, <1>2, <1>5, HandledFacts, QuietInTime, QuietBegin DEF EndModelScope
<1>6. CASE SelectModel(r)
  <2>1. \/ Begin(r, Swept(Loaded), "reply")
        \/ \E m \in ModelIds : Begin(r, [Loaded EXCEPT !.selected = m], "reply")
    BY <1>6 DEF SelectModel, ModelIds
  <2> QED
    BY <1>1, <1>2, <1>6, <2>1, HandledFacts, QuietInTime, QuietBegin DEF SelectModel
<1> QED
  BY <1>3, <1>4, <1>5, <1>6

LEMMA ClassifySteps ==
    ASSUME IInv, NEW r \in Requests,
           ClassifyRefused(r) \/ ClassifyPage(r) \/ Classify(r)
    PROVE  IInv'
<1>1. Loaded \in Session
  BY LoadedFacts
<1>2. Handled(Loaded, Revalidated(Loaded))
  BY <1>1, RevalidatedFacts
<1>3. {"reply", "show", "classify"} \subseteq Work
  BY DEF Work
<1>4. CASE ClassifyRefused(r)
  BY <1>1, <1>2, <1>3, <1>4, HandledFacts, QuietInTime, QuietBegin DEF ClassifyRefused
<1>5. CASE ClassifyPage(r)
  BY <1>2, <1>3, <1>5, RevalidatedInTime, QuietBegin DEF ClassifyPage
<1>6. CASE Classify(r)
  <2> DEFINE m == EffectiveModel(Revalidated(Loaded))
  <2>1. m \in ModelIds
    BY <1>2, <1>6, SessionFacts DEF Classify, EffectiveModel, LiveScope, Handled, ModelIds
  <2>2. /\ Begin(r, Revalidated(Loaded), "classify")
        /\ running' = [running EXCEPT ![r] = m] /\ link' = link
    BY <1>6 DEF Classify
  <2>3. running'[r] \in ModelIds
    BY <2>1, <2>2 DEF IInv, TypeOK
  <2> QED
    BY <1>2, <1>3, <1>6, <2>1, <2>2, <2>3, RevalidatedInTime, BeginStep DEF Classify
<1> QED
  BY <1>4, <1>5, <1>6

LEMMA BatchAndTwinsSteps ==
    ASSUME IInv, NEW r \in Requests, BatchRefused(r) \/ Batch(r) \/ TwinsSearch(r)
    PROVE  IInv'
<1>1. Loaded \in Session
  BY LoadedFacts
<1>2. {"reply", "twins", "batch"} \subseteq Work
  BY DEF Work
<1>3. CASE BatchRefused(r)
  BY <1>1, <1>2, <1>3, HandledFacts, QuietInTime, QuietBegin DEF BatchRefused
<1>4. CASE Batch(r)
  <2>1. /\ Loaded.selected \in ModelIds /\ link' = link
        /\ Begin(r, Loaded, "batch") /\ running' = [running EXCEPT ![r] = Loaded.selected]
    BY <1>1, <1>4, SessionFacts DEF Batch
  <2> QED
    BY <1>1, <1>2, <2>1, HandledFacts, QuietInTime, BeginStep
<1>5. CASE TwinsSearch(r)
  <2>1. CASE Begin(r, Swept(Loaded), "reply")
    BY <1>1, <1>2, <1>5, <2>1, HandledFacts, QuietInTime, QuietBegin DEF TwinsSearch
  <2>2. CASE ~Lapsed(Loaded) /\ Begin(r, Loaded, "twins")
    <3>1. InTime("twins", Loaded)
      BY <1>1, <1>2, <1>5, <2>2, LoadedFacts, UnlapsedInTime DEF TwinsSearch
    <3> QED
      BY <1>1, <1>2, <1>5, <2>2, <3>1, HandledFacts, QuietBegin DEF TwinsSearch
  <2> QED
    BY <1>5, <2>1, <2>2 DEF TwinsSearch
<1> QED
  BY <1>3, <1>4, <1>5

LEMMA EndSteps ==
    ASSUME IInv, NEW r \in Requests, Reply(r) \/ ReplyOnly(r) \/ ClassifyEnds(r)
    PROVE  IInv'
<1>1. copy[r] \in Session
  BY DEF IInv, TypeOK
<1>2. CASE Reply(r)
  BY <1>1, <1>2, HandledFacts, SaveStep DEF Reply
<1>3. CASE ReplyOnly(r)
  <2>1. \A k \in Keys : RowInv(k)'
    BY <1>3 DEF ReplyOnly, table, IInv, RowInv, WellOwned
  <2> QED
    BY <1>3, <2>1, RespondFacts DEF ReplyOnly, table, IInv, TypeOK
<1>4. CASE ClassifyEnds(r)
  <2>1. running[r] \in ModelIds
    BY <1>4 DEF ClassifyEnds, IInv, CopyInv
  <2>2. [by |-> running[r], under |-> copy[r].scope] \in Artifacts
    BY <1>1, <2>1, SessionFacts DEF Artifacts
  <2>3. Handled(copy[r], Produced(r))
    BY <1>1, <2>2 DEF Handled, Produced, Session, WellOwned
  <2> QED
    BY <1>1, <1>4, <2>3, HandledFacts, SaveStep DEF ClassifyEnds
<1> QED
  BY <1>2, <1>3, <1>4

LEMMA IInvStep ==
    ASSUME IInv, [Next]_vars
    PROVE  IInv'
<1>1. ASSUME NEW r \in Requests, Request(r)
      PROVE  IInv'
  BY <1>1, GateSteps, ClassifySteps, BatchAndTwinsSteps, GrantStep, EndSteps DEF Request
<1>2. CASE Tick
  <2>1. TypeOK'
    BY <1>2, ClockBounded DEF Tick, table, request, IInv, TypeOK
  <2> QED
    BY <1>2, <2>1 DEF Tick, table, request, IInv, RowInv, CopyInv, BegunInTime,
            ShownScope, WellOwned
<1>3. CASE Deploy
  <2>1. TypeOK'
    BY <1>3, EmptyFacts, ClockBounded DEF Deploy, table, IInv, TypeOK, Work
  <2>2. \A r \in Requests : CopyInv(r)'
    BY <1>3, EmptyFacts DEF Deploy, CopyInv, BegunInTime, ShownScope, WellOwned
  <2> QED
    BY <1>3, <2>1, <2>2 DEF Deploy, table, IInv, RowInv, WellOwned
<1>4. CASE UNCHANGED vars
  BY <1>4 DEF vars, system, table, request, IInv, TypeOK, RowInv, CopyInv, BegunInTime,
              ShownScope, WellOwned
<1> QED
  BY <1>1, <1>2, <1>3, <1>4 DEF Next

LEMMA IInvInit == Init => IInv
BY EmptyFacts, ClockBounded DEF Init, IInv, TypeOK, RowInv, CopyInv, BegunInTime,
   ShownScope, WellOwned, Work

-----------------------------------------------------------------------------
(* The theorems.                                                            *)

\* Whatever the tabs of the browser have in flight when a scope begins, ends or
\* lapses, every copy and every row has its scope from the grant its key was made
\* for, and its artifacts from that scope.
THEOREM AccessInvariant == Spec => []IInv
BY IInvInit, IInvStep, PTL DEF Spec

\* The types that the runs check.
THEOREM AccessTyped == Spec => []TypeOK
<1>1. IInv => TypeOK
  BY DEF IInv
<1> QED
  BY <1>1, AccessInvariant, PTL

\* A session key carries no scope but the one it was made for: begin_scope rotates
\* the key, and a stale write-back goes under the key it was loaded from.
THEOREM ScopesStay == Spec => []ScopeStaysInItsSession
<1>1. IInv => ScopeStaysInItsSession
  BY DEF IInv, RowInv, ScopeStaysInItsSession
<1> QED
  BY <1>1, AccessInvariant, PTL

\* A session holds the artifacts of its own scope and no others: begin_scope,
\* end_scope and a lapse sweep them with the scope.
THEOREM ArtifactsStay == Spec => []ArtifactsBelongToScope
<1>1. IInv => ArtifactsBelongToScope
  BY DEF IInv, RowInv, WellOwned, ArtifactsBelongToScope
<1> QED
  BY <1>1, AccessInvariant, PTL

\* What a scope produced is shown only by requests that began before its deadline:
\* the artifacts of a session are those of its scope, and each view that shows them,
\* or classifies, loads a session whose scope has not lapsed.
THEOREM ResultsBegunInTime == Spec => []ShownResultsBegunInTime
<1>1. IInv => ShownResultsBegunInTime
  BY DEF IInv, CopyInv, BegunInTime, ShownResultsBegunInTime
<1> QED
  BY <1>1, AccessInvariant, PTL

-----------------------------------------------------------------------------
(* The action property.                                                     *)

\* What a request runs is decided where it begins.
LEMMA BeginsWith ==
    ASSUME IInv, NEW r \in Requests, NEW s, NEW w, Begin(r, s, w), NEW q \in Requests
    PROVE  IF q = r THEN work'[q] = w /\ copy'[q] = s
                    ELSE work'[q] = work[q] /\ copy'[q] = copy[q]
BY DEF Begin, IInv, TypeOK

LEMMA EndsRunNothing ==
    ASSUME IInv, NEW r \in Requests, Grant(r) \/ Reply(r) \/ ReplyOnly(r) \/ ClassifyEnds(r),
           NEW q \in Requests
    PROVE  /\ running'[q] \in {running[q], NoModel}
           /\ work'[q] \in {work[q], "idle"}
BY DEF Grant, Reply, ReplyOnly, ClassifyEnds, Respond, IInv, TypeOK

LEMMA NoModelNeedsNoCredential == ~RequiresCredential(NoModel)
BY NoModelIsNone DEF RequiresCredential, DefinitionOf

\* Past the gate and the revalidation, a classification runs a model that needs no
\* credential, or the model of a scope that has not lapsed.
LEMMA ClassifiedInScope ==
    ASSUME IInv, Gate(Loaded) = "pass", ~ToPicker(Loaded),
           RequiresCredential(EffectiveModel(Revalidated(Loaded)))
    PROVE  LET s == Revalidated(Loaded).scope IN
           s # NoScope /\ s.model = EffectiveModel(Revalidated(Loaded)) /\ clock < s.expires_at
<1> DEFINE s == Loaded
<1>1. s \in Session /\ clock \in Nat
  BY LoadedFacts, ClockBounded DEF IInv, TypeOK
<1>2. ~Lapsed(s)
  BY DEF Gate
<1> HIDE DEF s
<1>3. CASE s.scope = NoScope
  <2>1. Revalidated(s) = s /\ EffectiveModel(s) = s.selected
    BY <1>3 DEF Revalidated, ToPicker, EffectiveModel, LiveScope, s
  <2>2. ~RequiresCredential(s.selected)
    BY <1>3, NoModelNeedsNoCredential DEF ToPicker, Selectable, RequiresCredential, s
  <2> QED
    BY <2>1, <2>2 DEF s
<1>4. CASE s.scope # NoScope /\ RequiresCredential(s.scope.model)
  <2>1. Revalidated(s) = s /\ EffectiveModel(s) = s.scope.model
    BY <1>2, <1>4 DEF Revalidated, EffectiveModel, LiveScope, s
  <2>2. clock < s.scope.expires_at
    BY <1>1, <1>2, <1>4, SessionFacts DEF Lapsed
  <2> QED
    BY <1>4, <2>1, <2>2 DEF s
<1>5. CASE s.scope # NoScope /\ ~RequiresCredential(s.scope.model)
  <2>1. Revalidated(s) = [Swept(s) EXCEPT !.selected = s.scope.model]
    BY <1>5 DEF Revalidated, s
  <2>2. Revalidated(s).scope = NoScope /\ Revalidated(s).selected = s.scope.model
    BY <2>1 DEF Swept, Empty
  <2>3. EffectiveModel(Revalidated(s)) = s.scope.model
    BY <2>2 DEF EffectiveModel, LiveScope
  <2> QED
    BY <1>5, <2>3 DEF s
<1> QED
  BY <1>3, <1>4, <1>5

\* One request's step is as the property says.
GatedRunInScope(r) ==
    running[r] = NoModel /\ RequiresCredential(running'[r]) =>
        LET s == copy'[r].scope IN
        /\ s # NoScope
        /\ s.model = running'[r]
        /\ clock < s.expires_at

LEMMA GatedRunStep ==
    ASSUME IInv, [Next]_vars, NEW q \in Requests, running[q] = NoModel
    PROVE  GatedRunInScope(q)
<1>1. running'[q] \in {running[q], NoModel} => GatedRunInScope(q)
  BY NoModelNeedsNoCredential DEF GatedRunInScope
<1>2. ASSUME NEW r \in Requests, Request(r)
      PROVE  GatedRunInScope(q)
  <2>1. CASE Classify(r)
    <3>1. /\ running' = [running EXCEPT ![r] = EffectiveModel(Revalidated(Loaded))]
          /\ Begin(r, Revalidated(Loaded), "classify")
          /\ Gate(Loaded) = "pass" /\ ~ToPicker(Loaded)
      BY <2>1 DEF Classify
    <3>2. CASE q = r
      <4>1. /\ running'[q] = EffectiveModel(Revalidated(Loaded))
            /\ copy'[q] = Revalidated(Loaded)
        BY <3>1, <3>2, BeginsWith DEF IInv, TypeOK
      <4> QED
        BY <3>1, <4>1, ClassifiedInScope DEF GatedRunInScope
    <3>3. CASE q # r
      BY <1>1, <3>1, <3>3 DEF IInv, TypeOK
    <3> QED
      BY <3>2, <3>3
  <2>2. CASE Batch(r)
    <3>1. ~RequiresCredential(Loaded.selected)
      BY <2>2 DEF Batch, ToPicker, Selectable, RequiresCredential
    <3>2. running' = [running EXCEPT ![r] = Loaded.selected]
      BY <2>2 DEF Batch
    <3>3. running'[q] \in {running[q], Loaded.selected}
      BY <3>2 DEF IInv, TypeOK
    <3> QED
      BY <1>1, <3>1, <3>3 DEF GatedRunInScope
  <2>3. CASE Grant(r) \/ Reply(r) \/ ReplyOnly(r) \/ ClassifyEnds(r)
    BY <1>1, <2>3, EndsRunNothing
  <2>4. CASE ~(Classify(r) \/ Batch(r) \/ Grant(r) \/ Reply(r) \/ ReplyOnly(r) \/ ClassifyEnds(r))
    <3>1. running' = running
      BY <1>2, <2>4 DEF Request, PresentCredential, FollowLink, EndModelScope, SelectModel,
         ClassifyRefused, ClassifyPage, BatchRefused, TwinsSearch
    <3> QED
      BY <1>1, <3>1
  <2> QED
    BY <2>1, <2>2, <2>3, <2>4
<1>3. CASE Tick \/ Deploy \/ UNCHANGED vars
  BY <1>1, <1>3 DEF Tick, Deploy, vars, request
<1> QED
  BY <1>2, <1>3 DEF Next

\* A run of a model that requires the credential starts only inside a live scope to
\* that model: classify checks the gate, the deadline and the registry on the copy
\* that it then takes the model from.
THEOREM GatedRunsStayInScope == Spec => GatedRunsInScope
<1>1. IInv /\ [Next]_vars =>
        [\A r \in Requests :
            running[r] = NoModel /\ RequiresCredential(running'[r]) =>
                LET s == copy'[r].scope IN
                /\ s # NoScope
                /\ s.model = running'[r]
                /\ clock < s.expires_at]_vars
  BY GatedRunStep DEF GatedRunInScope
<1> QED
  BY <1>1, AccessInvariant, PTL DEF Spec, GatedRunsInScope

=============================================================================
