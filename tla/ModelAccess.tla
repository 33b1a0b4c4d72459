---------------------------- MODULE ModelAccess -----------------------------
(***************************************************************************)
(* The gate in front of credentialed models (core/model_access.py) and the *)
(* views that consult it (ui_views.py), for one browser whose tabs send    *)
(* requests concurrently.                                                  *)
(*                                                                         *)
(* A request works on its own copy of the session: it loads the row of the *)
(* browser's cookie, its handler checks and changes the copy, and when it  *)
(* is done the whole copy is written back if the handler changed it.  A    *)
(* handler runs in two steps, the load with everything decided on it, and  *)
(* the end of its work with the write-back; between them a classification  *)
(* may take minutes.  The sessions are Django's (database backend): saving *)
(* to a row that is gone fails, and cycle_key writes a new row, deletes    *)
(* the old one and changes the cookie.                                     *)
(*                                                                         *)
(* A deployment replaces the model registry, and kills what is in flight.  *)
(***************************************************************************)
EXTENDS Naturals

CONSTANTS
    Requests,       \* requests the browser may have in flight together
    Models,         \* ids a registry may define
    Uploaded,       \* "user_uploaded": an id no registry defines
    Registries,     \* registries that get deployed
    TwinModels,     \* models that declare the twins surface
    Links,          \* entry links that were minted, all with the credential
    Keys,           \* session keys
    MaxClock,       \* bound: how long the browser is watched
    NoDefinition, NoModel, NoScope, NoArtifacts, NoKey, NoSession

Definition == [requires_credential : BOOLEAN, listed : BOOLEAN, is_active : BOOLEAN]

\* validate_registry, which the application starts with
ValidRegistry(r) ==
    \A m \in Models : r[m] # NoDefinition =>
        ~(r[m].requires_credential /\ r[m].listed)

ASSUME RegistriesValid ==
    /\ Registries \subseteq [Models -> Definition \cup {NoDefinition}]
    /\ \A r \in Registries : ValidRegistry(r)
ASSUME LinksNameModels == Links \subseteq [model : Models, expires_at : Nat]
ASSUME NoModelIsNone == NoModel \notin Models \cup {Uploaded}
ASSUME ClockBounded == MaxClock \in Nat

VARIABLES
    clock, registry,
    sessions,       \* the session table
    cookie,         \* the key the browser holds
    work,           \* what each request is at
    copy,           \* its copy of the session
    key,            \* the key it was loaded under
    link,           \* the link a redemption presents
    running,        \* the model a classification or batch runs
    grantOf,        \* history: the link each key was made for
    began           \* history: when each request loaded its session

system == <<clock, registry>>
table == <<sessions, cookie>>
request == <<work, copy, key, link, running>>
vars == <<system, table, request, grantOf, began>>

ModelIds == Models \cup {Uploaded}

\* classify_*: the model that produced them, and the scope it ran under.
Artifacts == [by : ModelIds, under : Links \cup {NoScope}]

Session == [scope : Links \cup {NoScope},
            selected : ModelIds \cup {NoModel},
            artifacts : Artifacts \cup {NoArtifacts}]

\* What a request is at.  A twins search and a batch leave the session alone.
Work == {"idle", "reply", "grant", "show", "classify", "twins", "batch"}

Empty == [scope |-> NoScope, selected |-> NoModel, artifacts |-> NoArtifacts]

TypeOK ==
    /\ clock \in 0..MaxClock
    /\ registry \in Registries
    /\ sessions \in [Keys -> Session \cup {NoSession}]
    /\ cookie \in Keys \cup {NoKey}
    /\ work \in [Requests -> Work]
    /\ copy \in [Requests -> Session]
    /\ key \in [Requests -> Keys \cup {NoKey}]
    /\ link \in [Requests -> Links \cup {NoScope}]
    /\ running \in [Requests -> ModelIds \cup {NoModel}]
    /\ grantOf \in [Keys -> Links \cup {NoScope}]
    /\ began \in [Requests -> 0..MaxClock]

Init ==
    /\ clock = 0
    /\ registry \in Registries
    /\ sessions = [k \in Keys |-> NoSession]
    /\ cookie = NoKey
    /\ work = [r \in Requests |-> "idle"]
    /\ copy = [r \in Requests |-> Empty]
    /\ key = [r \in Requests |-> NoKey]
    /\ link = [r \in Requests |-> NoScope]
    /\ running = [r \in Requests |-> NoModel]
    /\ grantOf = [k \in Keys |-> NoScope]
    /\ began = [r \in Requests |-> 0]

-----------------------------------------------------------------------------
(* What a handler reads off a session s.                                   *)

\* get_definition and the two questions asked of its answer.
DefinitionOf(m) == IF m \in Models THEN registry[m] ELSE NoDefinition
RequiresCredential(m) ==
    DefinitionOf(m) # NoDefinition /\ DefinitionOf(m).requires_credential
IsActive(m) == DefinitionOf(m) # NoDefinition /\ DefinitionOf(m).is_active
Selectable(m) ==                \* by anyone, as revalidate_session_model asks
    DefinitionOf(m) # NoDefinition =>
        /\ ~DefinitionOf(m).requires_credential
        /\ DefinitionOf(m).listed
        /\ DefinitionOf(m).is_active

NeverLapses(s) == FALSE                 \* mutant: only idleness bounds a scope
Lapsed(s) == s.scope # NoScope /\ clock >= s.scope.expires_at
LiveScope(s) == s.scope # NoScope /\ ~Lapsed(s)

\* live_scope_model_id or the selection
EffectiveModel(s) == IF LiveScope(s) THEN s.scope.model ELSE s.selected

\* end_scope and clear_selection
KeysOnly(s) ==                          \* mutant: the artifacts are not swept
    [s EXCEPT !.scope = NoScope, !.selected = NoModel]
Swept(s) == Empty
Unselected(s) == [s EXCEPT !.selected = NoModel]

-----------------------------------------------------------------------------
(* The two halves of a request.                                            *)

HasSession == cookie # NoKey /\ sessions[cookie] # NoSession
Loaded == IF HasSession THEN sessions[cookie] ELSE Empty

\* The request begins: its handler leaves the session as s and has w to do.
Begin(r, s, w) ==
    /\ work[r] = "idle"
    /\ work' = [work EXCEPT ![r] = w]
    /\ copy' = [copy EXCEPT ![r] = s]
    /\ key' = [key EXCEPT ![r] = IF HasSession THEN cookie ELSE NoKey]
    /\ began' = [began EXCEPT ![r] = clock]
    /\ UNCHANGED <<system, table, grantOf>>

Respond(r) ==
    /\ work' = [work EXCEPT ![r] = "idle"]
    /\ copy' = [copy EXCEPT ![r] = Empty]
    /\ key' = [key EXCEPT ![r] = NoKey]
    /\ link' = [link EXCEPT ![r] = NoScope]
    /\ running' = [running EXCEPT ![r] = NoModel]
    /\ began' = [began EXCEPT ![r] = 0]

\* Keys are random, so a fresh one was never in use.
Unused(k) ==
    /\ sessions[k] = NoSession
    /\ cookie # k
    /\ \A r \in Requests : key[r] # k
    /\ grantOf[k] = NoScope

\* SessionStore.save of the copy s, through the session middleware.
Save(r, s) ==
    \/ /\ key[r] = NoKey                \* nothing to keep
       /\ s = Empty
       /\ cookie' = NoKey
       /\ UNCHANGED sessions
    \/ /\ key[r] = NoKey                \* a new row
       /\ s # Empty
       /\ \E k \in Keys :
            /\ Unused(k)
            /\ sessions' = [sessions EXCEPT ![k] = s]
            /\ cookie' = k
    \/ /\ key[r] # NoKey                \* the whole of an old one
       /\ sessions[key[r]] # NoSession
       /\ sessions' = [sessions EXCEPT ![key[r]] = s]
       /\ cookie' = key[r]
    \/ /\ key[r] # NoKey                \* SessionInterrupted
       /\ sessions[key[r]] = NoSession
       /\ UNCHANGED table

-----------------------------------------------------------------------------
(* model_gate, end_model_scope, model_selection.                           *)

\* redeem_entry_link: the deadline is the one the link was minted with.
Redeemable(l) == clock < l.expires_at

\* A live link with the credential.  A GET, a wrong credential and a refused
\* link leave the session alone.
PresentCredential(r) ==
    \E l \in Links :
        /\ Redeemable(l)
        /\ RequiresCredential(l.model)
        /\ Begin(r, Loaded, "grant")
        /\ link' = [link EXCEPT ![r] = l]
        /\ UNCHANGED running

\* The link of a model that has been published, or has left the registry.
FollowLink(r) ==
    \E l \in Links :
        /\ Redeemable(l)
        /\ ~RequiresCredential(l.model)
        /\ Begin(r, IF DefinitionOf(l.model) = NoDefinition
                      THEN Swept(Loaded)
                      ELSE [Swept(Loaded) EXCEPT !.selected = l.model],
                 "reply")
        /\ UNCHANGED <<link, running>>

Scoped(s, l) == [Swept(s) EXCEPT !.scope = l, !.selected = l.model]

GrantInPlace(r) ==                      \* mutant: no cycle_key
    /\ work[r] = "grant"
    /\ Save(r, Scoped(copy[r], link[r]))
    /\ grantOf' = IF key[r] = NoKey
                    THEN [grantOf EXCEPT ![cookie'] = link[r]] ELSE grantOf
    /\ Respond(r)
    /\ UNCHANGED system

\* begin_scope: a new row under a new key, the old one deleted.
Grant(r) ==
    /\ work[r] = "grant"
    /\ \E k \in Keys :
        /\ Unused(k)
        /\ sessions' = [j \in Keys |->
                IF j = k THEN Scoped(copy[r], link[r])
                ELSE IF j = key[r] THEN NoSession ELSE sessions[j]]
        /\ cookie' = k
        /\ grantOf' = [grantOf EXCEPT ![k] = link[r]]
    /\ Respond(r)
    /\ UNCHANGED system

EndModelScope(r) ==
    /\ Begin(r, Swept(Loaded), "reply")
    /\ UNCHANGED <<link, running>>

SelectModel(r) ==
    LET s == Loaded IN
    /\ \/ Lapsed(s) /\ Begin(r, Swept(s), "reply")
       \/ ~Lapsed(s) /\ s.scope = NoScope
          /\ \E m \in {n \in Models : registry[n] # NoDefinition /\ Selectable(n)}
                        \cup {Uploaded} :
                Begin(r, [s EXCEPT !.selected = m], "reply")
    /\ UNCHANGED <<link, running>>

-----------------------------------------------------------------------------
(* classify, batch_process and twins_search.                               *)

NoGate(s) == "pass"                     \* mutant: the decorator is missing

\* evaluate_access for the classification view.
Gate(s) ==
    IF Lapsed(s) THEN "lapsed"
    ELSE IF ~LiveScope(s) /\ RequiresCredential(EffectiveModel(s)) THEN "gated"
    ELSE "pass"

\* revalidate_session_model: whether to return to the picker, and the session
\* it leaves.
ToPicker(s) ==
    IF s.scope # NoScope
      THEN ~IsActive(s.scope.model)
      ELSE s.selected # NoModel /\ ~Selectable(s.selected)

Revalidated(s) ==
    IF ToPicker(s) THEN IF s.scope # NoScope THEN Swept(s) ELSE Unselected(s)
    ELSE IF s.scope # NoScope /\ ~RequiresCredential(s.scope.model)
      THEN [Swept(s) EXCEPT !.selected = s.scope.model]
    ELSE s

\* A refused or redirected classification request.
ClassifyRefused(r) ==
    LET s == Loaded IN
    /\ \/ Gate(s) = "lapsed" /\ Begin(r, Swept(s), "reply")
       \/ Gate(s) = "gated" /\ Begin(r, Unselected(s), "reply")
       \/ /\ Gate(s) = "pass"
          /\ ToPicker(s)
          /\ Begin(r, Revalidated(s), "reply")
    /\ UNCHANGED <<link, running>>

\* A page render: afresh (some of the artifacts are dropped) or, if there is a
\* result, of that result with other overlays.
ClassifyPage(r) ==
    LET s == Revalidated(Loaded) IN
    /\ Gate(Loaded) = "pass"
    /\ ~ToPicker(Loaded)
    /\ EffectiveModel(s) # NoModel
    /\ \E w \in {"reply", "show"} :
        /\ IF w = "show" THEN s.artifacts # NoArtifacts
                        ELSE s.artifacts # NoArtifacts \/ s # Loaded
        /\ Begin(r, s, w)
    /\ UNCHANGED <<link, running>>

\* A submission: the scope's model runs, or without a scope the selected one.
Classify(r) ==
    LET s == Revalidated(Loaded) IN
    /\ Gate(Loaded) = "pass"
    /\ ~ToPicker(Loaded)
    /\ EffectiveModel(s) # NoModel
    /\ Begin(r, s, "classify")
    /\ running' = [running EXCEPT ![r] = EffectiveModel(s)]
    /\ UNCHANGED link

BatchRefused(r) ==
    LET s == Loaded IN
    /\ \/ Lapsed(s) /\ Begin(r, Swept(s), "reply")
       \/ ~Lapsed(s) /\ s.scope = NoScope /\ ToPicker(s)
          /\ Begin(r, Unselected(s), "reply")
    /\ UNCHANGED <<link, running>>

Batch(r) ==
    LET s == Loaded IN
    /\ s.scope = NoScope
    /\ s.selected # NoModel
    /\ ~ToPicker(s)
    /\ Begin(r, s, "batch")
    /\ running' = [running EXCEPT ![r] = s.selected]
    /\ UNCHANGED link

\* Authorized from the model that was classified with.
TwinsSearch(r) ==
    LET s == Loaded IN
    /\ s.artifacts # NoArtifacts
    /\ \/ Lapsed(s) /\ Begin(r, Swept(s), "reply")
       \/ /\ ~Lapsed(s)
          /\ LiveScope(s) \/ ~RequiresCredential(s.artifacts.by)
          /\ s.artifacts.by \in TwinModels
          /\ DefinitionOf(s.artifacts.by) # NoDefinition
          /\ Begin(r, s, "twins")
    /\ UNCHANGED <<link, running>>

-----------------------------------------------------------------------------
(* Ends of requests.                                                       *)

Reply(r) ==
    /\ work[r] \in {"reply", "show"}
    /\ Save(r, copy[r])
    /\ Respond(r)
    /\ UNCHANGED <<system, grantOf>>

ReplyOnly(r) ==
    /\ work[r] \in {"twins", "batch"}
    /\ Respond(r)
    /\ UNCHANGED <<system, table, grantOf>>

Unlabelled(r) ==                        \* mutant: classify_model_type left out
    [copy[r] EXCEPT !.artifacts = [by |-> NoModel, under |-> copy[r].scope]]
Produced(r) ==
    [copy[r] EXCEPT !.artifacts = [by |-> running[r], under |-> copy[r].scope]]

\* Results, or a failure that leaves the earlier artifacts; both are saved.
ClassifyEnds(r) ==
    /\ work[r] = "classify"
    /\ Save(r, Produced(r)) \/ Save(r, copy[r])
    /\ Respond(r)
    /\ UNCHANGED <<system, grantOf>>

-----------------------------------------------------------------------------

Tick ==
    /\ clock < MaxClock
    /\ clock' = clock + 1
    /\ UNCHANGED <<registry, table, request, grantOf, began>>

\* Restarting on the same registry does what deploying another and then the
\* first again does.
Deploy ==
    /\ registry' \in Registries \ {registry}
    /\ work' = [r \in Requests |-> "idle"]
    /\ copy' = [r \in Requests |-> Empty]
    /\ key' = [r \in Requests |-> NoKey]
    /\ link' = [r \in Requests |-> NoScope]
    /\ running' = [r \in Requests |-> NoModel]
    /\ began' = [r \in Requests |-> 0]
    /\ UNCHANGED <<clock, table, grantOf>>

Request(r) ==
    \/ PresentCredential(r) \/ FollowLink(r) \/ Grant(r)
    \/ EndModelScope(r) \/ SelectModel(r)
    \/ ClassifyRefused(r) \/ ClassifyPage(r) \/ Classify(r) \/ ClassifyEnds(r)
    \/ BatchRefused(r) \/ Batch(r) \/ TwinsSearch(r)
    \/ Reply(r) \/ ReplyOnly(r)

Next == Tick \/ Deploy \/ \E r \in Requests : Request(r)

Spec == Init /\ [][Next]_vars

-----------------------------------------------------------------------------

\* A session key carries no scope but the one it was made for, whatever the
\* tabs of the browser write back and in which order ("authorization must never
\* be written into a session id that was in circulation before it was earned").
ScopeStaysInItsSession ==
    \A k \in Keys : sessions[k] # NoSession =>
        sessions[k].scope \in {NoScope, grantOf[k]}

\* A session holds the artifacts of its own scope and no others: none from
\* before the scope was granted, none left behind when it ended.
ArtifactsBelongToScope ==
    \A k \in Keys :
        sessions[k] # NoSession /\ sessions[k].artifacts # NoArtifacts =>
            sessions[k].artifacts.under = sessions[k].scope

\* A run of a model that requires the credential starts only inside a scope to
\* that model, before the deadline of the link that granted it.
GatedRunsInScope ==
    [][\A r \in Requests :
        running[r] = NoModel /\ RequiresCredential(running'[r]) =>
            LET s == copy'[r].scope IN
            /\ s # NoScope
            /\ s.model = running'[r]
            /\ clock < s.expires_at]_vars

\* The scope whose results a request with w to do on session s answers with.
ShownScope(w, s) ==
    CASE w = "classify" -> s.scope
      [] w \in {"show", "twins"} -> s.artifacts.under
      [] OTHER -> NoScope

\* What a scope produced is shown only by requests that began before its
\* deadline: by none that begins afterwards ("everything it produced has been
\* discarded").  The deadline is not looked at again, so a classification that
\* it overtakes does show its result, and saves it, to be swept by the next
\* request.
ShownResultsBegunInTime ==
    \A r \in Requests :
        LET u == ShownScope(work[r], copy[r]) IN
        u # NoScope => began[r] < u.expires_at

-----------------------------------------------------------------------------

\* What end_model_scope says it does: "End a model-scoped session explicitly,
\* discarding everything it produced."
\* Every scope is granted under a key of its own, so a session that has lost
\* its scope does not have one again.
EndedScopeStaysEnded ==
    [][\A k \in Keys :
        /\ sessions[k] # NoSession /\ sessions[k].scope = NoScope
        /\ sessions'[k] # NoSession
        => sessions'[k].scope = NoScope]_vars
=============================================================================
