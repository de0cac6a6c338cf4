------------------------------ MODULE AiProviders ------------------------------
(***************************************************************************)
(* The assistant's model connections: AssistantProvidersCard.tsx in two    *)
(* browser tabs of one user, and settings/server.ts, which keeps the       *)
(* connection (ai_providers) and its API key (ai_credentials) in two       *)
(* tables.  A key is the endpoint it was typed for; the key of a route is  *)
(* stored under a name made from the route.  Labels, models and the        *)
(* default mark are left out.                                              *)
(***************************************************************************)
EXTENDS Naturals, FiniteSets

CONSTANTS AiTabs, Routes, Endpoints, Nowhere, MaxAiSteps

ASSUME AiAssumption == Nowhere \notin Endpoints /\ MaxAiSteps \in Nat

VARIABLES
    aiProviders,    \* the endpoint of every route, Nowhere if it has no row
    aiCredentials,  \* the endpoint its stored key was typed for, Nowhere if it has none
    providers,      \* the list each tab shows
    providerDraft,  \* the form of each tab
    aiCall,         \* the request of each tab (actionBusy)
    aiCrossed,      \* history: a write fell between the reads and the write of another request
    strayKey,       \* history: a check sent a stored key to another endpoint
    aiSteps

aiVars == <<aiProviders, aiCredentials, providers, providerDraft, aiCall, aiCrossed, strayKey,
            aiSteps>>

NoDraftForm == [open |-> FALSE, editing |-> FALSE, route |-> Nowhere, url |-> Nowhere,
                typed |-> FALSE, configured |-> FALSE]
NoAiCall == [kind |-> "none", phase |-> "none", form |-> NoDraftForm, answer |-> {}]

AiInit ==
    /\ aiProviders = [r \in Routes |-> Nowhere] /\ aiCredentials = aiProviders
    /\ providers = [b \in AiTabs |-> {}] /\ providerDraft = [b \in AiTabs |-> NoDraftForm]
    /\ aiCall = [b \in AiTabs |-> NoAiCall]
    /\ aiCrossed = FALSE /\ strayKey = FALSE /\ aiSteps = 0

AiStep == aiSteps < MaxAiSteps /\ aiSteps' = aiSteps + 1

\* listProviders: the rows and whether each has a key.
listProviders(rows, keys) ==
    {[route |-> r, url |-> rows[r], configured |-> keys[r] # Nowhere] :
        r \in {x \in Routes : rows[x] # Nowhere}}
-----------------------------------------------------------------------------
\* createProviderDraft: a new form, or the form of a row of the list.
OpenDraft(b, form) ==
    /\ AiStep /\ aiCall[b] = NoAiCall
    /\ providerDraft' = [providerDraft EXCEPT ![b] = form]
    /\ UNCHANGED <<aiProviders, aiCredentials, providers, aiCall, aiCrossed, strayKey>>
AddConnection(b) ==
    \E r \in Routes, u \in Endpoints :
        ~providerDraft[b].open
        /\ OpenDraft(b, [NoDraftForm EXCEPT !.open = TRUE, !.route = r, !.url = u])
DraftOf(p) == [open |-> TRUE, editing |-> TRUE, route |-> p.route, url |-> p.url,
              typed |-> FALSE, configured |-> p.configured]
EditProvider(b) == \E p \in providers[b] : OpenDraft(b, DraftOf(p))
CancelDraft(b) == providerDraft[b].open /\ OpenDraft(b, NoDraftForm)

\* The fields stay enabled while a request runs.
ChangeDraft(b, form) ==
    /\ providerDraft[b].open /\ AiStep /\ form # providerDraft[b]
    /\ providerDraft' = [providerDraft EXCEPT ![b] = form]
    /\ UNCHANGED <<aiProviders, aiCredentials, providers, aiCall, aiCrossed, strayKey>>
updateDraft(b) ==
    \/ \E u \in Endpoints : ChangeDraft(b, [providerDraft[b] EXCEPT !.url = u])
    \/ ChangeDraft(b, [providerDraft[b] EXCEPT !.typed = ~@])
\* selectConnectionType: a fresh form, only for a new connection.
selectConnectionType(b) ==
    \E r \in Routes, u \in Endpoints :
        ~providerDraft[b].editing
        /\ ChangeDraft(b, [NoDraftForm EXCEPT !.open = TRUE, !.route = r, !.url = u])

\* validateProviderDraft
ValidDraft(form) == form.open /\ (form.typed \/ form.configured)
\* A request carries the form as it is (draftToProviderInput).
Call(b, kind, form) ==
    /\ AiStep /\ aiCall[b] = NoAiCall
    /\ aiCall' = [aiCall EXCEPT ![b] = [NoAiCall EXCEPT !.kind = kind, !.phase = "sent",
                                                        !.form = form]]
    /\ UNCHANGED <<aiProviders, aiCredentials, providers, providerDraft, aiCrossed, strayKey>>
LoadProviders(b) == Call(b, "list", NoDraftForm)
checkConnection(b) ==
    \/ ValidDraft(providerDraft[b]) /\ Call(b, "check", providerDraft[b])
    \/ \E p \in providers[b] : p.configured /\ Call(b, "check", DraftOf(p))
save(b) == ValidDraft(providerDraft[b]) /\ Call(b, "put", providerDraft[b])
remove(b) == \E p \in providers[b] : Call(b, "delete", DraftOf(p))
-----------------------------------------------------------------------------
Goes(b, phase) == aiCall' = [aiCall EXCEPT ![b].phase = phase]
ProvidersAnswer(b, rows, keys) ==
    aiCall' = [aiCall EXCEPT ![b].phase = "answer", ![b].answer = listProviders(rows, keys)]
\* Another request has read this route and not yet acted on it.
Crosses(b, r) ==
    aiCrossed' = (aiCrossed \/ \E c \in AiTabs \ {b} :
                      aiCall[c].phase = "read" /\ aiCall[c].form.route = r)

AnswerList(b) ==
    /\ aiCall[b].kind = "list" /\ aiCall[b].phase = "sent"
    /\ ProvidersAnswer(b, aiProviders, aiCredentials)
    /\ UNCHANGED <<aiProviders, aiCredentials, providers, providerDraft, aiCrossed, strayKey,
                   aiSteps>>

\* upsertProvider reads the row and the credential and refuses a new route
\* without a key, and a stored key that would serve another endpoint.
KeyMissing(form) == aiProviders[form.route] = Nowhere /\ ~form.typed
NeverMoves(form) == FALSE
MovesStoredCredential(form) ==
    aiCredentials[form.route] # Nowhere /\ aiProviders[form.route] # form.url /\ ~form.typed
RefusedUpsert(form) == KeyMissing(form) \/ MovesStoredCredential(form)
ReadForUpsert(b) ==
    /\ aiCall[b].kind = "put" /\ aiCall[b].phase = "sent"
    /\ Goes(b, IF RefusedUpsert(aiCall[b].form) THEN "done" ELSE "read")
    /\ UNCHANGED <<aiProviders, aiCredentials, providers, providerDraft, aiCrossed, strayKey,
                   aiSteps>>
\* The transaction: the row, and the key if one was typed.
upsertProvider(b) ==
    LET form == aiCall[b].form IN
    /\ aiCall[b].kind = "put" /\ aiCall[b].phase = "read"
    /\ aiProviders' = [aiProviders EXCEPT ![form.route] = form.url]
    /\ aiCredentials' = IF form.typed THEN [aiCredentials EXCEPT ![form.route] = form.url]
                        ELSE aiCredentials
    /\ Crosses(b, form.route) /\ ProvidersAnswer(b, aiProviders', aiCredentials')
    /\ UNCHANGED <<providers, providerDraft, strayKey, aiSteps>>
\* deleteProvider: the row with its credential.
WithoutKey(r) == [aiCredentials EXCEPT ![r] = Nowhere]
deleteProvider(b) ==
    LET r == aiCall[b].form.route IN
    /\ aiCall[b].kind = "delete" /\ aiCall[b].phase = "sent"
    /\ aiProviders' = [aiProviders EXCEPT ![r] = Nowhere]
    /\ aiCredentials' = IF aiProviders[r] = Nowhere THEN aiCredentials ELSE WithoutKey(r)
    /\ Crosses(b, r) /\ ProvidersAnswer(b, aiProviders', aiCredentials')
    /\ UNCHANGED <<providers, providerDraft, strayKey, aiSteps>>

\* readProviderCredentialForTest: the stored key only for the row's own endpoint.
SameEndpoint(form) == aiProviders[form.route] = form.url
ReadForCheck(b) ==
    /\ aiCall[b].kind = "check" /\ aiCall[b].phase = "sent"
    /\ Goes(b, IF ~aiCall[b].form.typed /\ SameEndpoint(aiCall[b].form)
               THEN "read" ELSE "done")
    /\ UNCHANGED <<aiProviders, aiCredentials, providers, providerDraft, aiCrossed, strayKey,
                   aiSteps>>
SendStoredKey(b) ==
    LET form == aiCall[b].form IN
    /\ aiCall[b].kind = "check" /\ aiCall[b].phase = "read" /\ Goes(b, "done")
    /\ strayKey' = (strayKey \/ aiCredentials[form.route] \notin {Nowhere, form.url})
    /\ UNCHANGED <<aiProviders, aiCredentials, providers, providerDraft, aiCrossed, aiSteps>>

\* The answer: a list is shown and a saved form closed; a check or a failure
\* changes neither.
Return(b) ==
    /\ aiCall[b].phase \in {"answer", "done"}
    /\ aiCall' = [aiCall EXCEPT ![b] = NoAiCall]
    /\ IF aiCall[b].phase = "answer"
       THEN /\ providers' = [providers EXCEPT ![b] = aiCall[b].answer]
            /\ providerDraft' = IF aiCall[b].kind = "put"
                                THEN [providerDraft EXCEPT ![b] = NoDraftForm] ELSE providerDraft
       ELSE UNCHANGED <<providers, providerDraft>>
    /\ UNCHANGED <<aiProviders, aiCredentials, aiCrossed, strayKey, aiSteps>>

AiNext ==
    \E b \in AiTabs :
        \/ AddConnection(b)
        \/ EditProvider(b)
        \/ CancelDraft(b)
        \/ updateDraft(b)
        \/ selectConnectionType(b)
        \/ LoadProviders(b)
        \/ checkConnection(b)
        \/ save(b)
        \/ remove(b)
        \/ AnswerList(b)
        \/ ReadForUpsert(b)
        \/ upsertProvider(b)
        \/ deleteProvider(b)
        \/ ReadForCheck(b)
        \/ SendStoredKey(b)
        \/ Return(b)
-----------------------------------------------------------------------------
\* However many times a route is edited in two tabs, each with a list and a form
\* that may be old, the key stored for it was typed for the endpoint it has, unless
\* two requests crossed ("Re-enter the API key when changing its ... Base URL").
KeyForEndpoint ==
    ~aiCrossed => \A r \in Routes : aiProviders[r] # Nowhere => aiCredentials[r] = aiProviders[r]

\* A removed connection leaves no key behind: "The credential goes with the only
\* route that referenced it."
NoKeyLeft == \A r \in Routes : aiCredentials[r] # Nowhere => aiProviders[r] # Nowhere

\* "A write-only saved key may only be sent back to the exact endpoint it was saved
\* for": a check never sends it to another, unless two requests crossed.
SavedKeyGoesHome == ~aiCrossed => ~strayKey

\* A key stays with the endpoint it was typed for: stored, sent and removed.
KeysStayHome == KeyForEndpoint /\ NoKeyLeft /\ SavedKeyGoesHome
=============================================================================
