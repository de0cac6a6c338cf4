----------------------------- MODULE PagesProofs -----------------------------
(***************************************************************************)
(* Proofs about the pages beside the IDE, for every value of their         *)
(* constants.  Each page has its inductive invariant, kept by its own      *)
(* steps; the composition MCPages takes no others.                         *)
(***************************************************************************)
EXTENDS MCPages, SequenceTheorems, FiniteSetTheorems, TLAPS

\* A step of the pages is a step of each of them, or leaves it as it was.
LEMMA PageSteps ==
    [Next]_vars =>
        /\ [LiveNext]_liveVars /\ [ScheduleNext]_scheduleVars /\ [SecretNext]_secretVars
        /\ [ChatNext]_chatVars /\ [WizardNext]_wizardVars /\ [IngestNext]_ingestVars
        /\ [ConsoleNext]_consoleVars /\ [BoardNext]_boardVars /\ [TargetNext]_targetVars
        /\ [AiNext]_aiVars
BY DEF Next, Turn, vars

-----------------------------------------------------------------------------
(* The assistant's model connections.                                      *)

Urls == Endpoints \cup {Nowhere}
AiRows == [route : Routes, url : Endpoints, configured : BOOLEAN]
AiForms == [open : BOOLEAN, editing : BOOLEAN, route : Routes \cup {Nowhere}, url : Urls,
            typed : BOOLEAN, configured : BOOLEAN]
AiCalls == [kind : {"none", "list", "check", "put", "delete"},
            phase : {"none", "sent", "read", "answer", "done"},
            form : AiForms, answer : SUBSET AiRows]

\* An open form, and a request about a route, name a route and an endpoint.
AiTyped ==
    /\ aiProviders \in [Routes -> Urls] /\ aiCredentials \in [Routes -> Urls]
    /\ providers \in [AiTabs -> SUBSET AiRows]
    /\ providerDraft \in [AiTabs -> AiForms] /\ aiCall \in [AiTabs -> AiCalls]
    /\ aiCrossed \in BOOLEAN /\ strayKey \in BOOLEAN
    /\ \A b \in AiTabs :
          /\ providerDraft[b].open => providerDraft[b].route \in Routes
                                      /\ providerDraft[b].url \in Endpoints
          /\ aiCall[b].kind \in {"check", "put", "delete"}
                => aiCall[b].form.route \in Routes /\ aiCall[b].form.url \in Endpoints

\* What a request read still holds when it acts, unless another one crossed it:
\* without a typed key, the row names the endpoint the form names.
AiReadHolds ==
    \A b \in AiTabs : aiCall[b].phase = "read" =>
        /\ aiCall[b].kind \in {"put", "check"}
        /\ aiCall[b].kind = "check" => ~aiCall[b].form.typed
        /\ ~aiCrossed /\ ~aiCall[b].form.typed
              => aiProviders[aiCall[b].form.route] = aiCall[b].form.url

AiInv == AiTyped /\ AiReadHolds /\ KeysStayHome

\* Init establishes it.
LEMMA AiInitInv == AiInit => AiInv
<1> SUFFICES ASSUME AiInit PROVE AiInv
  OBVIOUS
<1>1. NoDraftForm \in AiForms /\ NoAiCall \in AiCalls
  BY DEF AiForms, AiCalls, NoDraftForm, NoAiCall, Urls
<1>2. AiTyped
  BY <1>1 DEF AiInit, AiTyped, Urls, NoDraftForm, NoAiCall
<1>3. AiReadHolds
  BY DEF AiInit, AiReadHolds, NoAiCall
<1>4. KeysStayHome
  BY DEF AiInit, KeysStayHome, KeyForEndpoint, NoKeyLeft, SavedKeyGoesHome
<1>5. QED
  BY <1>2, <1>3, <1>4 DEF AiInv

\* A form is changed: no request and no table is.
LEMMA AiFormSteps ==
    ASSUME AiInv, NEW b \in AiTabs,
           \/ AddConnection(b) \/ EditProvider(b) \/ CancelDraft(b) \/ updateDraft(b)
           \/ selectConnectionType(b)
    PROVE  AiInv'
<1>1. /\ UNCHANGED <<aiProviders, aiCredentials, providers, aiCall, aiCrossed, strayKey>>
      /\ \E f : providerDraft' = [providerDraft EXCEPT ![b] = f]
  BY DEF AddConnection, EditProvider, CancelDraft, updateDraft, selectConnectionType,
         OpenDraft, ChangeDraft
<1>2. PICK f \in AiForms : /\ providerDraft' = [providerDraft EXCEPT ![b] = f]
                           /\ f.open => f.route \in Routes /\ f.url \in Endpoints
  <2>1. NoDraftForm \in AiForms /\ ~NoDraftForm.open /\ providerDraft[b] \in AiForms
    BY DEF NoDraftForm, AiForms, Urls, AiInv, AiTyped
  <2>2. ASSUME NEW r \in Routes, NEW u \in Endpoints
        PROVE  /\ [NoDraftForm EXCEPT !.open = TRUE, !.route = r, !.url = u] \in AiForms
               /\ [NoDraftForm EXCEPT !.open = TRUE, !.route = r, !.url = u].route = r
               /\ [NoDraftForm EXCEPT !.open = TRUE, !.route = r, !.url = u].url = u
    BY DEF NoDraftForm, AiForms, Urls
  <2>3. ASSUME NEW p \in providers[b]
        PROVE  DraftOf(p) \in AiForms /\ DraftOf(p).route \in Routes
               /\ DraftOf(p).url \in Endpoints
    <3>1. p \in AiRows
      BY DEF AiInv, AiTyped
    <3>2. QED
      BY <3>1 DEF DraftOf, AiForms, AiRows, Urls
  <2>4. CASE AddConnection(b) \/ selectConnectionType(b)
    <3>1. PICK r \in Routes, u \in Endpoints :
             providerDraft' = [providerDraft EXCEPT
                ![b] = [NoDraftForm EXCEPT !.open = TRUE, !.route = r, !.url = u]]
      BY <2>4 DEF AddConnection, selectConnectionType, OpenDraft, ChangeDraft
    <3> DEFINE g == [NoDraftForm EXCEPT !.open = TRUE, !.route = r, !.url = u]
    <3>2. g \in AiForms /\ g.route \in Routes /\ g.url \in Endpoints
      BY <2>2
    <3>3. providerDraft' = [providerDraft EXCEPT ![b] = g]
      BY <3>1
    <3> HIDE DEF g
    <3>4. QED
      BY <3>2, <3>3
  <2>5. CASE EditProvider(b) \/ CancelDraft(b)
    BY <2>1, <2>3, <2>5 DEF EditProvider, CancelDraft, OpenDraft
  <2>6. CASE updateDraft(b)
    <3>1. providerDraft[b].route \in Routes /\ providerDraft[b].url \in Endpoints
      BY <2>6 DEF updateDraft, ChangeDraft, AiInv, AiTyped
    <3>2. ASSUME NEW u \in Endpoints
          PROVE  [providerDraft[b] EXCEPT !.url = u] \in AiForms
                 /\ [providerDraft[b] EXCEPT !.url = u].route \in Routes
                 /\ [providerDraft[b] EXCEPT !.url = u].url \in Endpoints
      BY <2>1, <3>1 DEF AiForms, Urls
    <3>3. /\ [providerDraft[b] EXCEPT !.typed = ~@] \in AiForms
          /\ [providerDraft[b] EXCEPT !.typed = ~@].route \in Routes
          /\ [providerDraft[b] EXCEPT !.typed = ~@].url \in Endpoints
      BY <2>1, <3>1 DEF AiForms, Urls
    <3>4. QED
      BY <2>6, <3>2, <3>3 DEF updateDraft, ChangeDraft
  <2>7. QED
    BY <2>4, <2>5, <2>6
<1>3. AiTyped'
  BY <1>1, <1>2 DEF AiInv, AiTyped
<1>4. AiReadHolds' /\ KeysStayHome'
  BY <1>1 DEF AiInv, AiReadHolds, KeysStayHome, KeyForEndpoint, NoKeyLeft, SavedKeyGoesHome
<1>5. QED
  BY <1>3, <1>4 DEF AiInv

\* A request is sent.
LEMMA AiCallSteps ==
    ASSUME AiInv, NEW b \in AiTabs,
           LoadProviders(b) \/ checkConnection(b) \/ save(b) \/ remove(b)
    PROVE  AiInv'
<1>1. PICK k \in {"list", "check", "put", "delete"}, f \in AiForms :
          /\ Call(b, k, f)
          /\ k # "list" => f.route \in Routes /\ f.url \in Endpoints
  <2>1. NoDraftForm \in AiForms /\ providerDraft[b] \in AiForms
    BY DEF NoDraftForm, AiForms, Urls, AiInv, AiTyped
  <2>2. ASSUME NEW p \in providers[b]
        PROVE  DraftOf(p) \in AiForms /\ DraftOf(p).route \in Routes
               /\ DraftOf(p).url \in Endpoints
    <3>1. p \in AiRows
      BY DEF AiInv, AiTyped
    <3>2. QED
      BY <3>1 DEF DraftOf, AiForms, AiRows, Urls
  <2>3. ValidDraft(providerDraft[b])
          => providerDraft[b].route \in Routes /\ providerDraft[b].url \in Endpoints
    BY DEF ValidDraft, AiInv, AiTyped
  <2>4. QED
    BY <2>1, <2>2, <2>3 DEF LoadProviders, checkConnection, save, remove
<1> DEFINE c == [NoAiCall EXCEPT !.kind = k, !.phase = "sent", !.form = f]
<1>2. /\ UNCHANGED <<aiProviders, aiCredentials, providers, providerDraft, aiCrossed, strayKey>>
      /\ aiCall' = [aiCall EXCEPT ![b] = c]
  BY <1>1 DEF Call
<1>a. c \in AiCalls /\ c.kind = k /\ c.phase = "sent" /\ c.form = f
  BY DEF NoAiCall, AiCalls
<1> HIDE DEF c
<1>3. AiTyped'
  BY <1>1, <1>2, <1>a DEF AiInv, AiTyped
<1>4. AiReadHolds' /\ KeysStayHome'
  BY <1>2, <1>a DEF AiInv, AiTyped, AiReadHolds, KeysStayHome, KeyForEndpoint, NoKeyLeft,
              SavedKeyGoesHome
<1>5. QED
  BY <1>3, <1>4 DEF AiInv

\* The list a request is answered with.
LEMMA AiListTyped ==
    ASSUME NEW rows \in [Routes -> Urls], NEW keys \in [Routes -> Urls]
    PROVE  listProviders(rows, keys) \in SUBSET AiRows
<1>1. ASSUME NEW r \in Routes, rows[r] # Nowhere
      PROVE  [route |-> r, url |-> rows[r], configured |-> keys[r] # Nowhere] \in AiRows
  BY <1>1 DEF AiRows, Urls
<1>2. QED
  BY <1>1 DEF listProviders

\* A request reads, and goes on or is refused; nothing but the request changes.
LEMMA AiReadSteps ==
    ASSUME AiInv, NEW b \in AiTabs, AnswerList(b) \/ ReadForUpsert(b) \/ ReadForCheck(b)
    PROVE  AiInv'
<1>1. /\ UNCHANGED <<aiProviders, aiCredentials, providers, providerDraft, aiCrossed, strayKey>>
      /\ aiCall[b] \in AiCalls
  BY DEF AnswerList, ReadForUpsert, ReadForCheck, AiInv, AiTyped
<1>2. PICK ph \in {"read", "answer", "done"}, l \in SUBSET AiRows :
          aiCall' = [aiCall EXCEPT ![b].phase = ph, ![b].answer = l]
  <2>1. CASE AnswerList(b)
    BY <2>1, AiListTyped DEF AnswerList, ProvidersAnswer, AiInv, AiTyped
  <2>2. CASE ReadForUpsert(b) \/ ReadForCheck(b)
    <3>1. aiCall[b].answer \in SUBSET AiRows
      BY <1>1 DEF AiCalls
    <3>2. PICK ph \in {"read", "answer", "done"} : aiCall' = [aiCall EXCEPT ![b].phase = ph]
      BY <2>2 DEF ReadForUpsert, ReadForCheck, Goes
    <3>3. [aiCall EXCEPT ![b].phase = ph]
             = [aiCall EXCEPT ![b].phase = ph, ![b].answer = aiCall[b].answer]
      BY <1>1 DEF AiInv, AiTyped, AiCalls
    <3>4. QED
      BY <3>1, <3>2, <3>3
  <2>3. QED
    BY <2>1, <2>2
<1>3. AiTyped'
  BY <1>1, <1>2 DEF AiInv, AiTyped, AiCalls
<1>4. AiReadHolds'
  <2> SUFFICES ASSUME NEW c \in AiTabs, aiCall'[c].phase = "read"
               PROVE  /\ aiCall'[c].kind \in {"put", "check"}
                      /\ aiCall'[c].kind = "check" => ~aiCall'[c].form.typed
                      /\ ~aiCrossed' /\ ~aiCall'[c].form.typed
                          => aiProviders'[aiCall'[c].form.route] = aiCall'[c].form.url
    BY DEF AiReadHolds
  <2>1. CASE c # b
    BY <1>1, <1>2, <2>1 DEF AiInv, AiTyped, AiReadHolds
  <2>2. CASE c = b
    <3>1. aiCall'[b].kind = aiCall[b].kind /\ aiCall'[b].form = aiCall[b].form
      BY <1>1, <1>2 DEF AiInv, AiTyped, AiCalls
    <3>2. CASE AnswerList(b)
      BY <2>2, <3>2, <1>1 DEF AnswerList, ProvidersAnswer, AiInv, AiTyped, AiCalls
    <3>3. CASE ReadForUpsert(b)
      <4>1. ~RefusedUpsert(aiCall[b].form) /\ aiCall[b].kind = "put"
        BY <1>1, <2>2, <3>3 DEF ReadForUpsert, Goes, AiInv, AiTyped, AiCalls
      <4>2. aiCall[b].form.route \in Routes
        BY <4>1 DEF AiInv, AiTyped
      <4>3. ~aiCrossed /\ ~aiCall[b].form.typed
               => aiProviders[aiCall[b].form.route] = aiCall[b].form.url
        BY <4>1, <4>2 DEF RefusedUpsert, KeyMissing, MovesStoredCredential, AiInv,
                          KeysStayHome, KeyForEndpoint
      <4>4. QED
        BY <1>1, <2>2, <3>1, <4>1, <4>3
    <3>4. CASE ReadForCheck(b)
      <4>1. /\ ~aiCall[b].form.typed /\ SameEndpoint(aiCall[b].form)
            /\ aiCall[b].kind = "check"
        BY <1>1, <2>2, <3>4 DEF ReadForCheck, Goes, AiInv, AiTyped, AiCalls
      <4>2. QED
        BY <1>1, <2>2, <3>1, <4>1 DEF SameEndpoint
    <3>5. QED
      BY <3>2, <3>3, <3>4
  <2>3. QED
    BY <2>1, <2>2
<1>5. KeysStayHome'
  BY <1>1 DEF AiInv, KeysStayHome, KeyForEndpoint, NoKeyLeft, SavedKeyGoesHome
<1>6. QED
  BY <1>3, <1>4, <1>5 DEF AiInv

\* A row is written or deleted: whoever had read that route is crossed.
LEMMA AiWriteSteps ==
    ASSUME AiInv, NEW b \in AiTabs, upsertProvider(b) \/ deleteProvider(b)
    PROVE  AiInv'
<1> DEFINE sent == aiCall[b].form
<1>1. /\ UNCHANGED <<providers, providerDraft, strayKey>> /\ Crosses(b, sent.route)
      /\ ProvidersAnswer(b, aiProviders', aiCredentials') /\ aiCall[b] \in AiCalls
      /\ sent.route \in Routes /\ sent.url \in Endpoints /\ sent.url # Nowhere
  BY AiAssumption DEF upsertProvider, deleteProvider, AiInv, AiTyped
<1>2. /\ aiProviders' \in [Routes -> Urls] /\ aiCredentials' \in [Routes -> Urls]
      /\ \A r \in Routes \ {sent.route} : /\ aiProviders'[r] = aiProviders[r]
                                          /\ aiCredentials'[r] = aiCredentials[r]
  BY <1>1 DEF upsertProvider, deleteProvider, WithoutKey, AiInv, AiTyped, Urls
<1>3. PICK l \in SUBSET AiRows :
          aiCall' = [aiCall EXCEPT ![b].phase = "answer", ![b].answer = l]
  BY <1>1, <1>2, AiListTyped DEF ProvidersAnswer
<1>4. aiCrossed' \in BOOLEAN /\ (~aiCrossed' => ~aiCrossed)
      /\ \A c \in AiTabs \ {b} :
            ~aiCrossed' /\ aiCall[c].phase = "read" => aiCall[c].form.route # sent.route
  BY <1>1 DEF Crosses
<1>5. AiTyped'
  BY <1>1, <1>2, <1>3, <1>4 DEF AiInv, AiTyped, AiCalls
<1>6. AiReadHolds'
  <2>1. /\ aiCall'[b].phase = "answer"
        /\ \A c \in AiTabs \ {b} : aiCall'[c] = aiCall[c]
    BY <1>1, <1>3 DEF AiInv, AiTyped, AiCalls
  <2>2. ASSUME NEW c \in AiTabs \ {b}, aiCall[c].phase = "read"
        PROVE  /\ aiCall[c].kind \in {"put", "check"}
               /\ aiCall[c].kind = "check" => ~aiCall[c].form.typed
               /\ ~aiCrossed' /\ ~aiCall[c].form.typed
                    => aiProviders'[aiCall[c].form.route] = aiCall[c].form.url
    <3>1. /\ aiCall[c].kind \in {"put", "check"}
          /\ aiCall[c].kind = "check" => ~aiCall[c].form.typed
          /\ ~aiCrossed /\ ~aiCall[c].form.typed
                => aiProviders[aiCall[c].form.route] = aiCall[c].form.url
      BY <2>2 DEF AiInv, AiReadHolds
    <3>2. aiCall[c].form.route \in Routes
      BY <3>1 DEF AiInv, AiTyped
    <3>3. QED
      BY <1>2, <1>4, <2>2, <3>1, <3>2
  <2> HIDE DEF sent
  <2>3. QED
    BY <2>1, <2>2 DEF AiReadHolds
<1>7. KeyForEndpoint'
  <2> SUFFICES ASSUME ~aiCrossed', NEW r \in Routes, aiProviders'[r] # Nowhere
               PROVE  aiCredentials'[r] = aiProviders'[r]
    BY DEF KeyForEndpoint
  <2>0. aiProviders[r] # Nowhere => aiCredentials[r] = aiProviders[r]
    BY <1>4 DEF AiInv, KeysStayHome, KeyForEndpoint
  <2>1. CASE r # sent.route
    BY <1>2, <2>0, <2>1
  <2>2. CASE r = sent.route /\ upsertProvider(b)
    <3>1. CASE sent.typed
      BY <2>2, <3>1 DEF upsertProvider, AiInv, AiTyped
    <3>2. CASE ~sent.typed
      <4>1. aiProviders[r] = sent.url
        BY <1>4, <2>2, <3>2 DEF AiInv, AiReadHolds, upsertProvider
      <4>2. aiCredentials[r] = sent.url
        BY <1>1, <2>0, <4>1
      <4>3. QED
        BY <2>2, <3>2, <4>2 DEF upsertProvider, AiInv, AiTyped
    <3>3. QED
      BY <3>1, <3>2
  <2>3. CASE r = sent.route /\ deleteProvider(b)
    BY <2>3 DEF deleteProvider, AiInv, AiTyped
  <2>4. QED
    BY <2>1, <2>2, <2>3
<1>8. NoKeyLeft'
  <2> SUFFICES ASSUME NEW r \in Routes, aiCredentials'[r] # Nowhere
               PROVE  aiProviders'[r] # Nowhere
    BY DEF NoKeyLeft
  <2>0. aiCredentials[r] # Nowhere => aiProviders[r] # Nowhere
    BY DEF AiInv, KeysStayHome, NoKeyLeft
  <2>1. CASE r # sent.route
    BY <1>2, <2>0, <2>1
  <2>2. CASE r = sent.route /\ upsertProvider(b)
    BY <1>1, <2>2 DEF upsertProvider, AiInv, AiTyped
  <2>3. CASE r = sent.route /\ deleteProvider(b)
    BY <2>0, <2>3 DEF deleteProvider, WithoutKey, AiInv, AiTyped
  <2>4. QED
    BY <2>1, <2>2, <2>3
<1>9. QED
  BY <1>1, <1>4, <1>5, <1>6, <1>7, <1>8 DEF AiInv, KeysStayHome, SavedKeyGoesHome

\* A check sends the stored key: to the endpoint the row still names.
LEMMA AiSendStep == ASSUME AiInv, NEW b \in AiTabs, SendStoredKey(b) PROVE AiInv'
<1>1. /\ UNCHANGED <<aiProviders, aiCredentials, providers, providerDraft, aiCrossed>>
      /\ aiCall' = [aiCall EXCEPT ![b].phase = "done"] /\ aiCall[b] \in AiCalls
      /\ aiCall[b].form.route \in Routes
  BY DEF SendStoredKey, Goes, AiInv, AiTyped
<1>2. AiTyped'
  BY <1>1 DEF SendStoredKey, AiInv, AiTyped, AiCalls
<1>3. AiReadHolds'
  BY <1>1 DEF AiInv, AiTyped, AiCalls, AiReadHolds
<1>4. SavedKeyGoesHome'
  <2> SUFFICES ASSUME ~aiCrossed PROVE ~strayKey'
    BY <1>1 DEF SavedKeyGoesHome
  <2>1. aiProviders[aiCall[b].form.route] = aiCall[b].form.url
    BY DEF SendStoredKey, AiInv, AiReadHolds
  <2>2. aiCredentials[aiCall[b].form.route] \in {Nowhere, aiCall[b].form.url}
    BY <1>1, <2>1 DEF AiInv, AiTyped, KeysStayHome, KeyForEndpoint, NoKeyLeft
  <2>3. QED
    BY <2>2 DEF SendStoredKey, AiInv, KeysStayHome, SavedKeyGoesHome
<1>5. KeyForEndpoint' /\ NoKeyLeft'
  BY <1>1 DEF AiInv, KeysStayHome, KeyForEndpoint, NoKeyLeft
<1>6. QED
  BY <1>2, <1>3, <1>4, <1>5 DEF AiInv, KeysStayHome

\* A request is answered.
LEMMA AiReturnStep == ASSUME AiInv, NEW b \in AiTabs, Return(b) PROVE AiInv'
<1>1. /\ UNCHANGED <<aiProviders, aiCredentials, aiCrossed, strayKey>>
      /\ aiCall' = [aiCall EXCEPT ![b] = NoAiCall] /\ aiCall[b] \in AiCalls
      /\ NoDraftForm \in AiForms /\ ~NoDraftForm.open
      /\ NoAiCall \in AiCalls /\ NoAiCall.kind = "none" /\ NoAiCall.phase = "none"
  BY DEF Return, AiInv, AiTyped, NoDraftForm, NoAiCall, AiForms, AiCalls, Urls
<1>2. /\ providers' \in [AiTabs -> SUBSET AiRows]
      /\ providerDraft' \in [AiTabs -> AiForms]
      /\ \A c \in AiTabs : providerDraft'[c] \in {providerDraft[c], NoDraftForm}
  BY SMTT(30), <1>1 DEF Return, AiInv, AiTyped, AiCalls
<1>3. AiTyped'
  BY <1>1, <1>2 DEF AiInv, AiTyped
<1>4. AiReadHolds' /\ KeysStayHome'
  BY <1>1 DEF AiInv, AiTyped, AiReadHolds, KeysStayHome, KeyForEndpoint, NoKeyLeft,
              SavedKeyGoesHome
<1>5. QED
  BY <1>3, <1>4 DEF AiInv

\* Every step keeps the invariant.
LEMMA AiStepInv == AiInv /\ [AiNext]_aiVars => AiInv'
<1> SUFFICES ASSUME AiInv, [AiNext]_aiVars PROVE AiInv'
  OBVIOUS
<1>1. CASE UNCHANGED aiVars
  BY <1>1 DEF aiVars, AiInv, AiTyped, AiReadHolds, KeysStayHome, KeyForEndpoint, NoKeyLeft,
              SavedKeyGoesHome
<1>2. CASE AiNext
  BY <1>2, AiFormSteps, AiCallSteps, AiReadSteps, AiWriteSteps, AiSendStep, AiReturnStep
     DEF AiNext
<1>3. QED
  BY <1>1, <1>2

\* In any number of tabs, over any routes and endpoints: the key stored for a route
\* was typed for its endpoint, goes with it, and is sent nowhere else.
THEOREM KeysHome == Spec => []KeysStayHome
<1>1. Init => AiInit
  BY DEF Init
<1>2. AiInv => KeysStayHome
  BY DEF AiInv
<1>3. QED
  BY <1>1, <1>2, AiInitInv, AiStepInv, PageSteps, PTL DEF Spec

-----------------------------------------------------------------------------
(* Boards.                                                                 *)

BoardRequests == [kind : {"open", "compose", "validate", "render", "save"},
                  path : BoardPaths \cup {NoBoard}, text : AnyYaml]

BoardTyped ==
    /\ yaml \in AnyYaml /\ boardPath \in BoardPaths \cup {NoBoard} /\ baseline \in AnyYaml
    /\ boardFiles \in [BoardPaths -> AnyYaml] /\ boardCalls \in SUBSET BoardRequests
    /\ \A c \in boardCalls : c.kind = "save" => c.path \in BoardPaths

\* The file is written when the answer comes, so here no overlap can part them.
BaselineIsFile == boardPath # NoBoard => baseline = boardFiles[boardPath]

BoardInv == BoardTyped /\ BaselineIsFile

\* Init establishes it.
LEMMA BoardInitInv == BoardInit => BoardInv
<1> SUFFICES ASSUME BoardInit PROVE BoardInv
  OBVIOUS
<1>1. CASE Restored(EmptyYaml, EmptyYaml, NoBoard)
  BY <1>1 DEF BoardInit, BoardInv, BoardTyped, BaselineIsFile, Restored, AnyYaml
<1>2. ASSUME NEW p \in BoardPaths, NEW y \in Yamls, Restored(y, boardFiles[p], p)
      PROVE BoardInv
  BY <1>2 DEF BoardInit, BoardInv, BoardTyped, BaselineIsFile, Restored, AnyYaml
<1>3. QED
  BY <1>1, <1>2 DEF BoardInit

\* A request is sent with the text and the path of the moment.
LEMMA BoardSendSteps ==
    ASSUME BoardInv, NEW k \in {"open", "compose", "validate", "render", "save"},
           NEW p \in BoardPaths \cup {NoBoard}, NEW y \in AnyYaml,
           k = "save" => p \in BoardPaths,
           SendBoard([kind |-> k, path |-> p, text |-> y]),
           UnchangedBuffer, UNCHANGED boardFiles
    PROVE  BoardInv'
<1> DEFINE c == [kind |-> k, path |-> p, text |-> y]
<1>1. c \in BoardRequests /\ c.kind = k /\ c.path = p /\ boardCalls' = boardCalls \cup {c}
  BY DEF BoardRequests, SendBoard
<1> HIDE DEF c
<1>2. QED
  BY <1>1 DEF UnchangedBuffer, BoardInv, BoardTyped, BaselineIsFile

\* A request is answered.
LEMMA BoardAnswerSteps ==
    ASSUME BoardInv, NEW c \in boardCalls, NEW ok \in BOOLEAN,
           \/ OpenAnswer(c, ok) \/ ValidateAnswer(c, ok) \/ RenderAnswer(c, ok)
           \/ SaveAnswered(c, ok) \/ \E y \in Yamls : ComposeAnswer(c, y, ok)
    PROVE  BoardInv'
<1>0. /\ c.path \in BoardPaths \cup {NoBoard} /\ c.text \in AnyYaml
      /\ c.kind = "save" => c.path \in BoardPaths
      /\ Yamls \subseteq AnyYaml /\ EmptyYaml \in AnyYaml
  BY DEF BoardInv, BoardTyped, BoardRequests, AnyYaml
<1>1. CASE OpenAnswer(c, ok)
  BY <1>0, <1>1 DEF OpenAnswer, Done, load, UnchangedBuffer, BoardInv, BoardTyped,
                    BaselineIsFile
<1>2. ASSUME NEW y \in Yamls, ComposeAnswer(c, y, ok) PROVE BoardInv'
  BY <1>0, <1>2 DEF ComposeAnswer, Done, UnchangedBuffer, BoardInv, BoardTyped, BaselineIsFile
<1>3. CASE ValidateAnswer(c, ok) \/ RenderAnswer(c, ok)
  BY <1>3 DEF ValidateAnswer, RenderAnswer, Done, UnchangedBuffer, BoardInv, BoardTyped,
              BaselineIsFile
<1>4. CASE SaveAnswered(c, ok)
  BY <1>0, <1>4 DEF SaveAnswered, Published, Done, UnchangedBuffer, BoardInv, BoardTyped,
                    BaselineIsFile
<1>5. QED
  BY <1>1, <1>2, <1>3, <1>4

\* The steps of the page alone.
LEMMA BoardPageSteps ==
    ASSUME BoardInv,
           \/ \E y \in AnyYaml : edit(y)
           \/ ChangeInputs \/ DiscardDraft \/ EditMode \/ ShowSection \/ ReloadBoard
           \/ \E y \in Yamls : UseTemplate(y)
    PROVE  BoardInv'
BY DEF edit, ChangeInputs, DiscardDraft, EditMode, ShowSection, ReloadBoard, UseTemplate, load,
       Quiet, UnchangedBuffer, BoardInv, BoardTyped, BaselineIsFile, AnyYaml

\* Every step keeps the invariant.
LEMMA BoardStepInv == BoardInv /\ [BoardNext]_boardVars => BoardInv'
<1> SUFFICES ASSUME BoardInv, [BoardNext]_boardVars PROVE BoardInv'
  OBVIOUS
<1>1. CASE UNCHANGED boardVars
  BY <1>1 DEF boardVars, BoardInv, BoardTyped, BaselineIsFile
<1>2. CASE validate \/ refresh \/ AutoRender
  BY <1>2, BoardSendSteps DEF validate, refresh, AutoRender, Render, boardSource, BoardInv,
                              BoardTyped
<1>3. ASSUME NEW p \in BoardPaths \cup {NoBoard}, open(p) \/ Compose(p) PROVE BoardInv'
  BY <1>3, BoardSendSteps DEF open, Compose, AnyYaml
<1>4. ASSUME NEW p \in BoardPaths, publish(p) PROVE BoardInv'
  BY <1>4, BoardSendSteps DEF publish, BoardInv, BoardTyped
<1>5. ASSUME NEW c \in boardCalls, NEW ok \in BOOLEAN,
             \/ OpenAnswer(c, ok) \/ ValidateAnswer(c, ok) \/ RenderAnswer(c, ok)
             \/ SaveAnswered(c, ok) \/ \E y \in Yamls : ComposeAnswer(c, y, ok)
      PROVE  BoardInv'
  BY <1>5, BoardAnswerSteps
<1>6. QED
  BY <1>1, <1>2, <1>3, <1>4, <1>5, BoardPageSteps DEF BoardNext

\* What the workspace calls the published version of a board is its file.
THEOREM BaselineHonest == Spec => []PublishedIsFile
<1>1. Init => BoardInit
  BY DEF Init
<1>2. BoardInv => PublishedIsFile
  BY DEF BoardInv, BaselineIsFile, PublishedIsFile
<1>3. QED
  BY <1>1, <1>2, BoardInitInv, BoardStepInv, PageSteps, PTL DEF Spec

-----------------------------------------------------------------------------
(* The SQL console.                                                        *)

IsDraft(d) == DOMAIN d = {"sql", "path", "saved"}

\* Tabs are numbered as they are made.
DraftsTyped ==
    /\ created \in Ids /\ DOMAIN drafts \subseteq 0 .. created
    /\ \A d \in DOMAIN drafts : IsDraft(drafts[d])
    /\ DOMAIN queryFiles = QueryPaths

\* A run that is still awaited is one on the target selected; a save that closes a
\* tab closes the one it saves, but for the history variable's exception.
RequestFields(r) ==
    \/ /\ DOMAIN r = {"kind", "live", "id", "target"} /\ r.kind \in {"run", "format"}
       /\ r.live => r.target = runTarget
    \/ /\ DOMAIN r = {"kind", "live", "id", "path", "sql", "closes"} /\ r.kind = "save"
       /\ r.path \in QueryPaths
       /\ r.closes \in {r.id, NoTab} \/ besides
    \/ DOMAIN r = {"kind", "live", "path"} /\ r.kind = "read" /\ r.path \in QueryPaths

RequestsTyped == \A r \in requests : RequestFields(r)

ConsoleInv == DraftsTyped /\ RequestsTyped /\ besides \in BOOLEAN /\ ResultsOfTarget

\* Init establishes it.
LEMMA ConsoleInitInv == ConsoleInit => ConsoleInv
<1> SUFFICES ASSUME ConsoleInit PROVE ConsoleInv
  OBVIOUS
<1>1. PICK t \in QueryTexts : drafts = [d \in {0} |-> [BlankDraft EXCEPT !.sql = t]]
  BY DEF ConsoleInit
<1>2. IsDraft([BlankDraft EXCEPT !.sql = t])
  BY DEF BlankDraft, IsDraft
<1>3. DraftsTyped
  BY <1>1, <1>2, ConsoleAssumption DEF ConsoleInit, DraftsTyped, Ids
<1>4. RequestsTyped /\ ResultsOfTarget /\ besides \in BOOLEAN
  BY DEF ConsoleInit, RequestsTyped, ResultsOfTarget
<1>5. QED
  BY <1>3, <1>4 DEF ConsoleInv

\* A request of an old revision keeps its fields, and may be for another target.
LEMMA StaleTyped ==
    ASSUME NEW rs, \A r \in rs : RequestFields(r), besides => besides'
    PROVE  \A r \in Stale(rs) : RequestFields(r)' /\ ~r.live
<1>1. ASSUME NEW r \in rs
      PROVE  RequestFields([r EXCEPT !.live = FALSE])' /\ ~[r EXCEPT !.live = FALSE].live
  <2> DEFINE s == [r EXCEPT !.live = FALSE]
  <2>1. /\ DOMAIN s = DOMAIN r /\ "live" \in DOMAIN r
        /\ \A f \in DOMAIN r : s[f] = IF f = "live" THEN FALSE ELSE r[f]
    BY DEF RequestFields
  <2>2. QED
    BY <2>1 DEF RequestFields
<1>2. QED
  BY <1>1 DEF Stale

\* The tabs a step leaves: the records of tabs numbered up to n.
TabsTo(ds, n) == DOMAIN ds \subseteq 0 .. n /\ \A d \in DOMAIN ds : IsDraft(ds[d])

\* Closing a tab keeps the others; after the last one a blank tab appears.
LEMMA WithoutTyped ==
    ASSUME NEW n \in Nat, NEW ds, TabsTo(ds, n), NEW id
    PROVE  /\ TabsTo(Without(ds, id), n)
           /\ \A d \in DOMAIN ds \ {id} : d \in DOMAIN Without(ds, id)
                                          /\ Without(ds, id)[d] = ds[d]
           /\ \A d \in DOMAIN Without(ds, id) :
                 d \in DOMAIN ds \ {id} \/ Without(ds, id)[d] = BlankDraft
<1>1. IsDraft(BlankDraft)
  BY DEF BlankDraft, IsDraft
<1>2. CASE DOMAIN ds \ {id} = {}
  BY <1>1, <1>2 DEF Without, TabsTo
<1>3. CASE DOMAIN ds \ {id} # {}
  <2>1. Without(ds, id) = [d \in DOMAIN ds \ {id} |-> ds[d]]
    BY <1>3 DEF Without
  <2>2. QED
    BY <2>1 DEF TabsTo
<1>4. QED
  BY <1>2, <1>3

\* A new tab has a number of its own.
LEMMA WithNewTyped ==
    ASSUME DraftsTyped, created # MaxDrafts, NEW draft, IsDraft(draft)
    PROVE  /\ created + 1 \in Ids /\ TabsTo(WithNew(draft), created + 1)
           /\ \A d \in DOMAIN drafts : d \in DOMAIN WithNew(draft)
                                       /\ WithNew(draft)[d] = drafts[d]
<1>1. created + 1 \in Ids /\ created \in Nat /\ created + 1 \notin DOMAIN drafts
  BY ConsoleAssumption DEF DraftsTyped, Ids
<1>2. DOMAIN WithNew(draft) = DOMAIN drafts \cup {created + 1}
  BY DEF WithNew
<1>3. \A d \in DOMAIN WithNew(draft) :
         WithNew(draft)[d] = IF d = created + 1 THEN draft ELSE drafts[d]
  BY DEF WithNew
<1>4. DOMAIN WithNew(draft) \subseteq 0 .. created + 1
  BY <1>1, <1>2 DEF DraftsTyped
<1>5. \A d \in DOMAIN WithNew(draft) : IsDraft(WithNew(draft)[d])
  BY <1>1, <1>2, <1>3 DEF DraftsTyped
<1>6. \A d \in DOMAIN drafts : WithNew(draft)[d] = drafts[d]
  BY <1>1, <1>2, <1>3
<1>7. QED
  BY <1>1, <1>2, <1>4, <1>5, <1>6 DEF TabsTo

\* A tab whose text is replaced.
LEMMA RetypeTyped ==
    ASSUME DraftsTyped, NEW a, NEW t
    PROVE  /\ TabsTo([drafts EXCEPT ![a].sql = t], created)
           /\ DOMAIN [drafts EXCEPT ![a].sql = t] = DOMAIN drafts
           /\ \A d \in DOMAIN drafts :
                 [drafts EXCEPT ![a].sql = t][d]
                     = IF d = a THEN [drafts[d] EXCEPT !.sql = t] ELSE drafts[d]
<1>1. \A d \in DOMAIN drafts : IsDraft(drafts[d])
  BY DEF DraftsTyped
<1>2. \A d \in DOMAIN drafts : IsDraft([drafts[d] EXCEPT !.sql = t])
  BY <1>1 DEF IsDraft
<1>3. QED
  BY <1>1, <1>2 DEF DraftsTyped, TabsTo

\* The tab that a save was about.
LEMMA MarkTyped ==
    ASSUME DraftsTyped, NEW r, r.path \in QueryPaths
    PROVE  /\ TabsTo(MarkSaved(r), created) /\ DOMAIN MarkSaved(r) = DOMAIN drafts
           /\ \A d \in DOMAIN drafts :
                 /\ MarkSaved(r)[d].sql = drafts[d].sql
                 /\ d # r.id => MarkSaved(r)[d] = drafts[d]
                 /\ d = r.id => MarkSaved(r)[d].path = r.path /\ MarkSaved(r)[d].saved = r.sql
<1>1. \A d \in DOMAIN drafts : IsDraft(drafts[d])
  BY DEF DraftsTyped
<1>2. \A d \in DOMAIN drafts :
         /\ IsDraft([drafts[d] EXCEPT !.path = r.path, !.saved = r.sql])
         /\ [drafts[d] EXCEPT !.path = r.path, !.saved = r.sql].sql = drafts[d].sql
         /\ [drafts[d] EXCEPT !.path = r.path, !.saved = r.sql].path = r.path
         /\ [drafts[d] EXCEPT !.path = r.path, !.saved = r.sql].saved = r.sql
  BY <1>1 DEF IsDraft
<1>3. /\ DOMAIN MarkSaved(r) = DOMAIN drafts
      /\ \A d \in DOMAIN drafts :
            MarkSaved(r)[d] = IF d = r.id
                              THEN [drafts[d] EXCEPT !.path = r.path, !.saved = r.sql]
                              ELSE drafts[d]
  BY DEF MarkSaved
<1>4. \A d \in DOMAIN drafts : IsDraft(MarkSaved(r)[d])
  BY <1>1, <1>2, <1>3
<1>5. TabsTo(MarkSaved(r), created)
  BY <1>3, <1>4 DEF DraftsTyped, TabsTo
<1>6. QED
  BY ZenonT(40), <1>2, <1>3, <1>5

\* Requests that stay, and new ones, when the target stays.
LEMMA RequestsKept ==
    ASSUME RequestsTyped, runTarget' = runTarget, besides => besides',
           \A r \in requests' : r \in requests \/ RequestFields(r)'
    PROVE  RequestsTyped'
BY DEF RequestsTyped, RequestFields

\* All requests become old ones.
LEMMA RequestsDropped ==
    ASSUME RequestsTyped, besides => besides',
           \A r \in requests' : r \in Stale(requests) \/ RequestFields(r)'
    PROVE  RequestsTyped'
<1>1. \A r \in Stale(requests) : RequestFields(r)'
  <2>1. PICK rs : rs = requests
    OBVIOUS
  <2>2. \A r \in rs : RequestFields(r)
    BY <2>1 DEF RequestsTyped
  <2>3. \A r \in Stale(rs) : RequestFields(r)'
    BY <2>2, StaleTyped
  <2>4. QED
    BY <2>1, <2>3
<1>2. QED
  BY <1>1 DEF RequestsTyped

\* What UnsavedQueryKept and SavedMarkHonest ask of a step.
KeptStep ==
    \A id \in DOMAIN drafts :
        /\ drafts[id].sql # NoText /\ Dirty(id)
        /\ id \in DOMAIN drafts' => drafts'[id] = BlankDraft
        => \/ id \in agreed' \/ besides
           \/ \E r \in requests : r.kind = "save" /\ r.id = id /\ r.closes = id
HonestStep ==
    \A id \in DOMAIN drafts \cap DOMAIN drafts' :
        Dirty(id) /\ ~draftDirty(drafts'[id]) /\ drafts'[id] # BlankDraft
        => \/ drafts'[id].sql # drafts[id].sql
           \/ queryFiles'[drafts'[id].path] = drafts'[id].sql
ConsoleStep == ConsoleInv' /\ KeptStep /\ HonestStep

\* A step that leaves the open tabs alone.
LEMMA TabsAlone ==
    ASSUME \A d \in DOMAIN drafts : d \in DOMAIN drafts' /\ drafts'[d] = drafts[d]
    PROVE  KeptStep /\ HonestStep
BY DEF KeptStep, HonestStep, Dirty, BlankDraft

\* Rows on screen, when they are cleared or stay with the target.
LEMMA RowsKept ==
    ASSUME ResultsOfTarget, shown' = {} \/ (shown' = shown /\ runTarget' = runTarget)
    PROVE  ResultsOfTarget'
BY DEF ResultsOfTarget

\* Steps that leave the tabs and their files alone: requests, their answers, the
\* choice of a tab or a target, a reload.
LEMMA RequestSteps ==
    ASSUME ConsoleInv,
           \/ runQuery \/ format \/ CancelClose \/ Reload
           \/ \E r \in requests, ok \in BOOLEAN : RunAnswer(r, ok)
           \/ \E id \in Ids : SwitchDraft(id)
           \/ \E t \in RunTargets : ChangeTarget(t)
           \/ \E p \in QueryPaths : saveDraft(p) \/ loadSaved(p)
    PROVE  ConsoleStep
<1>0. UNCHANGED <<drafts, queryFiles, created>>
  BY DEF runQuery, format, CancelClose, Reload, RunAnswer, SwitchDraft, ChangeTarget,
         saveDraft, loadSaved, UnchangedFiles
<1>1. DraftsTyped'
  BY <1>0 DEF ConsoleInv, DraftsTyped
<1>2. KeptStep /\ HonestStep
  BY <1>0, TabsAlone
<1>3. besides' \in BOOLEAN /\ (besides => besides')
  BY DEF ConsoleInv, runQuery, format, CancelClose, Reload, RunAnswer, SwitchDraft,
         ChangeTarget, saveDraft, loadSaved, UnchangedFiles
<1>4. RequestsTyped' /\ ResultsOfTarget'
  <2>1. CASE runQuery
    <3>0. PICK new : new = [kind |-> "run", live |-> TRUE, id |-> activeDraft,
                            target |-> runTarget]
      OBVIOUS
    <3>1. requests' = Stale(requests) \cup {new} /\ shown' = shown /\ runTarget' = runTarget
      BY <2>1, <3>0 DEF runQuery
    <3>2. RequestFields(new)'
      BY <3>0, <3>1 DEF RequestFields
    <3>3. QED
      <4>1. RequestsTyped'
        BY <1>3, <3>1, <3>2, RequestsDropped DEF ConsoleInv
      <4>2. QED
        BY <3>1, <4>1, RowsKept DEF ConsoleInv
  <2>2. CASE format
    <3>0. PICK new : new = [kind |-> "format", live |-> TRUE, id |-> activeDraft,
                            target |-> runTarget]
      OBVIOUS
    <3>1. requests' = requests \cup {new} /\ shown' = shown /\ runTarget' = runTarget
      BY <2>2, <3>0 DEF format
    <3>2. RequestFields(new)'
      BY <3>0, <3>1 DEF RequestFields
    <3>3. QED
      BY <1>3, <3>1, <3>2, RequestsKept, RowsKept DEF ConsoleInv
  <2>3. CASE CancelClose \/ Reload
    <3>1. requests' \subseteq requests /\ runTarget' = runTarget
          /\ (shown' = shown \/ shown' = {})
      BY <2>3 DEF CancelClose, Reload, KeepResults, clearResults
    <3>2. QED
      BY <1>3, <3>1, RequestsKept, RowsKept DEF ConsoleInv
  <2>4. ASSUME NEW r \in requests, NEW ok \in BOOLEAN, RunAnswer(r, ok)
        PROVE  RequestsTyped' /\ ResultsOfTarget'
    <3>1. requests' \subseteq requests /\ runTarget' = runTarget
      BY <2>4 DEF RunAnswer
    <3>2. RequestsTyped'
      BY <1>3, <3>1, RequestsKept DEF ConsoleInv
    <3>3. r.live => r.target = runTarget
      BY <2>4 DEF RunAnswer, ConsoleInv, RequestsTyped, RequestFields
    <3>4. ResultsOfTarget'
      BY <2>4, <3>1, <3>3 DEF RunAnswer, Current, ConsoleInv, ResultsOfTarget
    <3>5. QED
      BY <3>2, <3>4
  <2>5. ASSUME (\E id \in Ids : SwitchDraft(id)) \/ (\E t \in RunTargets : ChangeTarget(t))
        PROVE  RequestsTyped' /\ ResultsOfTarget'
    <3>1. requests' = Stale(requests) /\ shown' = {}
      BY <2>5 DEF SwitchDraft, ChangeTarget, clearResults
    <3>2. QED
      BY <1>3, <3>1, RequestsDropped, RowsKept DEF ConsoleInv
  <2>6. ASSUME NEW p \in QueryPaths, saveDraft(p) PROVE RequestsTyped' /\ ResultsOfTarget'
    <3>0. PICK new : new = [kind |-> "save", live |-> TRUE, id |-> activeDraft, path |-> p,
                            sql |-> drafts[activeDraft].sql, closes |-> closingId]
      OBVIOUS
    <3>1. requests' = requests \cup {new} /\ shown' = shown /\ runTarget' = runTarget
      BY <2>6, <3>0 DEF saveDraft, KeepResults
    <3>2. RequestFields(new)'
      BY <2>6, <3>0 DEF saveDraft, RequestFields
    <3>3. QED
      BY <1>3, <3>1, <3>2, RequestsKept, RowsKept DEF ConsoleInv
  <2>7. ASSUME NEW p \in QueryPaths, loadSaved(p) PROVE RequestsTyped' /\ ResultsOfTarget'
    <3> DEFINE new == [kind |-> "read", live |-> TRUE, path |-> p]
    <3>1. CASE requests' = Stale(requests) /\ shown' = {}
      BY <1>3, <3>1, RequestsDropped, RowsKept DEF ConsoleInv
    <3>2. CASE requests' = requests \cup {new} /\ shown' = shown /\ runTarget' = runTarget
      <4>1. RequestFields(new)'
        BY DEF RequestFields
      <4>2. QED
        BY <1>3, <3>2, <4>1, RequestsKept, RowsKept DEF ConsoleInv
    <3>3. QED
      BY <2>7, <3>1, <3>2 DEF loadSaved, clearResults, KeepResults
  <2>8. QED
    BY <2>1, <2>2, <2>3, <2>4, <2>5, <2>6, <2>7
<1>5. QED
  BY <1>1, <1>2, <1>3, <1>4 DEF ConsoleStep, ConsoleInv

\* Steps that edit, add or remove tabs without an answer to a save.
LEMMA TabSteps ==
    ASSUME ConsoleInv,
           \/ \E t \in QueryTexts : TypeSql(t)
           \/ \E r \in requests, t \in QueryTexts \cup {NoText} : FormatAnswer(r, t)
           \/ \E t \in QueryTexts \cup {NoText} : newDraft(t)
           \/ \E id \in Ids : closeQuery(id)
           \/ CloseOthers \/ DiscardChanges
           \/ \E r \in requests : ReadAnswer(r)
           \/ \E p \in QueryPaths : DeleteSaved(p)
    PROVE  ConsoleStep
<1>0. besides' = besides /\ created \in Nat
  <2>1. besides' = besides
    BY DEF TypeSql, FormatAnswer, newDraft, closeQuery, CloseOthers, DiscardChanges,
           ReadAnswer, DeleteSaved, UnchangedFiles
  <2>2. created \in Nat
    BY ConsoleAssumption DEF ConsoleInv, DraftsTyped, Ids
  <2>3. QED
    BY <2>1, <2>2
<1>1. RequestsTyped' /\ ResultsOfTarget'
  <2>1. \/ (\A r \in requests' : r \in requests) /\ shown' = shown /\ runTarget' = runTarget
        \/ (\A r \in requests' : r \in Stale(requests)) /\ shown' = {}
    BY ZenonT(40) DEF TypeSql, FormatAnswer, newDraft, closeQuery, CloseOthers, DiscardChanges,
           ReadAnswer, DeleteSaved, KeepResults, clearResults, Stale
  <2>2. RequestsTyped'
    BY <1>0, <2>1, RequestsKept, RequestsDropped DEF ConsoleInv
  <2>3. QED
    BY <2>1, <2>2, RowsKept DEF ConsoleInv
<1>2. ASSUME UNCHANGED created, TabsTo(drafts', created), DOMAIN queryFiles' = QueryPaths,
             KeptStep, HonestStep
      PROVE  ConsoleStep
  BY <1>0, <1>1, <1>2 DEF ConsoleStep, ConsoleInv, DraftsTyped, TabsTo
<1>3. ASSUME NEW t, UNCHANGED <<created, queryFiles>>,
             \/ drafts' = drafts
             \/ t # NoText /\ drafts' = [drafts EXCEPT ![activeDraft].sql = t]
      PROVE  ConsoleStep
  <2>1. CASE drafts' = drafts
    BY <1>2, <1>3, <2>1, TabsAlone DEF ConsoleInv, DraftsTyped, TabsTo
  <2>2. CASE t # NoText /\ drafts' = [drafts EXCEPT ![activeDraft].sql = t]
    <3>0. PICK a : a = activeDraft
      OBVIOUS
    <3>1. /\ TabsTo(drafts', created) /\ DOMAIN drafts' = DOMAIN drafts
          /\ \A d \in DOMAIN drafts :
                drafts'[d] = IF d = a THEN [drafts[d] EXCEPT !.sql = t] ELSE drafts[d]
      BY <2>2, <3>0, RetypeTyped DEF ConsoleInv
    <3>2. \A d \in DOMAIN drafts :
             LET e == [drafts[d] EXCEPT !.sql = t]
             IN  e.sql = t /\ e.path = drafts[d].path /\ e.saved = drafts[d].saved
      BY DEF ConsoleInv, DraftsTyped, IsDraft
    <3>3. KeptStep /\ HonestStep
      BY <2>2, <3>1, <3>2 DEF KeptStep, HonestStep, Dirty, draftDirty, BlankDraft
    <3>4. QED
      BY <1>2, <1>3, <3>1, <3>3 DEF ConsoleInv, DraftsTyped
  <2>3. QED
    BY <1>3, <2>1, <2>2
<1>4. ASSUME NEW draft, IsDraft(draft), created # MaxDrafts, created' = created + 1,
             drafts' = WithNew(draft), UNCHANGED queryFiles
      PROVE  ConsoleStep
  <2>1. /\ created' \in Ids /\ TabsTo(drafts', created')
        /\ \A d \in DOMAIN drafts : d \in DOMAIN drafts' /\ drafts'[d] = drafts[d]
    BY <1>4, WithNewTyped DEF ConsoleInv
  <2>2. QED
    BY <1>0, <1>1, <1>4, <2>1, TabsAlone DEF ConsoleStep, ConsoleInv, DraftsTyped, TabsTo
<1>5. ASSUME NEW t \in QueryTexts, TypeSql(t) PROVE ConsoleStep
  BY <1>3, <1>5, ConsoleAssumption DEF TypeSql, UnchangedFiles
<1>6. ASSUME NEW r \in requests, NEW t \in QueryTexts \cup {NoText}, FormatAnswer(r, t)
      PROVE  ConsoleStep
  <2>1. CASE r.live /\ t = NoText
    <3>1. PICK a : a = activeDraft
      OBVIOUS
    <3>2. /\ TabsTo(drafts', created) /\ DOMAIN drafts' = DOMAIN drafts
          /\ \A d \in DOMAIN drafts :
               drafts'[d] = IF d = a THEN [drafts[d] EXCEPT !.sql = @] ELSE drafts[d]
      BY <1>6, <2>1, <3>1 DEF FormatAnswer, ConsoleInv, DraftsTyped, TabsTo, IsDraft
    <3>3. \A d \in DOMAIN drafts :
             /\ drafts'[d].sql = drafts[d].sql
             /\ drafts'[d].path = drafts[d].path /\ drafts'[d].saved = drafts[d].saved
      <4> SUFFICES ASSUME NEW d \in DOMAIN drafts
                   PROVE  /\ drafts'[d].sql = drafts[d].sql
                          /\ drafts'[d].path = drafts[d].path
                          /\ drafts'[d].saved = drafts[d].saved
        OBVIOUS
      <4>1. DOMAIN drafts[d] = {"sql", "path", "saved"}
        BY DEF ConsoleInv, DraftsTyped, IsDraft
      <4>2. QED
        BY <3>2, <4>1
    <3>4. KeptStep /\ HonestStep
      <4>1. KeptStep
        BY <3>2, <3>3 DEF KeptStep, BlankDraft
      <4>2. \A d \in DOMAIN drafts : draftDirty(drafts'[d]) <=> Dirty(d)
        BY <3>3 DEF Dirty, draftDirty
      <4>3. HonestStep
        BY <4>2 DEF HonestStep
      <4>4. QED
        BY <4>1, <4>3
    <3>5. QED
      BY <1>2, <1>6, <3>2, <3>4 DEF FormatAnswer, UnchangedFiles, ConsoleInv, DraftsTyped
  <2>2. CASE ~(r.live /\ t = NoText)
    BY <1>3, <1>6, <2>2 DEF FormatAnswer, UnchangedFiles
  <2>3. QED
    BY <2>1, <2>2
<1>7. ASSUME NEW t \in QueryTexts \cup {NoText}, newDraft(t) PROVE ConsoleStep
  <2>1. IsDraft([BlankDraft EXCEPT !.sql = t])
    BY DEF IsDraft, BlankDraft
  <2>2. created # MaxDrafts
    BY <1>0, <1>7, ConsoleAssumption DEF newDraft
  <2>3. QED
    BY <1>4, <1>7, <2>1, <2>2 DEF newDraft
<1>8. ASSUME NEW r \in requests, ReadAnswer(r) PROVE ConsoleStep
  <2>1. CASE queryFiles[r.path] = NoText \/ created = MaxDrafts
    BY <1>3, <1>8, <2>1 DEF ReadAnswer
  <2>2. CASE ~(queryFiles[r.path] = NoText \/ created = MaxDrafts)
    <3>1. PICK draft : draft = [sql |-> queryFiles[r.path], path |-> r.path,
                                saved |-> queryFiles[r.path]]
      OBVIOUS
    <3>2. IsDraft(draft)
      BY <3>1 DEF IsDraft
    <3>3. QED
      BY <1>4, <1>8, <2>2, <3>1, <3>2 DEF ReadAnswer
  <2>3. QED
    BY <2>1, <2>2
<1>9. ASSUME NEW id \in Ids, closeQuery(id) PROVE ConsoleStep
  <2>1. CASE Dirty(id)
    BY <1>3, <1>9, <2>1 DEF closeQuery, AsksBeforeClose, UnchangedFiles
  <2>2. CASE ~Dirty(id)
    <3>1. drafts' = Without(drafts, id) /\ UNCHANGED <<created, queryFiles>>
      BY <1>9, <2>2 DEF closeQuery, AsksBeforeClose, UnchangedFiles
    <3>2. PICK ds : ds = drafts
      OBVIOUS
    <3>3. /\ TabsTo(drafts', created)
          /\ \A d \in DOMAIN drafts \ {id} : d \in DOMAIN drafts' /\ drafts'[d] = drafts[d]
      BY <1>0, <3>1, <3>2, WithoutTyped DEF ConsoleInv, DraftsTyped, TabsTo
    <3>4. KeptStep /\ HonestStep
      BY <2>2, <3>3 DEF KeptStep, HonestStep, Dirty, BlankDraft
    <3>5. QED
      BY <1>2, <3>1, <3>3, <3>4 DEF ConsoleInv, DraftsTyped
  <2>3. QED
    BY <2>1, <2>2
<1>10. CASE CloseOthers
  <2>1. /\ drafts' = [d \in DOMAIN drafts \cap {activeDraft} |-> drafts[d]]
        /\ agreed' = DOMAIN drafts \ {activeDraft} /\ UNCHANGED <<created, queryFiles>>
    BY <1>10 DEF CloseOthers, UnchangedFiles
  <2>2. TabsTo(drafts', created)
    BY <2>1 DEF ConsoleInv, DraftsTyped, TabsTo
  <2>3. KeptStep /\ HonestStep
    BY <2>1 DEF KeptStep, HonestStep, Dirty, BlankDraft
  <2>4. QED
    BY <1>2, <2>1, <2>2, <2>3 DEF ConsoleInv, DraftsTyped
<1>11. CASE DiscardChanges
  <2>1. /\ agreed' = {closingId} /\ UNCHANGED <<created, queryFiles>>
        /\ drafts' = drafts \/ drafts' = Without(drafts, closingId)
    BY <1>11 DEF DiscardChanges, UnchangedFiles
  <2>2. PICK ds, id : ds = drafts /\ id = closingId
    OBVIOUS
  <2>3. CASE drafts' = Without(drafts, closingId)
    <3>1. /\ TabsTo(drafts', created)
          /\ \A d \in DOMAIN drafts \ {id} : d \in DOMAIN drafts' /\ drafts'[d] = drafts[d]
          /\ \A d \in DOMAIN drafts' : d \in DOMAIN drafts \ {id} \/ drafts'[d] = BlankDraft
      BY <1>0, <2>2, <2>3, WithoutTyped DEF ConsoleInv, DraftsTyped, TabsTo
    <3>2. KeptStep /\ HonestStep
      BY <2>1, <2>2, <3>1 DEF KeptStep, HonestStep, Dirty, BlankDraft
    <3>3. QED
      BY <1>2, <2>1, <3>1, <3>2 DEF ConsoleInv, DraftsTyped
  <2>4. CASE drafts' = drafts
    BY <1>3, <2>1, <2>4
  <2>5. QED
    BY <2>1, <2>3, <2>4
<1>12. ASSUME NEW p \in QueryPaths, DeleteSaved(p) PROVE ConsoleStep
  <2>1. drafts' = drafts /\ created' = created /\ DOMAIN queryFiles' = QueryPaths
    BY <1>12 DEF DeleteSaved, ConsoleInv, DraftsTyped
  <2>2. QED
    BY <1>2, <2>1, TabsAlone DEF ConsoleInv, DraftsTyped, TabsTo
<1>13. QED
  BY <1>5, <1>6, <1>7, <1>8, <1>9, <1>10, <1>11, <1>12

\* The answer to a save marks the tab with the text that was written, whatever was
\* typed meanwhile, and closes the tab it was asked to close.
LEMMA SaveAnswerStep ==
    ASSUME ConsoleInv, NEW r \in requests, NEW ok \in BOOLEAN, SaveDraftAnswer(r, ok)
    PROVE  ConsoleStep
<1> DEFINE marked == IF ok THEN MarkSaved(r) ELSE drafts
           closes == ok /\ r.closes \in DOMAIN drafts
<1>1. /\ besides' = besides /\ UNCHANGED <<created, runTarget>> /\ created \in Nat
      /\ r.path \in QueryPaths /\ (r.closes \in {r.id, NoTab} \/ besides)
      /\ r.kind = "save"
  <2>1. created \in Nat
    BY ConsoleAssumption DEF ConsoleInv, DraftsTyped, Ids
  <2>2. r.kind = "save" /\ RequestFields(r)
    BY DEF SaveDraftAnswer, ConsoleInv, RequestsTyped
  <2>3. QED
    BY <2>1, <2>2 DEF SaveDraftAnswer, RequestFields
<1>2. RequestsTyped' /\ ResultsOfTarget'
  <2>1. \/ (\A s \in requests' : s \in requests) /\ shown' = shown
        \/ (\A s \in requests' : s \in Stale(requests)) /\ shown' = {}
    BY DEF SaveDraftAnswer, KeepResults, clearResults, Stale
  <2>2. RequestsTyped'
    BY <1>1, <2>1, RequestsKept, RequestsDropped DEF ConsoleInv
  <2>3. QED
    BY <1>1, <2>1, <2>2, RowsKept DEF ConsoleInv
<1>3. drafts' = IF closes THEN Without(marked, r.closes) ELSE marked
  BY DEF SaveDraftAnswer
<1>4. PICK ds : ds = marked
  OBVIOUS
<1>5. /\ TabsTo(ds, created) /\ DOMAIN ds = DOMAIN drafts
      /\ \A d \in DOMAIN drafts :
            /\ ds[d].sql = drafts[d].sql
            /\ \/ ds[d] = drafts[d]
               \/ ok /\ d = r.id /\ ds[d].path = r.path /\ ds[d].saved = r.sql
  <2>1. CASE ok
    <3>1. ds = MarkSaved(r) /\ DraftsTyped
      BY <1>4, <2>1 DEF ConsoleInv
    <3>2. TabsTo(ds, created) /\ DOMAIN ds = DOMAIN drafts
      BY <1>1, <3>1, MarkTyped
    <3>3. \A d \in DOMAIN drafts :
             /\ ds[d].sql = drafts[d].sql
             /\ d # r.id => ds[d] = drafts[d]
             /\ d = r.id => ds[d].path = r.path /\ ds[d].saved = r.sql
      BY <1>1, <3>1, MarkTyped
    <3>4. QED
      BY <2>1, <3>2, <3>3
  <2>2. CASE ~ok
    <3>1. ds = drafts
      BY <1>4, <2>2
    <3>2. TabsTo(ds, created)
      BY <3>1 DEF ConsoleInv, DraftsTyped, TabsTo
    <3>3. QED
      BY <3>1, <3>2
  <2>3. QED
    BY <2>1, <2>2
<1> HIDE DEF marked
<1>6. /\ TabsTo(drafts', created)
      /\ \A d \in DOMAIN drafts :
            ~(closes /\ d = r.closes) => d \in DOMAIN drafts' /\ drafts'[d] = ds[d]
      /\ \A d \in DOMAIN drafts' :
            (d \in DOMAIN drafts /\ drafts'[d] = ds[d]) \/ drafts'[d] = BlankDraft
  <2>1. CASE closes
    BY <1>1, <1>3, <1>4, <1>5, <2>1, WithoutTyped
  <2>2. CASE ~closes
    BY <1>3, <1>4, <1>5, <2>2
  <2>3. QED
    BY <2>1, <2>2
<1>7. DraftsTyped'
  BY <1>1, <1>6 DEF ConsoleInv, DraftsTyped, TabsTo, SaveDraftAnswer
<1>8. KeptStep
  <2> SUFFICES ASSUME NEW id \in DOMAIN drafts, drafts[id].sql # NoText,
                      id \in DOMAIN drafts' => drafts'[id] = BlankDraft
               PROVE  besides \/ \E s \in requests : s.kind = "save" /\ s.id = id /\ s.closes = id
    BY DEF KeptStep
  <2>1. closes /\ id = r.closes
    BY <1>5, <1>6 DEF BlankDraft
  <2>2. id # NoTab
    BY ConsoleAssumption DEF ConsoleInv, DraftsTyped, Ids, NoTab
  <2>3. QED
    BY <1>1, <2>1, <2>2
<1>9. HonestStep
  <2> SUFFICES ASSUME NEW id \in DOMAIN drafts \cap DOMAIN drafts', Dirty(id),
                      ~draftDirty(drafts'[id]), drafts'[id] # BlankDraft
               PROVE  queryFiles'[drafts'[id].path] = drafts'[id].sql
    BY DEF HonestStep
  <2>1. drafts'[id] = ds[id] /\ ds[id] # drafts[id]
    BY <1>6 DEF Dirty
  <2>2. ok /\ drafts'[id].path = r.path /\ drafts'[id].saved = r.sql /\ r.path # NoPath
    BY <1>1, <1>5, <2>1, ConsoleAssumption
  <2>3. drafts'[id].sql = r.sql
    BY <2>2 DEF draftDirty
  <2>4. queryFiles'[r.path] = r.sql
    BY <1>1, <2>2 DEF SaveDraftAnswer, ConsoleInv, DraftsTyped
  <2>5. QED
    BY <2>2, <2>3, <2>4
<1>10. QED
  BY <1>1, <1>2, <1>7, <1>8, <1>9 DEF ConsoleStep, ConsoleInv

\* Every step keeps the invariant, and the tabs.
LEMMA ConsoleStepInv ==
    ConsoleInv /\ [ConsoleNext]_consoleVars
        => ConsoleInv' /\ [KeptStep]_consoleVars /\ [HonestStep]_consoleVars
<1> SUFFICES ASSUME ConsoleInv, [ConsoleNext]_consoleVars
             PROVE  ConsoleInv' /\ [KeptStep]_consoleVars /\ [HonestStep]_consoleVars
  OBVIOUS
<1>1. CASE UNCHANGED consoleVars
  BY <1>1 DEF consoleVars, ConsoleInv, DraftsTyped, RequestsTyped, RequestFields,
              ResultsOfTarget
<1>2. CASE ConsoleNext
  BY <1>2, RequestSteps, TabSteps, SaveAnswerStep DEF ConsoleNext, ConsoleStep
<1>3. QED
  BY <1>1, <1>2

\* With any tabs, files, targets and requests in flight: rows on screen are of the
\* selected target.
THEOREM RowsOfTarget == Spec => []ResultsOfTarget
<1>1. Init => ConsoleInit
  BY DEF Init
<1>2. ConsoleInv => ResultsOfTarget
  BY DEF ConsoleInv
<1>3. QED
  BY <1>1, <1>2, ConsoleInitInv, ConsoleStepInv, PageSteps, PTL DEF Spec

\* A query is not lost unasked, and not marked saved when its file differs.
THEOREM QueriesSafe == Spec => QueriesKept
<1>1. Init => ConsoleInit
  BY DEF Init
<1>2. Spec => [][KeptStep]_consoleVars
  BY <1>1, ConsoleInitInv, ConsoleStepInv, PageSteps, PTL DEF Spec
<1>3. Spec => [][HonestStep]_consoleVars
  BY <1>1, ConsoleInitInv, ConsoleStepInv, PageSteps, PTL DEF Spec
<1>4. QED
  BY <1>2, <1>3 DEF QueriesKept, UnsavedQueryKept, SavedMarkHonest, KeptStep, HonestStep

-----------------------------------------------------------------------------
(* The history of runs: answers of superseded requests.                    *)

\* A request has a number of its own, and the one with the latest number asks
\* about the filter, or the run, selected now.
DashLatest ==
    /\ requestSequence \in Nat
    /\ \A c \in dashCalls : /\ c.n \in Nat /\ c.n <= requestSequence
                            /\ c.n = requestSequence => c.filter = filter
DetailLatest ==
    /\ detailSequence \in Nat
    /\ \A c \in detailCalls :
          /\ DOMAIN c = {"n", "id", "status"}
          /\ c.n \in Nat /\ c.n <= detailSequence
          /\ c.n = detailSequence => c.id = selectedId
LooksInv == DashLatest /\ DetailLatest

\* Init establishes it.
LEMMA LooksInitInv == LiveInit => LooksInv
BY DEF LiveInit, LooksInv, DashLatest, DetailLatest

\* A new request for the dashboard is the latest one.
LEMMA DashAsked ==
    ASSUME DashLatest, FetchDashboard(filter') PROVE DashLatest'
<1>1. PICK new : new = [n |-> requestSequence + 1, filter |-> filter']
  OBVIOUS
<1>2. /\ dashCalls' = dashCalls \cup {new} /\ requestSequence' = requestSequence + 1
      /\ new.n = requestSequence + 1 /\ new.filter = filter'
  BY <1>1 DEF FetchDashboard
<1>3. QED
  BY <1>2 DEF DashLatest

\* So is a new request for the detail.
LEMMA DetailAsked ==
    ASSUME DetailLatest, FetchDetail(selectedId') PROVE DetailLatest'
<1>1. PICK new : new = [n |-> detailSequence + 1, id |-> selectedId', status |-> "ask"]
  OBVIOUS
<1>2. /\ detailCalls' = detailCalls \cup {new} /\ detailSequence' = detailSequence + 1
      /\ new.n = detailSequence + 1 /\ new.id = selectedId'
      /\ DOMAIN new = {"n", "id", "status"}
  BY <1>1 DEF FetchDetail
<1>3. QED
  BY <1>2 DEF DetailLatest

\* What the two action properties ask of a step.
DashStep == dashboard' # dashboard => dashboard' = {filter}
DetailStep == detail' # detail => detail'.id = selectedId

\* Every step keeps the invariant; only the latest answer is shown.
LEMMA LooksStepInv ==
    LooksInv /\ [LiveNext]_liveVars
        => LooksInv' /\ [DashStep]_liveVars /\ [DetailStep]_liveVars
<1> SUFFICES ASSUME LooksInv, [LiveNext]_liveVars
             PROVE  LooksInv' /\ DashStep /\ DetailStep
  OBVIOUS
<1>0. DashLatest /\ DetailLatest
  BY DEF LooksInv
<1>a. ASSUME UNCHANGED dashVars PROVE DashLatest' /\ DashStep
  BY <1>0, <1>a DEF dashVars, DashLatest, DashStep
<1>b. ASSUME UNCHANGED detailVars PROVE DetailLatest' /\ DetailStep
  BY <1>0, <1>b DEF detailVars, DetailLatest, DetailStep
<1>1. CASE UNCHANGED liveVars
  BY <1>1, <1>a, <1>b DEF liveVars, LooksInv
<1>2. ASSUME NEW r \in Runs, PrintLine(r) \/ RunEnds(r) PROVE LooksInv' /\ DashStep /\ DetailStep
  BY <1>2, <1>a, <1>b DEF PrintLine, RunEnds, Publish, LooksInv
<1>3. ASSUME NEW f \in Filters, SetFilter(f) PROVE LooksInv' /\ DashStep /\ DetailStep
  BY <1>0, <1>3, <1>b, DashAsked DEF SetFilter, LooksInv, DashStep
<1>4. CASE RefreshDashboard
  BY <1>0, <1>4, <1>b, DashAsked DEF RefreshDashboard, LooksInv, DashStep
<1>5. ASSUME NEW c \in dashCalls, NEW ok \in BOOLEAN, DashboardAnswer(c, ok)
      PROVE  LooksInv' /\ DashStep /\ DetailStep
  <2>1. DetailLatest' /\ DetailStep
    BY <1>5, <1>b DEF DashboardAnswer
  <2>2. DashLatest' /\ DashStep
    BY <1>0, <1>5 DEF DashboardAnswer, LatestAnswer, DashLatest, DashStep
  <2>3. QED
    BY <2>1, <2>2 DEF LooksInv
<1>6. ASSUME NEW r \in Runs, SelectRun(r) PROVE LooksInv' /\ DashStep /\ DetailStep
  BY <1>0, <1>6, <1>a, DetailAsked DEF SelectRun, LooksInv, DetailStep
<1>7. CASE RefreshDetail
  BY <1>0, <1>7, <1>a, DetailAsked DEF RefreshDetail, LooksInv, DetailStep
<1>8. ASSUME NEW c \in detailCalls, DetailRead(c) PROVE LooksInv' /\ DashStep /\ DetailStep
  <2>1. PICK new : new = [c EXCEPT !.status = runStatus[c.id]]
    OBVIOUS
  <2>2. DOMAIN new = {"n", "id", "status"} /\ new.n = c.n /\ new.id = c.id
    BY <1>0, <2>1 DEF DetailLatest
  <2>3. detailCalls' \subseteq detailCalls \cup {new}
    BY <1>8, <2>1 DEF DetailRead
  <2>4. DetailLatest'
    BY <1>0, <1>8, <2>2, <2>3 DEF DetailRead, DetailLatest
  <2>5. QED
    BY <1>8, <1>a, <2>4 DEF DetailRead, LooksInv, DetailStep
<1>9. ASSUME NEW c \in detailCalls, NEW ok \in BOOLEAN, DetailAnswer(c, ok)
      PROVE  LooksInv' /\ DashStep /\ DetailStep
  <2>1. DetailLatest' /\ DetailStep
    BY <1>0, <1>9 DEF DetailAnswer, LatestDetail, DetailLatest, DetailStep
  <2>2. QED
    BY <1>9, <1>a, <2>1 DEF DetailAnswer, LooksInv
<1>10. CASE Attach
  BY <1>10, <1>a, <1>b DEF Attach, LooksInv
<1>11. CASE Receive
  <2>1. CASE UNCHANGED <<dashVars, detailVars>>
    BY <1>a, <1>b, <2>1 DEF LooksInv
  <2>2. CASE FetchDashboard(filter) /\ FetchDetail(selectedId)
             /\ UNCHANGED <<filter, dashboard, selectedId, detail>>
    BY <1>0, <2>2, DashAsked, DetailAsked DEF LooksInv, DashStep, DetailStep
  <2>3. QED
    BY <1>11, <2>1, <2>2 DEF Receive
<1>12. QED
  BY <1>1, <1>2, <1>3, <1>4, <1>5, <1>6, <1>7, <1>8, <1>9, <1>10, <1>11 DEF LiveNext

-----------------------------------------------------------------------------
(* Late answers of the schedule dialog and of a conversation left.         *)

\* The cron asked about is the one in the form.
PreviewInv == OpenForm /\ previewCall # NoCron => previewCall = form.cron
PreviewStep == preview' # preview /\ OpenForm => preview'.cron = form.cron

\* Every step keeps that, and only the answer for that cron is shown.
LEMMA PreviewStepInv ==
    PreviewInv /\ [ScheduleNext]_scheduleVars
        => PreviewInv' /\ [PreviewStep]_scheduleVars
<1> SUFFICES ASSUME PreviewInv, [ScheduleNext]_scheduleVars
             PROVE  PreviewInv' /\ PreviewStep
  OBVIOUS
<1>0. ASSUME UNCHANGED <<form, previewCall, preview>> PROVE PreviewInv' /\ PreviewStep
  BY <1>0 DEF PreviewInv, PreviewStep, OpenForm
<1>1. CASE UNCHANGED scheduleVars
  BY <1>0, <1>1 DEF scheduleVars, pageVars
<1>2. CASE OpenDialog \/ CloseDialog
  BY <1>2 DEF OpenDialog, CloseDialog, PreviewInv, PreviewStep, OpenForm
<1>3. ASSUME NEW f, Edited(f) PROVE PreviewInv' /\ PreviewStep
  BY <1>3 DEF Edited, PreviewInv, PreviewStep, OpenForm
<1>4. CASE setField
  <2>1. PICK f : Edited(f)
    BY <1>4 DEF setField
  <2>2. QED
    BY <1>3, <2>1
<1>5. ASSUME NEW c \in Crons, NEW ok \in BOOLEAN, PreviewAnswer(c, ok)
      PROVE  PreviewInv' /\ PreviewStep
  <2>1. PreviewInv'
    BY <1>5 DEF PreviewAnswer, PreviewInv, OpenForm
  <2>2. PreviewStep
    BY <1>5 DEF PreviewAnswer, ApplyPreview, PreviewInv, PreviewStep
  <2>3. QED
    BY <2>1, <2>2
<1>6. CASE loadAnswer
  <2>1. preview' = preview
    BY <1>6 DEF loadAnswer
  <2>2. CASE request.from = "dialog"
    BY <1>6, <2>1, <2>2 DEF loadAnswer, PreviewInv, PreviewStep, OpenForm
  <2>3. CASE request.from # "dialog" /\ ~OpenForm
    BY <1>0, <1>6, <2>1, <2>3 DEF loadAnswer, Load
  <2>4. CASE request.from # "dialog" /\ OpenForm
    <3>1. form' = Fresh(editing) /\ previewCall' = editing.cron
      BY <1>6, <2>4 DEF loadAnswer, Load
    <3>2. editing = NoRow => editing.cron = NoCron
      BY DEF NoRow, NoCron
    <3>3. editing # NoRow => form'.cron = editing.cron
      BY <3>1 DEF Fresh, FormOf
    <3>4. QED
      BY <2>1, <3>1, <3>2, <3>3 DEF PreviewInv, PreviewStep
  <2>5. QED
    BY <2>2, <2>3, <2>4
<1>7. CASE \/ saveSchedule \/ toggleActive \/ handleDelete \/ saveFailed \/ createSchedule
           \/ UpdateRead \/ UpdateWrite \/ deleteSchedule
           \/ TickRead \/ Advance \/ Launch \/ RunnerCrash \/ TimePasses
  BY <1>0, <1>7 DEF saveSchedule, toggleActive, handleDelete, saveFailed, createSchedule,
       UpdateRead, UpdateWrite, deleteSchedule, TickRead, Advance, Launch, RunnerCrash,
       TimePasses, pageVars
<1>8. QED
  BY <1>1, <1>2, <1>4, <1>5, <1>6, <1>7 DEF ScheduleNext

\* A stream under way belongs to the session shown, or to one that has no id yet.
ReplyInv == opens \in Nat /\ (reply # NoReply => sessionId \in {NoSession, reply.session})
LeftStep ==
    (\E s \in Sessions : sessionId' = s /\ sessionId # s) =>
        (reply # NoReply /\ sessionId' = reply.session /\ sessionId = NoSession)
           \/ opens' > opens

\* Every step keeps that; the panel moves to a session by an event or an opening.
LEMMA ReplyStepInv ==
    ReplyInv /\ [ChatNext]_chatVars => ReplyInv' /\ [LeftStep]_chatVars
<1> SUFFICES ASSUME ReplyInv, [ChatNext]_chatVars PROVE ReplyInv' /\ LeftStep
  OBVIOUS
<1>1. CASE UNCHANGED chatVars
  BY <1>1 DEF chatVars, ReplyInv, LeftStep
<1>2. CASE send
  BY <1>2 DEF send, ReplyInv, LeftStep
<1>3. ASSUME NEW ms, NEW l, Event(ms, l) PROVE ReplyInv' /\ LeftStep
  BY <1>3 DEF Event, ReplyInv, LeftStep
<1>4. CASE Delta \/ TextEvent
  <2>1. PICK ms, l : Event(ms, l)
    BY <1>4 DEF Delta, TextEvent
  <2>2. QED
    BY <1>3, <2>1
<1>5. CASE ChatStreamEnds \/ stop
  BY <1>5 DEF ChatStreamEnds, stop, ReplyInv, LeftStep
<1>6. ASSUME NEW s \in Sessions, openSession(s) PROVE ReplyInv' /\ LeftStep
  BY <1>6 DEF openSession, AbortRead, Abort, ReplyInv, LeftStep
<1>7. CASE startNewSession
  BY <1>7 DEF startNewSession, AbortRead, Abort, ReplyInv, LeftStep
<1>8. ASSUME NEW h \in histories, NEW ok \in BOOLEAN, HistoryRead(h) \/ HistoryAnswer(h, ok)
      PROVE  ReplyInv' /\ LeftStep
  BY <1>8 DEF HistoryRead, HistoryAnswer, ReplyInv, LeftStep
<1>9. QED
  BY <1>1, <1>2, <1>4, <1>5, <1>6, <1>7, <1>8 DEF ChatNext

\* For any number of polls, selections, edits and conversations, and answers in any
\* order: what was superseded changes nothing on screen.
THEOREM LateAnswersLost == Spec => LateAnswersDropped
<1>1. Init => LooksInv /\ PreviewInv /\ ReplyInv
  <2>1. Init => LooksInv
    BY LooksInitInv DEF Init
  <2>2. Init => PreviewInv
    BY DEF Init, ScheduleInit, PreviewInv, OpenForm
  <2>3. Init => ReplyInv
    BY DEF Init, ChatInit, ReplyInv
  <2>4. QED
    BY <2>1, <2>2, <2>3
<1>2. Spec => [][DashStep]_liveVars /\ [][DetailStep]_liveVars
  BY <1>1, LooksStepInv, PageSteps, PTL DEF Spec
<1>3. Spec => [][PreviewStep]_scheduleVars
  BY <1>1, PreviewStepInv, PageSteps, PTL DEF Spec
<1>4. Spec => [][LeftStep]_chatVars
  BY <1>1, ReplyStepInv, PageSteps, PTL DEF Spec
<1>5. QED
  BY <1>2, <1>3, <1>4 DEF LateAnswersDropped, DashboardNeverGoesBack, DetailOfSelected,
     PreviewCurrent, LeftForGood, DashStep, DetailStep, PreviewStep, LeftStep

-----------------------------------------------------------------------------
(* The live log of a run.                                                  *)

\* Events that reach a view of run r that has shown the lines in "seen": lines of r,
\* "completed" at the end only, and nothing missing while more can come.
Feeds(s, r, seen) ==
    /\ s \in Seq(Nat) /\ ToSet(s) \subseteq 0 .. printed[r]
    /\ \A i \in DOMAIN s : s[i] = Completed => i = Len(s) /\ runStatus[r] # "running"
    /\ runStatus[r] = "running" \/ Completed \in ToSet(s)
          => 1 .. printed[r] \subseteq seen \cup ToSet(s)

HubTyped ==
    /\ printed \in [Runs -> Nat] /\ DOMAIN runStatus = Runs /\ DOMAIN buffers = Runs
    /\ selectedId \in Runs \cup {NoRun} /\ cleared \in BOOLEAN
    /\ liveLogs \in Seq(Nat) /\ (selectedId = NoRun => liveLogs = <<>>)
    /\ selectedId \in Runs => ToSet(liveLogs) \subseteq 1 .. printed[selectedId]
BuffersFeed == \A r \in Runs : Feeds(buffers[r], r, {})
\* A log that the user emptied has an arbitrary part behind it.
StreamFeeds ==
    /\ stream # "on" => subscribed = NoRun /\ queue = <<>>
    /\ stream = "on" => /\ selectedId \in Runs /\ subscribed = selectedId
                        /\ \E seen : /\ Feeds(queue, selectedId, seen)
                                     /\ ~cleared => seen = ToSet(liveLogs)
    /\ stream = "done" => /\ selectedId \in Runs /\ runStatus[selectedId] # "running"
                          /\ ~cleared => ToSet(liveLogs) = 1 .. printed[selectedId]
LogInv == HubTyped /\ BuffersFeed /\ StreamFeeds

\* The elements of a sequence that grows, and of one that is read.
LEMMA ToSetAppend ==
    ASSUME NEW s \in Seq(Nat), NEW e \in Nat
    PROVE  ToSet(Append(s, e)) = ToSet(s) \cup {e}
<1>1. /\ DOMAIN Append(s, e) = 1 .. Len(s) + 1 /\ DOMAIN s = 1 .. Len(s) /\ Len(s) \in Nat
      /\ \A i \in 1 .. Len(s) : Append(s, e)[i] = s[i]
      /\ Append(s, e)[Len(s) + 1] = e
  BY AppendProperties, LenProperties
<1>2. \A i \in 1 .. Len(s) + 1 : i \in 1 .. Len(s) \/ i = Len(s) + 1
  BY <1>1
<1>3. QED
  BY <1>1, <1>2 DEF ToSet

\* The elements of a sequence that is read from its head.
LEMMA ToSetHeadTail ==
    ASSUME NEW s \in Seq(Nat), s # <<>>
    PROVE  /\ ToSet(s) = {Head(s)} \cup ToSet(Tail(s))
           /\ Head(s) \in Nat /\ Tail(s) \in Seq(Nat) /\ Head(s) = s[1] /\ Len(s) \in Nat \ {0}
           /\ DOMAIN s = 1 .. Len(s) /\ Len(Tail(s)) = Len(s) - 1
           /\ DOMAIN Tail(s) = 1 .. Len(s) - 1
           /\ \A i \in DOMAIN Tail(s) : Tail(s)[i] = s[i + 1]
<1>1. /\ DOMAIN s = 1 .. Len(s) /\ Len(s) \in Nat \ {0}
      /\ DOMAIN Tail(s) = 1 .. Len(s) - 1 /\ Head(s) = s[1]
      /\ \A i \in DOMAIN Tail(s) : Tail(s)[i] = s[i + 1]
      /\ Head(s) \in Nat /\ Tail(s) \in Seq(Nat) /\ Len(Tail(s)) = Len(s) - 1
  BY HeadTailProperties, LenProperties, EmptySeq
<1>2. \A i \in 1 .. Len(s) : i = 1 \/ (i - 1 \in 1 .. Len(s) - 1 /\ (i - 1) + 1 = i)
  BY <1>1
<1>3. \A i \in 1 .. Len(s) - 1 : i + 1 \in 1 .. Len(s)
  BY <1>1
<1>4. ToSet(s) \subseteq {Head(s)} \cup ToSet(Tail(s))
  <2> SUFFICES ASSUME NEW i \in 1 .. Len(s) PROVE s[i] \in {Head(s)} \cup ToSet(Tail(s))
    BY <1>1 DEF ToSet
  <2>1. CASE i = 1
    BY <1>1, <2>1
  <2>2. CASE i # 1
    <3>1. PICK j \in DOMAIN Tail(s) : j + 1 = i
      BY <1>1, <1>2, <2>2
    <3>2. QED
      BY <1>1, <3>1 DEF ToSet
  <2>3. QED
    BY <2>1, <2>2
<1>5. Head(s) \in ToSet(s) /\ ToSet(Tail(s)) \subseteq ToSet(s)
  BY <1>1, <1>3 DEF ToSet
<1>6. QED
  BY <1>1, <1>4, <1>5

\* A feed of a run that does not move stays one; so does the empty one of a run
\* that has ended.
LEMMA FeedStays ==
    ASSUME NEW s, NEW r, NEW seen, Feeds(s, r, seen),
           printed'[r] = printed[r], runStatus'[r] = runStatus[r]
    PROVE  Feeds(s, r, seen)'
BY DEF Feeds

\* Nothing is left to read of a run that has ended.
LEMMA FeedEnded ==
    ASSUME NEW r, NEW seen, printed'[r] \in Nat, runStatus'[r] # "running"
    PROVE  Feeds(<<>>, r, seen)'
<1>1. <<>> \in Seq(Nat) /\ DOMAIN <<>> = {}
  BY EmptySeq
<1>2. ToSet(<<>>) = {}
  BY <1>1 DEF ToSet
<1>3. QED
  BY <1>1, <1>2 DEF Feeds
\* A line is printed, and "completed" follows the last one.
LEMMA FeedLine ==
    ASSUME NEW s, NEW r \in Runs, NEW seen, NEW n \in Nat, Feeds(s, r, seen),
           runStatus[r] = "running", runStatus'[r] = runStatus[r],
           printed[r] \in Nat, n = printed[r] + 1, printed'[r] = n
    PROVE  Feeds(Append(s, n), r, seen)'
<1>1. /\ Append(s, n) \in Seq(Nat) /\ ToSet(Append(s, n)) = ToSet(s) \cup {n}
      /\ DOMAIN Append(s, n) = 1 .. Len(s) + 1 /\ DOMAIN s = 1 .. Len(s) /\ Len(s) \in Nat
      /\ \A i \in 1 .. Len(s) : Append(s, n)[i] = s[i]
      /\ Append(s, n)[Len(s) + 1] = n
  BY AppendProperties, LenProperties, ToSetAppend DEF Feeds
<1>2. \A i \in DOMAIN Append(s, n) : Append(s, n)[i] # Completed
  BY <1>1 DEF Feeds, Completed
<1>3. ToSet(Append(s, n)) \subseteq 0 .. n /\ 1 .. n \subseteq seen \cup ToSet(Append(s, n))
  BY <1>1 DEF Feeds
<1>4. QED
  BY <1>1, <1>2, <1>3 DEF Feeds

\* The end of a run is announced after its lines.
LEMMA FeedEnd ==
    ASSUME NEW s, NEW r \in Runs, NEW seen, Feeds(s, r, seen),
           runStatus[r] = "running", runStatus'[r] = "success",
           printed[r] \in Nat, printed'[r] = printed[r]
    PROVE  Feeds(Append(s, Completed), r, seen)'
<1>1. /\ Append(s, Completed) \in Seq(Nat) /\ ToSet(Append(s, Completed)) = ToSet(s) \cup {Completed}
      /\ DOMAIN Append(s, Completed) = 1 .. Len(s) + 1 /\ DOMAIN s = 1 .. Len(s)
      /\ Len(s) \in Nat /\ Len(Append(s, Completed)) = Len(s) + 1
      /\ \A i \in 1 .. Len(s) : Append(s, Completed)[i] = s[i]
  BY AppendProperties, LenProperties, ToSetAppend DEF Feeds, Completed
<1>2. \A i \in DOMAIN Append(s, Completed) :
          Append(s, Completed)[i] = Completed => i = Len(s) + 1
  BY <1>1 DEF Feeds
<1>3. ToSet(Append(s, Completed)) \subseteq 0 .. printed[r]
      /\ 1 .. printed[r] \subseteq seen \cup ToSet(Append(s, Completed))
  BY <1>1 DEF Feeds, Completed
<1>4. QED
  BY <1>1, <1>2, <1>3 DEF Feeds

\* A line that is shown leaves the queue; what was shown may be more.
LEMMA FeedRead ==
    ASSUME NEW s, NEW r, NEW seen, Feeds(s, r, seen), s # <<>>, Head(s) # Completed
    PROVE  /\ Feeds(Tail(s), r, seen \cup {Head(s)})
           /\ Head(s) \in 1 .. printed[r]
<1>1. /\ ToSet(s) = {Head(s)} \cup ToSet(Tail(s))
      /\ Head(s) \in Nat /\ Tail(s) \in Seq(Nat) /\ Len(s) \in Nat \ {0}
      /\ DOMAIN s = 1 .. Len(s) /\ Len(Tail(s)) = Len(s) - 1
      /\ DOMAIN Tail(s) = 1 .. Len(s) - 1
      /\ \A i \in DOMAIN Tail(s) : Tail(s)[i] = s[i + 1]
  BY ToSetHeadTail DEF Feeds
<1>2. \A i \in DOMAIN Tail(s) : Tail(s)[i] = Completed =>
          i = Len(Tail(s)) /\ runStatus[r] # "running"
  BY <1>1 DEF Feeds
<1>3. Head(s) \in 1 .. printed[r] /\ ToSet(Tail(s)) \subseteq 0 .. printed[r]
  BY <1>1 DEF Feeds, Completed
<1>4. runStatus[r] = "running" \/ Completed \in ToSet(Tail(s))
          => 1 .. printed[r] \subseteq (seen \cup {Head(s)}) \cup ToSet(Tail(s))
  BY <1>1 DEF Feeds
<1>5. QED
  BY <1>1, <1>2, <1>3, <1>4 DEF Feeds

\* What feeds a view that has seen nothing feeds any view.
LEMMA FeedMore ==
    ASSUME NEW s, NEW r, NEW seen, Feeds(s, r, {}) PROVE Feeds(s, r, seen)
BY DEF Feeds
\* When "completed" is read, it is all that was left.
LEMMA FeedCompleted ==
    ASSUME NEW s, NEW r, NEW seen, Feeds(s, r, seen), s # <<>>, Head(s) = Completed
    PROVE  1 .. printed[r] \subseteq seen /\ runStatus[r] # "running"
<1>1. /\ Head(s) = s[1] /\ Len(s) \in Nat \ {0} /\ DOMAIN s = 1 .. Len(s)
  BY ToSetHeadTail DEF Feeds
<1>2. Len(s) = 1 /\ runStatus[r] # "running"
  BY <1>1 DEF Feeds
<1>3. ToSet(s) = {Completed}
  BY <1>1, <1>2 DEF ToSet
<1>4. QED
  BY <1>2, <1>3 DEF Feeds, Completed

\* Init establishes the invariant.
LEMMA LogInitInv == LiveInit => LogInv
<1> SUFFICES ASSUME LiveInit PROVE LogInv
  OBVIOUS
<1>1. <<>> \in Seq(Nat) /\ DOMAIN <<>> = {} /\ ToSet(<<>>) = {}
  <2>1. <<>> \in Seq(Nat) /\ DOMAIN <<>> = {}
    BY EmptySeq
  <2>2. QED
    BY <2>1 DEF ToSet
<1>2. HubTyped
  BY <1>1, LiveAssumption DEF LiveInit, HubTyped
<1>3. BuffersFeed
  BY <1>1 DEF LiveInit, BuffersFeed, Feeds
<1>4. StreamFeeds
  BY DEF LiveInit, StreamFeeds
<1>5. QED
  BY <1>2, <1>3, <1>4 DEF LogInv

\* The view leaves the hub: a buffer is dropped when its run has ended.
LEMMA UnsubscribeFeeds ==
    ASSUME LogInv, unsubscribe, UNCHANGED <<runStatus, printed>>
    PROVE  BuffersFeed' /\ DOMAIN buffers' = Runs /\ subscribed' = NoRun /\ queue' = <<>>
<1>1. ASSUME NEW r \in Runs PROVE Feeds(buffers[r], r, {})'
  <2>1. CASE r = subscribed /\ runStatus[r] # "running"
    <3>1. buffers'[r] = <<>> /\ printed'[r] \in Nat /\ runStatus'[r] # "running"
      BY <2>1 DEF unsubscribe, LogInv, HubTyped
    <3>2. QED
      BY <3>1, FeedEnded
  <2>2. CASE ~(r = subscribed /\ runStatus[r] # "running")
    <3>1. PICK s : s = buffers[r]
      OBVIOUS
    <3>2. Feeds(s, r, {})'
      BY <3>1, FeedStays DEF LogInv, BuffersFeed
    <3>3. buffers'[r] = s
      BY <2>2, <3>1 DEF unsubscribe
    <3>4. QED
      BY <3>2, <3>3
  <2>3. QED
    BY <2>1, <2>2
<1>2. QED
  BY <1>1 DEF BuffersFeed, unsubscribe

\* Steps that leave the hub, the stream and the log alone.
LEMMA LogAlone ==
    ASSUME LogInv, UNCHANGED <<hubVars, selectedId, stream, liveLogs, cleared>>
    PROVE  LogInv'
BY DEF hubVars, LogInv, HubTyped, BuffersFeed, StreamFeeds, Feeds

\* Steps that detach the view.
LEMMA DetachSteps ==
    ASSUME LogInv, Detach, cleared' \in BOOLEAN,
           \/ UNCHANGED <<selectedId, liveLogs>>
           \/ selectedId' \in Runs /\ liveLogs' = <<>>
    PROVE  LogInv'
<1>1. BuffersFeed' /\ DOMAIN buffers' = Runs /\ subscribed' = NoRun /\ queue' = <<>>
  BY UnsubscribeFeeds DEF Detach
<1>2. stream' = "off" /\ UNCHANGED <<runStatus, printed>>
  BY DEF Detach
<1>3. StreamFeeds'
  BY <1>1, <1>2 DEF StreamFeeds
<1>4. <<>> \in Seq(Nat) /\ ToSet(<<>>) = {}
  <2>1. <<>> \in Seq(Nat) /\ DOMAIN <<>> = {}
    BY EmptySeq
  <2>2. QED
    BY <2>1 DEF ToSet
<1>5. HubTyped'
  BY <1>1, <1>2, <1>4, LiveAssumption DEF LogInv, HubTyped
<1>6. QED
  BY <1>1, <1>3, <1>5 DEF LogInv

\* The log is emptied under the stream.
LEMMA ClearStep ==
    ASSUME LogInv, UNCHANGED <<hubVars, selectedId, stream>>, selectedId \in Runs,
           liveLogs' = <<>>, cleared'
    PROVE  LogInv'
<1>1. <<>> \in Seq(Nat) /\ ToSet(<<>>) = {}
  <2>1. <<>> \in Seq(Nat) /\ DOMAIN <<>> = {}
    BY EmptySeq
  <2>2. QED
    BY <2>1 DEF ToSet
<1>2. HubTyped' /\ BuffersFeed'
  BY <1>1, LiveAssumption DEF hubVars, LogInv, HubTyped, BuffersFeed, Feeds
<1>3. StreamFeeds'
  BY DEF hubVars, LogInv, StreamFeeds, Feeds
<1>4. QED
  BY <1>2, <1>3 DEF LogInv

\* The runner publishes an event.
LEMMA PublishSteps ==
    ASSUME LogInv, NEW r \in Runs, PrintLine(r) \/ RunEnds(r) PROVE LogInv'
<1> DEFINE event == IF PrintLine(r) THEN printed[r] + 1 ELSE Completed
<1>1. /\ runStatus[r] = "running" /\ printed[r] \in Nat
      /\ \A q \in Runs \ {r} : printed'[q] = printed[q] /\ runStatus'[q] = runStatus[q]
      /\ printed' \in [Runs -> Nat] /\ DOMAIN runStatus' = Runs /\ DOMAIN buffers' = Runs
      /\ UNCHANGED <<selectedId, stream, liveLogs, cleared, subscribed>>
  <2>1. UNCHANGED <<selectedId, stream, liveLogs, cleared, subscribed>>
    BY DEF PrintLine, RunEnds, Publish, detailVars
  <2>2. runStatus[r] = "running" /\ printed[r] \in Nat /\ printed' \in [Runs -> Nat]
    BY DEF PrintLine, RunEnds, LogInv, HubTyped
  <2>3. DOMAIN runStatus' = Runs /\ DOMAIN buffers' = Runs
    BY DEF PrintLine, RunEnds, Publish, LogInv, HubTyped
  <2>4. \A q \in Runs \ {r} : printed'[q] = printed[q] /\ runStatus'[q] = runStatus[q]
    BY DEF PrintLine, RunEnds, LogInv, HubTyped
  <2>5. QED
    BY <2>1, <2>2, <2>3, <2>4
<1>2. /\ buffers' = [buffers EXCEPT ![r] = IF event = Completed /\ subscribed # r THEN <<>>
                                           ELSE Append(@, event)]
      /\ queue' = IF subscribed = r THEN Append(queue, event) ELSE queue
  <2>1. CASE PrintLine(r)
    <3>1. printed'[r] = printed[r] + 1
      BY <2>1 DEF PrintLine, LogInv, HubTyped
    <3>2. event = printed'[r]
      BY <2>1, <3>1
    <3> HIDE DEF event
    <3>3. QED
      BY <2>1, <3>2 DEF PrintLine, Publish
  <2>2. CASE ~PrintLine(r)
    BY <2>2 DEF RunEnds, Publish
  <2>3. QED
    BY <2>1, <2>2
<1>3. \/ event = printed[r] + 1 /\ printed'[r] = event /\ runStatus'[r] = runStatus[r]
      \/ event = Completed /\ printed'[r] = printed[r] /\ runStatus'[r] = "success"
  BY DEF PrintLine, RunEnds, LogInv, HubTyped
<1>4. PICK e : e = event
  OBVIOUS
<1> HIDE DEF event
<1>5. ASSUME NEW s, NEW seen, Feeds(s, r, seen) PROVE Feeds(Append(s, e), r, seen)'
  BY <1>1, <1>3, <1>4, <1>5, FeedLine, FeedEnd
<1>6. BuffersFeed'
  <2> SUFFICES ASSUME NEW q \in Runs PROVE Feeds(buffers[q], q, {})'
    BY DEF BuffersFeed
  <2>1. PICK s : s = buffers[q]
    OBVIOUS
  <2>2. Feeds(s, q, {})
    BY <2>1 DEF LogInv, BuffersFeed
  <2>3. CASE q # r
    <3>1. buffers'[q] = s
      BY <1>2, <2>1, <2>3 DEF LogInv, HubTyped
    <3>2. Feeds(s, q, {})'
      BY <1>1, <2>2, <2>3, FeedStays
    <3>3. QED
      BY <3>1, <3>2
  <2>4. CASE q = r /\ event = Completed /\ subscribed # r
    <3>1. buffers'[q] = <<>>
      BY <1>2, <2>4 DEF LogInv, HubTyped
    <3>2. printed'[q] \in Nat /\ runStatus'[q] # "running"
      BY <1>1, <1>3, <2>4 DEF Completed
    <3>3. QED
      BY <3>1, <3>2, FeedEnded
  <2>5. CASE q = r /\ ~(event = Completed /\ subscribed # r)
    <3>1. buffers'[q] = Append(s, e)
      BY <1>2, <1>4, <2>1, <2>5 DEF LogInv, HubTyped
    <3>2. Feeds(Append(s, e), q, {})'
      BY <1>5, <2>2, <2>5
    <3>3. QED
      BY <3>1, <3>2
  <2>6. QED
    BY <2>3, <2>4, <2>5
<1>7. HubTyped'
  <2>1. printed[r] <= printed'[r]
    BY <1>1, <1>3
  <2>2. \A q \in Runs : 1 .. printed[q] \subseteq 1 .. printed'[q]
    BY <1>1, <2>1 DEF LogInv, HubTyped
  <2>3. QED
    BY <1>1, <2>2 DEF LogInv, HubTyped
<1>8. StreamFeeds'
  <2>1. CASE stream = "on"
    <3>1. PICK seen : Feeds(queue, selectedId, seen) /\ (~cleared => seen = ToSet(liveLogs))
      BY <2>1 DEF LogInv, StreamFeeds
    <3>2. selectedId \in Runs /\ subscribed = selectedId
      BY <2>1 DEF LogInv, StreamFeeds
    <3>3. PICK s, q : s = queue /\ q = selectedId
      OBVIOUS
    <3>4. Feeds(queue, selectedId, seen)'
      <4>1. CASE q = r
        <5>1. queue' = Append(s, e) /\ selectedId' = r
          BY <1>1, <1>2, <1>4, <3>2, <3>3, <4>1
        <5>2. Feeds(Append(s, e), r, seen)'
          BY <1>5, <3>1, <3>3, <4>1
        <5>3. QED
          BY <5>1, <5>2
      <4>2. CASE q # r
        <5>1. queue' = s /\ selectedId' = q
          BY <1>1, <1>2, <3>2, <3>3, <4>2
        <5>2. Feeds(s, q, seen)'
          BY <1>1, <3>1, <3>2, <3>3, <4>2, FeedStays
        <5>3. QED
          BY <5>1, <5>2
      <4>3. QED
        BY <4>1, <4>2
    <3>5. QED
      BY <1>1, <2>1, <3>1, <3>2, <3>4 DEF StreamFeeds
  <2>2. CASE stream # "on"
    <3>1. subscribed = NoRun /\ queue = <<>>
      BY <2>2 DEF LogInv, StreamFeeds
    <3>2. queue' = <<>>
      BY <1>2, <3>1, LiveAssumption
    <3>3. stream = "done" => selectedId \in Runs \ {r}
      BY <1>1 DEF LogInv, StreamFeeds
    <3>4. QED
      BY <1>1, <2>2, <3>1, <3>2, <3>3 DEF LogInv, StreamFeeds
  <2>3. QED
    BY <2>1, <2>2
<1>9. QED
  BY <1>6, <1>7, <1>8 DEF LogInv

\* The view attaches, and takes over what the hub has buffered.
LEMMA AttachStep == ASSUME LogInv, Attach PROVE LogInv'
<1>1. /\ UNCHANGED <<runStatus, printed, buffers, selectedId, liveLogs>>
      /\ stream' = "on" /\ subscribed' = selectedId /\ queue' = buffers[selectedId]
      /\ ~cleared' /\ cleared' \in BOOLEAN /\ selectedId \in Runs
  BY DEF Attach, subscribe, Wanted, detailVars, LogInv, HubTyped
<1>2. PICK s, r, seen : s = buffers[selectedId] /\ r = selectedId /\ seen = ToSet(liveLogs)
  OBVIOUS
<1>3. Feeds(s, r, seen)'
  BY <1>1, <1>2, FeedMore, FeedStays DEF LogInv, BuffersFeed
<1>4. queue' = s /\ selectedId' = r /\ ToSet(liveLogs') = seen
  BY <1>1, <1>2
<1>5. Feeds(queue, selectedId, seen)'
  BY <1>3, <1>4
<1>6. StreamFeeds'
  BY <1>1, <1>4, <1>5 DEF StreamFeeds
<1>7. HubTyped' /\ BuffersFeed'
  BY <1>1 DEF LogInv, HubTyped, BuffersFeed, Feeds
<1>8. QED
  BY <1>6, <1>7 DEF LogInv

\* A line is shown, or the end of the run is reported.
LEMMA ReceiveStep == ASSUME LogInv, Receive PROVE LogInv'
<1>0. /\ stream = "on" /\ queue # <<>> /\ selectedId \in Runs /\ subscribed = selectedId
      /\ UNCHANGED <<runStatus, printed, cleared>> /\ selectedId' = selectedId
  BY DEF Receive, LogInv, StreamFeeds, detailVars
<1>1. PICK seen : Feeds(queue, selectedId, seen) /\ (~cleared => seen = ToSet(liveLogs))
  BY <1>0 DEF LogInv, StreamFeeds
<1>2. PICK s, r, l : s = queue /\ r = selectedId /\ l = liveLogs
  OBVIOUS
<1>3. CASE Head(queue) # Completed
  <2>1. /\ queue' = Tail(s) /\ liveLogs' = Append(l, Head(s))
        /\ UNCHANGED <<stream, subscribed, buffers>>
    BY <1>2, <1>3 DEF Receive
  <2>2. Feeds(Tail(s), r, seen \cup {Head(s)}) /\ Head(s) \in 1 .. printed[r]
    BY <1>0, <1>1, <1>2, <1>3, FeedRead
  <2>3. l \in Seq(Nat) /\ Head(s) \in Nat /\ ToSet(l) \subseteq 1 .. printed[r]
    BY <1>0, <1>2, <2>2 DEF LogInv, HubTyped
  <2>4. /\ Append(l, Head(s)) \in Seq(Nat)
        /\ ToSet(Append(l, Head(s))) = ToSet(l) \cup {Head(s)}
    BY <2>3, ToSetAppend, AppendProperties
  <2>5. HubTyped'
    BY <1>0, <1>2, <2>1, <2>2, <2>3, <2>4, LiveAssumption DEF LogInv, HubTyped
  <2>6. BuffersFeed'
    BY <1>0, <2>1 DEF LogInv, BuffersFeed, Feeds
  <2>7. PICK more : more = seen \cup {Head(s)}
    OBVIOUS
  <2>8. Feeds(queue, selectedId, more)'
    <3>1. Feeds(Tail(s), r, more)'
      BY <1>0, <2>2, <2>7, FeedStays
    <3>2. queue' = Tail(s) /\ selectedId' = r
      BY <1>0, <1>2, <2>1
    <3>3. QED
      BY <3>1, <3>2
  <2>9. ~cleared' => more = ToSet(liveLogs')
    BY <1>0, <1>1, <1>2, <2>1, <2>4, <2>7
  <2>10. StreamFeeds'
    BY <1>0, <2>1, <2>8, <2>9 DEF StreamFeeds
  <2>11. QED
    BY <2>5, <2>6, <2>10 DEF LogInv
<1>4. CASE Head(queue) = Completed
  <2>1. stream' = "done" /\ unsubscribe /\ UNCHANGED liveLogs
    BY <1>4 DEF Receive
  <2>2. BuffersFeed' /\ DOMAIN buffers' = Runs /\ subscribed' = NoRun /\ queue' = <<>>
    BY <1>0, <2>1, UnsubscribeFeeds
  <2>3. 1 .. printed[r] \subseteq seen /\ runStatus[r] # "running"
    BY <1>0, <1>1, <1>2, <1>4, FeedCompleted
  <2>4. HubTyped'
    BY <1>0, <2>1, <2>2 DEF LogInv, HubTyped
  <2>5. ~cleared => ToSet(liveLogs) = 1 .. printed[selectedId]
    BY <1>0, <1>1, <1>2, <2>3 DEF LogInv, HubTyped
  <2>6. StreamFeeds'
    BY <1>0, <1>2, <2>1, <2>2, <2>3, <2>5 DEF StreamFeeds
  <2>7. QED
    BY <2>2, <2>4, <2>6 DEF LogInv
<1>5. QED
  BY <1>3, <1>4

\* Every step keeps the invariant.
LEMMA LogStepInv == LogInv /\ [LiveNext]_liveVars => LogInv'
<1> SUFFICES ASSUME LogInv, [LiveNext]_liveVars PROVE LogInv'
  OBVIOUS
<1>0. cleared \in BOOLEAN
  BY DEF LogInv, HubTyped
<1>1. CASE UNCHANGED liveVars
  BY <1>1, LogAlone DEF liveVars, detailVars
<1>2. ASSUME NEW r \in Runs, PrintLine(r) \/ RunEnds(r) PROVE LogInv'
  BY <1>2, PublishSteps
<1>3. ASSUME NEW f \in Filters, SetFilter(f) PROVE LogInv'
  BY <1>0, <1>3, DetachSteps DEF SetFilter, detailVars
<1>4. CASE RefreshDashboard \/ RefreshDetail
  BY <1>4, LogAlone DEF RefreshDashboard, RefreshDetail, detailVars
<1>5. ASSUME NEW c \in dashCalls, NEW ok \in BOOLEAN, DashboardAnswer(c, ok) PROVE LogInv'
  BY <1>5, LogAlone DEF DashboardAnswer, detailVars
<1>6. ASSUME NEW r \in Runs, SelectRun(r) PROVE LogInv'
  <2>1. CASE r = selectedId
    BY <1>6, <2>1, ClearStep DEF SelectRun
  <2>2. CASE r # selectedId
    BY <1>6, <2>2, DetachSteps DEF SelectRun
  <2>3. QED
    BY <2>1, <2>2
<1>7. ASSUME NEW c \in detailCalls, DetailRead(c) PROVE LogInv'
  BY <1>7, LogAlone DEF DetailRead
<1>8. ASSUME NEW c \in detailCalls, NEW ok \in BOOLEAN, DetailAnswer(c, ok) PROVE LogInv'
  <2>1. CASE ok /\ c.n = detailSequence
    BY <1>0, <1>8, <2>1, DetachSteps DEF DetailAnswer, LatestDetail
  <2>2. CASE ~(ok /\ c.n = detailSequence)
    BY <1>8, <2>2, LogAlone DEF DetailAnswer, LatestDetail
  <2>3. QED
    BY <2>1, <2>2
<1>9. QED
  BY <1>1, <1>2, <1>3, <1>4, <1>5, <1>6, <1>7, <1>8, AttachStep, ReceiveStep DEF LiveNext

\* For any runs printing any number of lines: when the view reports the end of a run,
\* its log holds every line the run printed, and no other.
THEOREM LogComplete == Spec => []LiveLogComplete
<1>1. Init => LiveInit
  BY DEF Init
<1>2. LogInv => LiveLogComplete
  BY DEF LogInv, StreamFeeds, LiveLogComplete
<1>3. QED
  BY <1>1, <1>2, LogInitInv, LogStepInv, PageSteps, PTL DEF Spec

-----------------------------------------------------------------------------
(* The wizard of a data load.                                              *)

IsWizard(w) == DOMAIN w = {"type", "connection", "tables", "location", "cursor", "initial",
                           "destination", "merge", "key", "partition"}

\* What handleSave has checked, and what Payload has emptied.
Sendable(p) ==
    /\ p.tables # {} /\ (p.merge => p.key)
    /\ p.partition => p.destination = "ducklake"
    /\ p.type = "sql_database" => p.connection # NoConnection
    /\ p.type = "rest_api" => p.location \/ p.connection # NoConnection
    /\ p.type = "filesystem" => /\ p.connection = NoConnection
                                /\ p.location /\ Cardinality(p.tables) = 1

WizardInv ==
    /\ IsWizard(wizard) /\ IsWizard(payload) /\ IsWizard(source)
    /\ payload # NoWizard => Sendable(payload)
    /\ RefusedForInitialOnly

\* Init establishes it.
LEMMA WizardInitInv == WizardInit => WizardInv
BY DEF WizardInit, WizardInv, IsWizard, NoWizard, NoSource, BlankWizard,
       RefusedForInitialOnly

\* A wizard whose fields were changed is still one.
LEMMA EditedWizard ==
    ASSUME WizardInv, NEW w, IsWizard(w), Edit(w) PROVE WizardInv'
BY DEF Edit, WizardInv, RefusedForInitialOnly

\* The validation finds nothing but an initial value without a cursor.
LEMMA SendableValidates ==
    ASSUME NEW p, Sendable(p) PROVE validateIngestSource(p) \in {"none", "initial"}
BY DEF Sendable, validateIngestSource

\* Every step keeps the invariant.
LEMMA WizardStepInv == WizardInv /\ [WizardNext]_wizardVars => WizardInv'
<1> SUFFICES ASSUME WizardInv, [WizardNext]_wizardVars PROVE WizardInv'
  OBVIOUS
<1>0. IsWizard(NoWizard) /\ IsWizard(BlankWizard("sql_database")) /\ NoSource = NoWizard
  BY DEF IsWizard, NoWizard, NoSource, BlankWizard
<1>1. CASE UNCHANGED <<wizard, source, payload, refusal>>
  BY <1>1 DEF WizardInv, RefusedForInitialOnly
<1>2. CASE OpenWizard \/ CloseWizard \/ DeleteSource
  BY <1>0, <1>2 DEF OpenWizard, CloseWizard, DeleteSource, WizardInv, RefusedForInitialOnly
<1>3. CASE SetSourceType
  <2>1. PICK t \in SourceTypes : Edit(SwitchType(t))
    BY <1>3 DEF SetSourceType
  <2>2. PICK w : w = SwitchType(t)
    OBVIOUS
  <2>3. IsWizard(w)
    BY <2>2 DEF SwitchType, WizardInv, IsWizard
  <2>4. QED
    BY <2>1, <2>2, <2>3, EditedWizard
<1>4. CASE SetConnection
  <2>1. PICK c : Edit([wizard EXCEPT !.connection = c, !.tables = {}])
    BY <1>4 DEF SetConnection
  <2>2. PICK w : w = [wizard EXCEPT !.connection = c, !.tables = {}]
    OBVIOUS
  <2>3. IsWizard(w)
    BY <2>2 DEF WizardInv, IsWizard
  <2>4. QED
    BY <2>1, <2>2, <2>3, EditedWizard
<1>5. CASE addTable \/ RemoveTable
  <2>1. PICK ts : Edit([wizard EXCEPT !.tables = ts])
    BY <1>5 DEF addTable, RemoveTable
  <2>2. PICK w : w = [wizard EXCEPT !.tables = ts]
    OBVIOUS
  <2>3. IsWizard(w)
    BY <2>2 DEF WizardInv, IsWizard
  <2>4. QED
    BY <2>1, <2>2, <2>3, EditedWizard
<1>6. CASE SetLocation \/ SetDestination \/ SetRule
  <2>1. PICK w : /\ Edit(w)
                 /\ \/ w = [wizard EXCEPT !.location = ~@]
                    \/ \E d : w = [wizard EXCEPT !.destination = d]
                    \/ w = [wizard EXCEPT !.cursor = ~@] \/ w = [wizard EXCEPT !.initial = ~@]
                    \/ w = [wizard EXCEPT !.merge = ~@] \/ w = [wizard EXCEPT !.key = ~@]
                    \/ w = [wizard EXCEPT !.partition = ~@]
    BY <1>6 DEF SetLocation, SetDestination, SetRule
  <2>2. IsWizard(w)
    BY <2>1 DEF WizardInv, IsWizard
  <2>3. QED
    BY <2>1, <2>2, EditedWizard
<1>7. CASE handleSave
  <2>1. PICK p : p = Payload(wizard)
    OBVIOUS
  <2>2. /\ IsWizard(p) /\ p.tables = wizard.tables /\ p.type = wizard.type
        /\ p.location = wizard.location /\ p.merge = wizard.merge /\ p.key = wizard.key
        /\ p.destination = wizard.destination
        /\ p.connection = IF wizard.type = "filesystem" THEN NoConnection
                          ELSE wizard.connection
        /\ p.partition = (wizard.partition /\ wizard.destination = "ducklake")
    BY <2>1 DEF Payload, WizardInv, IsWizard
  <2>3. Sendable(p)
    BY <1>7, <2>2 DEF handleSave, ReadsSomething, Sendable
  <2>4. QED
    BY <1>7, <2>1, <2>2, <2>3 DEF handleSave, WizardInv, RefusedForInitialOnly
<1>8. CASE SaveSource
  <2>1. PICK p, r : p = payload /\ r = Row(payload)
    OBVIOUS
  <2>2. IsWizard(r)
    BY <2>1 DEF Row, WizardInv, IsWizard
  <2>3. refusal' \in {"none", "initial"}
    BY <1>8, <2>1, SendableValidates DEF SaveSource, WizardInv
  <2>4. QED
    BY <1>0, <1>8, <2>1, <2>2, <2>3 DEF SaveSource, WizardInv, RefusedForInitialOnly
<1>9. QED
  BY <1>1, <1>2, <1>3, <1>4, <1>5, <1>6, <1>7, <1>8
     DEF WizardNext, wizardVars, FormAnswer, loadTables, TablesAnswer,
         createLakehouseForProject, nextStep, Back

\* For any connections and tables, and any way through the pages: the server refuses
\* a load the wizard sends for no other reason.
THEOREM WizardAgrees == Spec => []RefusedForInitialOnly
<1>1. Init => WizardInit
  BY DEF Init
<1>2. WizardInv => RefusedForInitialOnly
  BY DEF WizardInv
<1>3. QED
  BY <1>1, <1>2, WizardInitInv, WizardStepInv, PageSteps, PTL DEF Spec

-----------------------------------------------------------------------------
(* The stream of a data load.                                              *)

Active == {"session", "streaming", "ending"}

\* Loads are started in order; the one that is not over is the one the abort
\* reference points to, unless one was stopped before its request was sent.
LoadsInOrder ==
    /\ loads \in [Numbers -> Phases] /\ loadLogs \subseteq Numbers
    /\ stoppedEarly \in BOOLEAN /\ abortRef \in Numbers \cup {0}
    /\ \A n, m \in Numbers : n < m /\ loads[n] = "none" => loads[m] = "none"
OneActive ==
    ~stoppedEarly => \A n \in Numbers : loads[n] \in Active =>
        abortRef = n /\ \A m \in Numbers : m > n => loads[m] = "none"
IngestInv == LoadsInOrder /\ OneActive /\ LogOfLatest

\* Init establishes it.
LEMMA IngestInitInv == IngestInit => IngestInv
BY DEF IngestInit, IngestInv, LoadsInOrder, OneActive, LogOfLatest, Phases, Active

\* A load of the active one's moves on, or ends.
LEMMA PhaseSteps ==
    ASSUME IngestInv, NEW n \in Numbers, NEW to \in Phases \ {"none"},
           loads[n] # "none", loads' = [loads EXCEPT ![n] = to],
           UNCHANGED stoppedEarly,
           \/ to = "done" /\ abortRef' = 0 /\ loads[n] \in Active
           \/ UNCHANGED abortRef /\ loads[n] \in Active,
           UNCHANGED loadLogs
    PROVE  IngestInv'
<1>1. LoadsInOrder'
  BY DEF IngestInv, LoadsInOrder
<1>2. OneActive'
  BY DEF IngestInv, LoadsInOrder, OneActive, Active, Phases
<1>3. LogOfLatest'
  BY DEF IngestInv, LoadsInOrder, LogOfLatest
<1>4. QED
  BY <1>1, <1>2, <1>3 DEF IngestInv

\* Every step keeps the invariant.
LEMMA IngestStepInv == IngestInv /\ [IngestNext]_ingestVars => IngestInv'
<1> SUFFICES ASSUME IngestInv, [IngestNext]_ingestVars PROVE IngestInv'
  OBVIOUS
<1>1. CASE UNCHANGED <<loads, abortRef, loadLogs, stoppedEarly>>
  BY <1>1 DEF IngestInv, LoadsInOrder, OneActive, LogOfLatest
<1>2. ASSUME NEW n \in Numbers, run(n) PROVE IngestInv'
  <2>1. /\ loads[n] = "none" /\ loads' = [loads EXCEPT ![n] = "session"] /\ abortRef = 0
        /\ abortRef' = n /\ loadLogs' = {} /\ UNCHANGED stoppedEarly
        /\ \A m \in 1 .. n - 1 : loads[m] # "none"
    BY <1>2 DEF run, Phase
  <2>2. LoadsInOrder'
    BY <2>1 DEF IngestInv, LoadsInOrder, Phases, Numbers
  <2>3. OneActive'
    BY <2>1 DEF IngestInv, LoadsInOrder, OneActive, Active, Numbers
  <2>4. QED
    BY <2>1, <2>2, <2>3 DEF IngestInv, LogOfLatest
<1>3. ASSUME NEW n \in Numbers, Request(n) \/ RequestRefused(n) \/ StreamEnds(n)
      PROVE  IngestInv'
  BY <1>3, PhaseSteps DEF Request, RequestRefused, StreamEnds, Phase, Finally, Cleared, Active,
                          Phases
<1>4. ASSUME NEW n \in Numbers, LoadEnds(n) PROVE IngestInv'
  <2>1. CASE loads[n] = "streaming"
    BY <1>4, <2>1, PhaseSteps DEF LoadEnds, Active, Phases
  <2>2. CASE loads[n] # "streaming"
    BY <1>1, <1>4, <2>2 DEF LoadEnds
  <2>3. QED
    BY <2>1, <2>2
<1>5. ASSUME NEW n \in Numbers, LogLine(n) PROVE IngestInv'
  BY <1>5 DEF LogLine, IngestInv, LoadsInOrder, OneActive, LogOfLatest, Active
<1>6. ASSUME NEW ok \in BOOLEAN, handleStop(ok) PROVE IngestInv'
  <2>1. /\ abortRef' = 0
        /\ loads' = [n \in Numbers |-> IF n = abortRef /\ loads[n] \in {"streaming", "ending"}
                                       THEN "done" ELSE loads[n]]
        /\ stoppedEarly' = (stoppedEarly \/ \E n \in Numbers : n = abortRef
                                                            /\ loads[n] = "session")
        /\ loadLogs' = loadLogs
    BY <1>6 DEF handleStop, AbortCurrent
  <2>2. /\ loads' \in [Numbers -> Phases] /\ (stoppedEarly => stoppedEarly')
        /\ \A n \in Numbers : loads'[n] = "none" <=> loads[n] = "none"
    BY <2>1 DEF IngestInv, LoadsInOrder, Phases
  <2>3. LoadsInOrder'
    BY <2>1, <2>2 DEF IngestInv, LoadsInOrder
  <2>4. OneActive'
    BY <2>1, <2>2 DEF IngestInv, LoadsInOrder, OneActive, Active
  <2>5. LogOfLatest'
    BY <2>1, <2>2 DEF IngestInv, LoadsInOrder, LogOfLatest
  <2>6. QED
    BY <2>3, <2>4, <2>5 DEF IngestInv
<1>7. QED
  BY <1>1, <1>2, <1>3, <1>4, <1>5, <1>6 DEF IngestNext, IngestHistoryAnswer, ingestVars

-----------------------------------------------------------------------------
(* A conversation with the assistant.                                      *)

ChatMessages == [role : {"user", "assistant", "reasoning"}, turns : SUBSET Nat,
                 session : Sessions, streaming : BOOLEAN]

\* Below a prompt of turn t; messages that all stand below their prompts.
Asked(ms, t) == \E j \in DOMAIN ms : ms[j].role = "user" /\ ms[j].turns = {t}
InPlace(ms) ==
    \A i \in DOMAIN ms : ms[i].role # "user" =>
        \E j \in 1 .. i - 1 : ms[j].role = "user" /\ ms[j].turns = ms[i].turns
AtRest(ms) == \A i \in DOMAIN ms : ~ms[i].streaming

ChatTyped ==
    /\ chat \in Seq(ChatMessages) /\ turn \in Nat /\ isStreaming \in BOOLEAN
    /\ raced \in BOOLEAN /\ logs \in [Sessions -> Seq(ChatMessages)]
    /\ \A h \in histories : /\ DOMAIN h = {"session", "n", "events"}
                            /\ h.session \in Sessions /\ h.events \in Seq(ChatMessages)
                            /\ InPlace(h.events) /\ AtRest(h.events)
    /\ reply # NoReply => /\ isStreaming /\ reply.turn = turn /\ reply.session \in Sessions
                          /\ Asked(logs[reply.session], turn)
    /\ \A s \in Sessions : InPlace(logs[s]) /\ AtRest(logs[s])

\* A message that still grows is of the turn under way, whose prompt is shown.
Growing == \A i \in DOMAIN chat : chat[i].streaming => isStreaming /\ chat[i].turns = {turn}
PromptShown == ~raced /\ reply # NoReply => histories = {} /\ Asked(chat, turn)

ChatInv == ChatTyped /\ Growing /\ PromptShown /\ PromptFirst

\* A message at the end of a sequence.
LEMMA AppendMessage ==
    ASSUME NEW ms \in Seq(ChatMessages), NEW m \in ChatMessages
    PROVE  /\ Append(ms, m) \in Seq(ChatMessages)
           /\ DOMAIN ms = 1 .. Len(ms) /\ Len(ms) \in Nat
           /\ DOMAIN Append(ms, m) = 1 .. Len(ms) + 1
           /\ \A i \in 1 .. Len(ms) : Append(ms, m)[i] = ms[i]
           /\ Append(ms, m)[Len(ms) + 1] = m
BY AppendProperties, LenProperties

\* A prompt, or a message whose prompt is there, can be added.
LEMMA AppendInPlace ==
    ASSUME NEW ms \in Seq(ChatMessages), NEW m \in ChatMessages
    PROVE  /\ InPlace(ms) /\ (m.role = "user" \/ \E t : m.turns = {t} /\ Asked(ms, t))
                 => InPlace(Append(ms, m))
           /\ \A t : Asked(ms, t) \/ (m.role = "user" /\ m.turns = {t})
                 => Asked(Append(ms, m), t)
           /\ AtRest(ms) /\ ~m.streaming => AtRest(Append(ms, m))
<1>0. /\ DOMAIN ms = 1 .. Len(ms) /\ Len(ms) \in Nat
      /\ DOMAIN Append(ms, m) = 1 .. Len(ms) + 1
      /\ \A i \in 1 .. Len(ms) : Append(ms, m)[i] = ms[i]
      /\ Append(ms, m)[Len(ms) + 1] = m
      /\ \A i \in 1 .. Len(ms) + 1 : i \in 1 .. Len(ms) \/ i = Len(ms) + 1
  BY AppendMessage
<1>1. ASSUME InPlace(ms), m.role = "user" \/ \E t : m.turns = {t} /\ Asked(ms, t)
      PROVE  InPlace(Append(ms, m))
  <2> SUFFICES ASSUME NEW i \in 1 .. Len(ms) + 1, Append(ms, m)[i].role # "user"
               PROVE  \E j \in 1 .. i - 1 : /\ Append(ms, m)[j].role = "user"
                                            /\ Append(ms, m)[j].turns = Append(ms, m)[i].turns
    BY <1>0 DEF InPlace
  <2>1. CASE i \in 1 .. Len(ms)
    <3>1. PICK j \in 1 .. i - 1 : ms[j].role = "user" /\ ms[j].turns = ms[i].turns
      BY <1>0, <1>1, <2>1 DEF InPlace
    <3>2. j \in 1 .. Len(ms)
      BY <1>0, <2>1
    <3>3. QED
      BY <1>0, <2>1, <3>1, <3>2
  <2>2. CASE i = Len(ms) + 1
    <3>1. PICK j \in 1 .. Len(ms) : ms[j].role = "user" /\ ms[j].turns = m.turns
      BY <1>0, <1>1, <2>2 DEF Asked
    <3>2. j \in 1 .. i - 1
      BY <1>0, <2>2
    <3>3. QED
      BY <1>0, <2>2, <3>1, <3>2
  <2>3. QED
    BY <1>0, <2>1, <2>2
<1>2. \A t : Asked(ms, t) \/ (m.role = "user" /\ m.turns = {t}) => Asked(Append(ms, m), t)
  BY <1>0 DEF Asked
<1>3. AtRest(ms) /\ ~m.streaming => AtRest(Append(ms, m))
  BY <1>0 DEF AtRest
<1>4. QED
  BY <1>1, <1>2, <1>3

\* Init establishes the invariant.
LEMMA ChatInitInv == ChatInit => ChatInv
<1> SUFFICES ASSUME ChatInit PROVE ChatInv
  OBVIOUS
<1>1. <<>> \in Seq(ChatMessages) /\ DOMAIN <<>> = {}
  BY EmptySeq
<1>2. QED
  BY <1>1 DEF ChatInit, ChatInv, ChatTyped, Growing, PromptShown, PromptFirst, InPlace, AtRest

\* A prompt is sent: nothing of an earlier turn still grows.
LEMMA SendStep == ASSUME ChatInv, send PROVE ChatInv'
<1>1. PICK s \in Sessions :
          /\ reply' = [session |-> s, turn |-> turn + 1]
          /\ chat' = Append(chat, Message("user", turn + 1, s, FALSE))
          /\ logs' = [logs EXCEPT ![s] = Append(@, Message("user", turn + 1, s, FALSE))]
  BY DEF send
<1>2. PICK m, ms, l : m = Message("user", turn + 1, s, FALSE) /\ ms = chat /\ l = logs[s]
  OBVIOUS
<1>3. /\ m \in ChatMessages /\ m.role = "user" /\ m.turns = {turn + 1} /\ ~m.streaming
      /\ turn + 1 \in Nat
  BY <1>2 DEF Message, ChatMessages, ChatInv, ChatTyped
<1>4. /\ turn' = turn + 1 /\ isStreaming' = TRUE /\ ~isStreaming
      /\ raced' = (raced \/ histories # {}) /\ histories' = histories
      /\ ms \in Seq(ChatMessages) /\ l \in Seq(ChatMessages)
      /\ chat' = Append(ms, m) /\ logs' = [logs EXCEPT ![s] = Append(l, m)]
  BY <1>1, <1>2 DEF send, ChatInv, ChatTyped
<1>5. /\ Append(ms, m) \in Seq(ChatMessages) /\ Append(l, m) \in Seq(ChatMessages)
      /\ Asked(Append(ms, m), turn + 1) /\ Asked(Append(l, m), turn + 1)
      /\ InPlace(ms) => InPlace(Append(ms, m))
      /\ InPlace(Append(l, m)) /\ AtRest(Append(l, m))
      /\ AtRest(Append(ms, m))
  <2>1. InPlace(l) /\ AtRest(l)
    BY <1>2 DEF ChatInv, ChatTyped
  <2>2. AtRest(ms)
    BY <1>2, <1>4 DEF ChatInv, Growing, AtRest
  <2>3. QED
    BY ZenonT(40), <1>3, <1>4, <2>1, <2>2, AppendMessage, AppendInPlace
<1>6. ChatTyped'
  <2>1. /\ logs' \in [Sessions -> Seq(ChatMessages)] /\ logs'[s] = Append(l, m)
        /\ \A q \in Sessions \ {s} : logs'[q] = logs[q]
    BY <1>4, <1>5 DEF ChatInv, ChatTyped
  <2>2. \A q \in Sessions : InPlace(logs'[q]) /\ AtRest(logs'[q])
    BY <1>5, <2>1 DEF ChatInv, ChatTyped
  <2>3. reply'.turn = turn' /\ reply'.session = s
    BY <1>1, <1>4
  <2>4. raced' \in BOOLEAN
    BY <1>4 DEF ChatInv, ChatTyped
  <2>5. QED
    BY <1>3, <1>4, <1>5, <2>1, <2>2, <2>3, <2>4 DEF ChatInv, ChatTyped
<1>7. Growing' /\ PromptShown' /\ PromptFirst'
  <2>0. ~raced => InPlace(ms)
    BY <1>2 DEF ChatInv, PromptFirst, InPlace
  <2>1. PromptFirst'
    <3>1. ~raced' => InPlace(chat')
      BY <1>4, <1>5, <2>0 DEF ChatInv, ChatTyped
    <3>2. QED
      BY <3>1 DEF PromptFirst, InPlace
  <2>2. Growing' /\ PromptShown'
    BY <1>4, <1>5 DEF Growing, PromptShown, AtRest, ChatInv, ChatTyped
  <2>3. QED
    BY <2>1, <2>2
<1>8. QED
  BY <1>6, <1>7 DEF ChatInv

\* The messages after a piece of the answer, from those before.
Continues(new, ms, t) ==
    /\ new \in Seq(ChatMessages)
    /\ InPlace(ms) /\ Asked(ms, t) => InPlace(new)
    /\ Asked(ms, t) => Asked(new, t)
    /\ \A i \in DOMAIN new : new[i].streaming => new[i].turns = {t}

\* A piece is added as a message of its own.
LEMMA AppendFollows ==
    ASSUME NEW ms \in Seq(ChatMessages), NEW t \in Nat, NEW s \in Sessions,
           NEW role \in {"assistant", "reasoning"}, NEW going \in BOOLEAN,
           \A i \in DOMAIN ms : ms[i].streaming => ms[i].turns = {t}
    PROVE  Continues(Append(ms, Message(role, t, s, going)), ms, t)
<1>1. PICK m : m = Message(role, t, s, going)
  OBVIOUS
<1>2. m \in ChatMessages /\ m.turns = {t}
  BY <1>1 DEF Message, ChatMessages
<1>3. \A i \in DOMAIN Append(ms, m) : Append(ms, m)[i].streaming => Append(ms, m)[i].turns = {t}
  BY <1>2, AppendMessage
<1>4. QED
  BY <1>1, <1>2, <1>3, AppendMessage, AppendInPlace DEF Continues

\* A piece changes the last message, which is of the same turn.
LEMMA LastFollows ==
    ASSUME NEW ms \in Seq(ChatMessages), NEW t \in Nat, ms # <<>>, NEW m \in ChatMessages,
           Last(ms).streaming, Last(ms).role # "user", m.role # "user", m.turns = {t},
           \A i \in DOMAIN ms : ms[i].streaming => ms[i].turns = {t}
    PROVE  Continues([ms EXCEPT ![Len(ms)] = m], ms, t)
<1> DEFINE new == [ms EXCEPT ![Len(ms)] = m]
<1>1. /\ Len(ms) \in Nat \ {0} /\ DOMAIN ms = 1 .. Len(ms) /\ Last(ms) = ms[Len(ms)]
  BY LenProperties, EmptySeq DEF Last
<1>2. /\ new \in Seq(ChatMessages) /\ DOMAIN new = 1 .. Len(ms) /\ new[Len(ms)] = m
      /\ \A i \in 1 .. Len(ms) : i # Len(ms) => new[i] = ms[i]
  <2>1. Len(ms) \in 1 .. Len(ms)
    BY <1>1
  <2>2. new \in Seq(ChatMessages)
    BY <2>1, ExceptSeq
  <2>3. QED
    BY <1>1, <2>1, <2>2
<1> HIDE DEF new
<1>3. ASSUME InPlace(ms), Asked(ms, t) PROVE InPlace(new)
  <2> SUFFICES ASSUME NEW i \in 1 .. Len(ms), new[i].role # "user"
               PROVE  \E j \in 1 .. i - 1 : new[j].role = "user" /\ new[j].turns = new[i].turns
    BY <1>2 DEF InPlace
  <2>1. PICK j \in 1 .. Len(ms) : j < i /\ ms[j].role = "user" /\ ms[j].turns = new[i].turns
    <3>1. CASE i = Len(ms)
      <4>1. PICK j \in 1 .. Len(ms) : ms[j].role = "user" /\ ms[j].turns = {t}
        BY <1>1, <1>3 DEF Asked
      <4>2. j # Len(ms)
        BY <1>1, <4>1
      <4>3. j < i
        <5>1. PICK n \in Nat : n = Len(ms)
          BY <1>1
        <5>2. j \in 1 .. n /\ j # n /\ i = n
          BY <3>1, <4>2, <5>1
        <5>3. QED
          BY <5>2
      <4>4. new[i].turns = {t}
        BY <1>2, <3>1
      <4>5. QED
        BY <4>1, <4>3, <4>4
    <3>2. CASE i # Len(ms)
      <4>1. PICK j \in 1 .. i - 1 : ms[j].role = "user" /\ ms[j].turns = ms[i].turns
        BY <1>1, <1>2, <1>3, <3>2 DEF InPlace
      <4>2. j \in 1 .. Len(ms) /\ j < i
        BY <1>1
      <4>3. QED
        BY <1>2, <3>2, <4>1, <4>2
    <3>3. QED
      BY <3>1, <3>2
  <2>2. j # Len(ms)
    BY <1>1, <2>1
  <2>3. j \in 1 .. i - 1
    BY <2>1
  <2>4. QED
    BY <1>2, <2>1, <2>2, <2>3
<1>4. Asked(ms, t) => Asked(new, t)
  BY <1>1, <1>2 DEF Asked
<1>5. \A i \in DOMAIN new : new[i].streaming => new[i].turns = {t}
  BY <1>1, <1>2
<1>6. QED
  BY <1>2, <1>3, <1>4, <1>5 DEF Continues, new

\* An event of the stream under way.
LEMMA EventStep ==
    ASSUME ChatInv, NEW ms, NEW l, Event(ms, l), Continues(ms, chat, turn),
           l \in Seq(ChatMessages), InPlace(l), AtRest(l), Asked(l, turn)
    PROVE  ChatInv'
<1>1. /\ reply # NoReply /\ chat' = ms /\ logs' = [logs EXCEPT ![reply.session] = l]
      /\ UNCHANGED <<isStreaming, turn, reply, histories, raced>>
      /\ reply.session \in Sessions /\ isStreaming /\ reply.turn = turn
  BY DEF Event, ChatInv, ChatTyped
<1>2. ChatTyped'
  <2>1. /\ logs' \in [Sessions -> Seq(ChatMessages)] /\ logs'[reply.session] = l
        /\ \A q \in Sessions \ {reply.session} : logs'[q] = logs[q]
    BY <1>1 DEF ChatInv, ChatTyped
  <2>2. \A q \in Sessions : InPlace(logs'[q]) /\ AtRest(logs'[q])
    BY <2>1 DEF ChatInv, ChatTyped
  <2>3. QED
    BY <1>1, <2>1, <2>2 DEF ChatInv, ChatTyped, Continues
<1>3. Growing'
  BY <1>1 DEF Growing, Continues
<1>4. ~raced => histories = {} /\ Asked(chat, turn) /\ InPlace(chat)
  BY <1>1 DEF ChatInv, PromptShown, PromptFirst, InPlace
<1>5. PromptShown' /\ PromptFirst'
  <2>1. ~raced => Asked(ms, turn) /\ InPlace(ms)
    BY <1>4 DEF Continues
  <2>2. PromptShown'
    BY <1>1, <1>4, <2>1 DEF PromptShown
  <2>3. PromptFirst'
    BY <1>1, <2>1 DEF PromptFirst, InPlace
  <2>4. QED
    BY <2>2, <2>3
<1>6. QED
  BY <1>2, <1>3, <1>5 DEF ChatInv

\* A delta goes to the message that grows, or begins one.
LEMMA GrowFollows ==
    ASSUME NEW ms \in Seq(ChatMessages), NEW t \in Nat, NEW s \in Sessions,
           NEW role \in {"assistant", "reasoning"},
           \A i \in DOMAIN ms : ms[i].streaming => ms[i].turns = {t}
    PROVE  Continues(Grow(ms, role, t, s), ms, t)
<1>1. CASE ms # <<>> /\ Last(ms).streaming /\ Last(ms).role = role
  <2>1. /\ Len(ms) \in Nat \ {0} /\ DOMAIN ms = 1 .. Len(ms) /\ Last(ms) = ms[Len(ms)]
        /\ ms[Len(ms)] \in ChatMessages
    BY <1>1, LenProperties, EmptySeq, ElementOfSeq DEF Last
  <2>2. PICK m : m = [ms[Len(ms)] EXCEPT !.turns = @ \cup {t}]
    OBVIOUS
  <2>3. ms[Len(ms)].turns = {t}
    BY <1>1, <2>1
  <2>4. m \in ChatMessages /\ m.role = role /\ m.turns = {t}
    BY <1>1, <2>1, <2>2, <2>3 DEF ChatMessages
  <2>5. Grow(ms, role, t, s) = [ms EXCEPT ![Len(ms)] = m]
    BY <1>1, <2>1, <2>2 DEF Grow
  <2>6. QED
    <3>1. Last(ms).role # "user" /\ m.role # "user"
      BY <1>1, <2>4
    <3>2. Continues([ms EXCEPT ![Len(ms)] = m], ms, t)
      BY <1>1, <2>4, <3>1, LastFollows
    <3>3. QED
      BY <2>5, <3>2
<1>2. CASE ~(ms # <<>> /\ Last(ms).streaming /\ Last(ms).role = role)
  BY <1>2, AppendFollows DEF Grow
<1>3. QED
  BY <1>1, <1>2

\* The text of the answer replaces the message that grew, or is one.
LEMMA CommitFollows ==
    ASSUME NEW ms \in Seq(ChatMessages), NEW t \in Nat, NEW s \in Sessions,
           \A i \in DOMAIN ms : ms[i].streaming => ms[i].turns = {t}
    PROVE  Continues(Commit(ms, t, s), ms, t)
<1>1. PICK m : m = Message("assistant", t, s, FALSE)
  OBVIOUS
<1>2. m \in ChatMessages /\ m.role = "assistant" /\ m.turns = {t}
  BY <1>1 DEF Message, ChatMessages
<1>3. CASE ms # <<>> /\ Last(ms).streaming /\ Last(ms).role = "assistant"
  BY <1>1, <1>2, <1>3, LastFollows DEF Commit
<1>4. CASE ~(ms # <<>> /\ Last(ms).streaming /\ Last(ms).role = "assistant")
  BY <1>4, AppendFollows DEF Commit
<1>5. QED
  BY <1>3, <1>4

\* Both kinds of events.
LEMMA PieceSteps == ASSUME ChatInv, Delta \/ TextEvent PROVE ChatInv'
<1>1. /\ reply # NoReply /\ reply.turn = turn /\ reply.session \in Sessions /\ turn \in Nat
      /\ chat \in Seq(ChatMessages)
      /\ \A i \in DOMAIN chat : chat[i].streaming => chat[i].turns = {turn}
  BY DEF Delta, TextEvent, Event, ChatInv, ChatTyped, Growing
<1>2. PICK s, t, c, l : s = reply.session /\ t = turn /\ c = chat /\ l = logs[reply.session]
  OBVIOUS
<1>3. /\ l \in Seq(ChatMessages) /\ InPlace(l) /\ AtRest(l) /\ Asked(l, t)
      /\ c \in Seq(ChatMessages) /\ t \in Nat /\ s \in Sessions
      /\ \A i \in DOMAIN c : c[i].streaming => c[i].turns = {t}
  BY <1>1, <1>2 DEF ChatInv, ChatTyped
<1>4. CASE Delta
  <2>1. PICK role \in {"assistant", "reasoning"} : Event(Grow(c, role, t, s), l)
    BY <1>1, <1>2, <1>4 DEF Delta
  <2>2. Continues(Grow(c, role, t, s), c, t)
    BY <1>3, GrowFollows
  <2>3. QED
    BY <1>2, <1>3, <2>1, <2>2, EventStep
<1>5. CASE TextEvent
  <2>1. PICK m, n : m = Message("assistant", t, s, FALSE) /\ n = Append(l, m)
    OBVIOUS
  <2>2. m \in ChatMessages /\ m.turns = {t} /\ ~m.streaming
    BY <1>3, <2>1 DEF Message, ChatMessages
  <2>3. n \in Seq(ChatMessages) /\ InPlace(n) /\ AtRest(n) /\ Asked(n, t)
    BY <1>3, <2>1, <2>2, AppendMessage, AppendInPlace
  <2>4. Event(Commit(c, t, s), n)
    BY <1>1, <1>2, <1>5, <2>1 DEF TextEvent
  <2>5. Continues(Commit(c, t, s), c, t)
    BY <1>3, CommitFollows
  <2>6. QED
    BY <1>2, <2>3, <2>4, <2>5, EventStep
<1>6. QED
  BY <1>4, <1>5

\* The stream is over: the messages are as they were, and none grows.
LEMMA ChatEndsStep == ASSUME ChatInv, ChatStreamEnds PROVE ChatInv'
<1>1. /\ ~isStreaming' /\ isStreaming' \in BOOLEAN /\ reply' = NoReply /\ chat' = Settle(chat)
      /\ UNCHANGED <<turn, logs, histories, raced>>
  BY DEF ChatStreamEnds
<1>2. /\ chat \in Seq(ChatMessages) /\ DOMAIN chat = 1 .. Len(chat) /\ Len(chat) \in Nat
      /\ \A i \in 1 .. Len(chat) : chat[i] \in ChatMessages
  BY LenProperties, ElementOfSeq DEF ChatInv, ChatTyped
<1>3. /\ DOMAIN chat' = 1 .. Len(chat)
      /\ \A i \in 1 .. Len(chat) : chat'[i] = [chat[i] EXCEPT !.streaming = FALSE]
  BY <1>1, <1>2 DEF Settle
<1>4. \A i \in 1 .. Len(chat) : /\ chat'[i] \in ChatMessages /\ ~chat'[i].streaming
                                /\ chat'[i].role = chat[i].role /\ chat'[i].turns = chat[i].turns
  BY ZenonT(40), <1>2, <1>3 DEF ChatMessages
<1>5. chat' \in Seq(ChatMessages)
  <2>1. chat' = [i \in 1 .. Len(chat) |-> chat'[i]]
    BY <1>1, <1>2 DEF Settle
  <2>2. QED
    BY <1>2, <1>4, <2>1, IsASeq
<1>6. ChatTyped'
  BY <1>1, <1>5 DEF ChatInv, ChatTyped
<1>7. Growing' /\ PromptShown'
  BY <1>1, <1>3, <1>4 DEF Growing, PromptShown
<1>8. PromptFirst'
  <2> SUFFICES ASSUME ~raced, NEW i \in 1 .. Len(chat), chat'[i].role # "user"
               PROVE  \E j \in 1 .. i - 1 : chat'[j].role = "user" /\ chat'[j].turns = chat'[i].turns
    BY <1>1, <1>3 DEF PromptFirst
  <2>1. PICK j \in 1 .. i - 1 : chat[j].role = "user" /\ chat[j].turns = chat[i].turns
    BY <1>2, <1>4 DEF ChatInv, PromptFirst
  <2>2. j \in 1 .. Len(chat)
    BY <1>2
  <2>3. QED
    BY <1>4, <2>1, <2>2
<1>9. QED
  BY <1>6, <1>7, <1>8 DEF ChatInv

\* Conversations opened, begun and loaded; a stream stopped.
LEMMA SessionSteps ==
    ASSUME ChatInv,
           \/ \E s \in Sessions : openSession(s)
           \/ startNewSession \/ stop
           \/ \E h \in histories : HistoryRead(h)
           \/ \E h \in histories, ok \in BOOLEAN : HistoryAnswer(h, ok)
    PROVE  ChatInv'
<1>0. <<>> \in Seq(ChatMessages) /\ DOMAIN <<>> = {} /\ InPlace(<<>>) /\ AtRest(<<>>)
  <2>1. <<>> \in Seq(ChatMessages) /\ DOMAIN <<>> = {}
    BY EmptySeq
  <2>2. QED
    BY <2>1 DEF InPlace, AtRest
<1>1. ASSUME NEW s \in Sessions, openSession(s) PROVE ChatInv'
  <2>1. PICK h : h = [session |-> s, n |-> opens + 1, events |-> <<>>]
    OBVIOUS
  <2>2. /\ reply' = NoReply /\ chat' = <<>> /\ histories' = histories \cup {h}
        /\ UNCHANGED <<isStreaming, turn, logs, raced>>
    BY <1>1, <2>1 DEF openSession, AbortRead, Abort
  <2>3. DOMAIN h = {"session", "n", "events"} /\ h.session = s /\ h.events = <<>>
    BY <2>1
  <2>4. ChatTyped'
    BY <1>0, <2>2, <2>3 DEF ChatInv, ChatTyped
  <2>5. QED
    BY <1>0, <2>2, <2>4 DEF ChatInv, Growing, PromptShown, PromptFirst
<1>2. CASE startNewSession
  <2>1. /\ reply' = NoReply /\ chat' = <<>>
        /\ UNCHANGED <<isStreaming, turn, logs, histories, raced>>
    BY <1>2 DEF startNewSession, AbortRead, Abort
  <2>2. ChatTyped'
    BY <1>0, <2>1 DEF ChatInv, ChatTyped
  <2>3. QED
    BY <1>0, <2>1, <2>2 DEF ChatInv, Growing, PromptShown, PromptFirst
<1>3. CASE stop
  <2>1. reply' = NoReply /\ UNCHANGED <<chat, isStreaming, turn, logs, histories, raced>>
    BY <1>3 DEF stop
  <2>2. QED
    BY <2>1 DEF ChatInv, ChatTyped, Growing, PromptShown, PromptFirst
<1>4. ASSUME NEW h \in histories, HistoryRead(h) PROVE ChatInv'
  <2>1. PICK g : g = [h EXCEPT !.events = logs[h.session]]
    OBVIOUS
  <2>2. /\ histories' = (histories \ {h}) \cup {g}
        /\ UNCHANGED <<chat, isStreaming, turn, reply, logs, raced>>
    BY <1>4, <2>1 DEF HistoryRead
  <2>3. DOMAIN g = {"session", "n", "events"} /\ g.session = h.session
        /\ g.events = logs[h.session] /\ h.session \in Sessions
    BY <2>1 DEF ChatInv, ChatTyped
  <2>4. ChatTyped'
    BY <2>2, <2>3 DEF ChatInv, ChatTyped
  <2>5. histories # {}
    OBVIOUS
  <2>6. QED
    BY <2>2, <2>4, <2>5 DEF ChatInv, Growing, PromptShown, PromptFirst
<1>5. ASSUME NEW h \in histories, NEW ok \in BOOLEAN, HistoryAnswer(h, ok) PROVE ChatInv'
  <2>1. /\ histories' = histories \ {h} /\ (chat' = h.events \/ chat' = chat)
        /\ UNCHANGED <<isStreaming, turn, reply, logs, raced>>
    BY <1>5 DEF HistoryAnswer
  <2>2. h.events \in Seq(ChatMessages) /\ InPlace(h.events) /\ AtRest(h.events)
    BY DEF ChatInv, ChatTyped
  <2>3. ChatTyped'
    BY <2>1, <2>2 DEF ChatInv, ChatTyped
  <2>4. Growing'
    BY <2>1, <2>2 DEF ChatInv, Growing, AtRest
  <2>5. PromptShown'
    BY <2>1 DEF ChatInv, PromptShown
  <2>6. PromptFirst'
    BY <2>1, <2>2 DEF ChatInv, PromptFirst, InPlace
  <2>7. QED
    BY <2>3, <2>4, <2>5, <2>6 DEF ChatInv
<1>6. QED
  BY <1>1, <1>2, <1>3, <1>4, <1>5

\* Every step keeps the invariant.
LEMMA ChatStepInv == ChatInv /\ [ChatNext]_chatVars => ChatInv'
<1> SUFFICES ASSUME ChatInv, [ChatNext]_chatVars PROVE ChatInv'
  OBVIOUS
<1>1. CASE UNCHANGED chatVars
  BY <1>1 DEF chatVars, ChatInv, ChatTyped, Growing, PromptShown, PromptFirst
<1>2. CASE ChatNext
  BY <1>2, SendStep, PieceSteps, ChatEndsStep, SessionSteps DEF ChatNext
<1>3. QED
  BY <1>1, <1>2

\* For any conversations, turns and loads: what a stopped or abandoned stream still
\* sends lands nowhere.
THEOREM StreamsKeptApart == Spec => []StreamsInPlace
<1>1. Init => ChatInit /\ IngestInit
  BY DEF Init
<1>2. IngestInv => OneLoadRead /\ LogOfLatest
  <2> SUFFICES ASSUME IngestInv, ~stoppedEarly
               PROVE  Cardinality({n \in Numbers : loads[n] = "streaming" /\ n \notin aborted}) <= 1
    BY DEF IngestInv, OneLoadRead
  <2> DEFINE read == {n \in Numbers : loads[n] = "streaming" /\ n \notin aborted}
  <2>1. read = {} \/ read = {abortRef}
    BY DEF IngestInv, OneActive, Active
  <2>2. Cardinality({}) = 0 /\ Cardinality({abortRef}) = 1
    BY FS_EmptySet, FS_Singleton
  <2>3. QED
    BY <2>1, <2>2
<1>3. ChatInv => PromptFirst
  BY DEF ChatInv
<1>4. PromptFirst /\ OneLoadRead /\ LogOfLatest => StreamsInPlace
  BY DEF StreamsInPlace
<1>5. QED
  BY <1>1, <1>2, <1>3, <1>4, ChatInitInv, ChatStepInv, IngestInitInv, IngestStepInv,
     PageSteps, PTL DEF Spec

-----------------------------------------------------------------------------
(* A schedule and its ticks.                                               *)

RowTyped(r) ==
    /\ DOMAIN r = {"cron", "isActive", "publishSchema", "nextRunAt"} /\ r.nextRunAt \in Nat
    /\ r # NoRow => r.cron \in Crons
FormTyped(f) ==
    f # Closed => DOMAIN f = {"cron", "isActive", "publishSchema"} /\ f.cron \in Crons

\* Only a delete is sent without a cron, and it does not read the row.
RequestTyped ==
    /\ DOMAIN request = {"phase", "input", "existing", "from"} /\ RowTyped(request.existing)
    /\ request.phase # "idle" /\ request.from # "delete" => request.input.cron \in Crons
    /\ request.phase = "read" => request.from # "delete"
JobTyped ==
    job # NoJob => /\ DOMAIN job = {"phase", "read", "now"} /\ job.phase \in {"read", "advanced"}
                   /\ RowTyped(job.read) /\ job.read # NoRow /\ job.now \in Nat
ScheduleTyped ==
    /\ RowTyped(row) /\ RowTyped(schedules) /\ RowTyped(editing) /\ FormTyped(form)
    /\ RequestTyped /\ JobTyped
    /\ clock \in Nat \ {0} /\ createdAt \in Nat /\ createdAt <= clock /\ overlap \in BOOLEAN
    /\ fires \in Seq(Nat)
    /\ createdAt = 0 => fires = <<>> /\ job = NoJob /\ row = NoRow

\* A due time lies after the row's creation and after every slot launched.
Ahead(n) == n # 0 => n > createdAt /\ (~overlap => \A i \in DOMAIN fires : fires[i] < n)
\* ... and after the slot that is about to be launched.
Beyond(n) == job.phase = "advanced" /\ ~overlap /\ n # 0 => job.read.nextRunAt < n

DueAhead ==
    /\ Ahead(row.nextRunAt) /\ Beyond(row.nextRunAt)
    /\ request.phase = "read" => Ahead(request.existing.nextRunAt)
                                 /\ Beyond(request.existing.nextRunAt)
JobAhead ==
    job # NoJob =>
        /\ createdAt <= job.now /\ job.now <= clock
        /\ job.read.nextRunAt <= job.now /\ Ahead(job.read.nextRunAt)
        /\ job.phase = "advanced" => job.read.nextRunAt # 0
        /\ \A i \in DOMAIN fires : fires[i] <= job.now
FiresInOrder ==
    /\ \A i \in DOMAIN fires : fires[i] > createdAt /\ fires[i] <= clock
    /\ ~overlap => \A i, j \in DOMAIN fires : i < j => fires[i] < fires[j]
ScheduleInv == ScheduleTyped /\ DueAhead /\ JobAhead /\ FiresInOrder

\* A tick plans the next slot after the time it read.
LEMMA NextFireLater ==
    ASSUME NEW c \in Crons, NEW now \in Nat
    PROVE  NextFire(c, now) \in Nat /\ (NextFire(c, now) # 0 => NextFire(c, now) > now)
<1>1. PICK p \in Nat : p = Period[c]
  BY ScheduleAssumption
<1>2. p # 0 => (now \div p + 1) * p \in Nat /\ (now \div p + 1) * p > now
  OBVIOUS
<1>3. QED
  BY <1>1, <1>2 DEF NextFire

\* No row and the empty form.
LEMMA NoRowTyped == RowTyped(NoRow) /\ NoRow.nextRunAt = 0
BY DEF RowTyped, NoRow

\* A dialog filled from a row or afresh has a cron.
LEMMA FreshTyped == ASSUME NEW r, RowTyped(r) PROVE FormTyped(Fresh(r))
<1>1. Empty.cron \in Crons
  BY ScheduleAssumption DEF Empty
<1>2. FormTyped(Empty)
  BY <1>1 DEF FormTyped, Empty
<1>3. r # NoRow => FormTyped(FormOf(r))
  BY DEF RowTyped, FormTyped, FormOf
<1>4. QED
  BY <1>2, <1>3 DEF Fresh

\* Init establishes the invariant.
LEMMA ScheduleInitInv == ScheduleInit => ScheduleInv
<1> SUFFICES ASSUME ScheduleInit PROVE ScheduleInv
  OBVIOUS
<1>1. <<>> \in Seq(Nat) /\ DOMAIN <<>> = {}
  BY EmptySeq
<1>2. FormTyped(form) /\ RequestTyped /\ JobTyped
  BY NoRowTyped DEF ScheduleInit, FormTyped, RequestTyped, JobTyped, Idle
<1>3. ScheduleTyped
  <2>1. RowTyped(row) /\ RowTyped(schedules) /\ RowTyped(editing)
    BY NoRowTyped DEF ScheduleInit
  <2>2. clock \in Nat \ {0} /\ createdAt \in Nat /\ createdAt <= clock
    BY DEF ScheduleInit
  <2>3. fires = <<>> /\ job = NoJob /\ row = NoRow /\ overlap \in BOOLEAN
    BY DEF ScheduleInit
  <2>4. QED
    BY <1>1, <1>2, <2>1, <2>2, <2>3 DEF ScheduleTyped
<1>4. DueAhead /\ JobAhead /\ FiresInOrder
  BY <1>1, NoRowTyped DEF ScheduleInit, DueAhead, JobAhead, FiresInOrder, Ahead, Beyond, Idle
<1>5. QED
  BY <1>3, <1>4 DEF ScheduleInv

\* Steps of the page and of requests that do not touch the row.
LEMMA QuietSteps ==
    ASSUME ScheduleInv, UNCHANGED <<row, job, clock, fires, createdAt, overlap>>,
           RequestTyped', RowTyped(schedules)', RowTyped(editing)', FormTyped(form)',
           request'.phase = "read" => request'.existing = row \/ UNCHANGED request
    PROVE  ScheduleInv'
<1>1. ScheduleTyped'
  BY DEF ScheduleInv, ScheduleTyped, RowTyped, JobTyped
<1>2. DueAhead'
  BY DEF ScheduleInv, DueAhead, Ahead, Beyond
<1>3. JobAhead' /\ FiresInOrder'
  BY DEF ScheduleInv, JobAhead, FiresInOrder, Ahead
<1>4. QED
  BY <1>1, <1>2, <1>3 DEF ScheduleInv

\* The dialog.
LEMMA DialogSteps ==
    ASSUME ScheduleInv,
           \/ OpenDialog \/ CloseDialog \/ setField
           \/ \E c \in Crons, ok \in BOOLEAN : PreviewAnswer(c, ok)
    PROVE  ScheduleInv'
<1>0. RequestTyped /\ RowTyped(schedules) /\ RowTyped(editing) /\ FormTyped(form)
  BY DEF ScheduleInv, ScheduleTyped
<1>1. UNCHANGED <<row, schedules, request, job, clock, fires, createdAt, overlap>>
  BY DEF OpenDialog, CloseDialog, setField, Edited, PreviewAnswer, historyVars
<1>2. RequestTyped' /\ RowTyped(schedules)'
  BY <1>0, <1>1 DEF RequestTyped, RowTyped
<1>3. RowTyped(editing)' /\ FormTyped(form)'
  <2>1. CASE OpenDialog
    <3>1. PICK r : r = schedules
      OBVIOUS
    <3>2. FormTyped(Fresh(r))
      BY <1>0, <3>1, FreshTyped
    <3>3. editing' = r /\ form' = Fresh(r)
      BY <2>1, <3>1 DEF OpenDialog
    <3>4. QED
      BY <1>0, <3>1, <3>2, <3>3 DEF RowTyped, FormTyped
  <2>2. CASE CloseDialog
    BY <1>0, <2>2 DEF CloseDialog, FormTyped, RowTyped
  <2>3. CASE setField
    <3>1. editing' = editing /\ OpenForm
      BY <2>3 DEF setField, Edited
    <3>2. DOMAIN form = {"cron", "isActive", "publishSchema"} /\ form.cron \in Crons
      BY <1>0, <3>1 DEF FormTyped, OpenForm
    <3>3. \/ \E c \in Crons : form' = [form EXCEPT !.cron = c]
          \/ \E s \in Schemas \cup {NoSchema} : form' = [form EXCEPT !.publishSchema = s]
          \/ form' = [form EXCEPT !.isActive = ~@]
      BY <2>3 DEF setField, Edited
    <3>4. FormTyped(form)'
      BY <3>2, <3>3 DEF FormTyped
    <3>5. QED
      BY <1>0, <3>1, <3>4 DEF RowTyped
  <2>4. ASSUME NEW c \in Crons, NEW ok \in BOOLEAN, PreviewAnswer(c, ok)
        PROVE  RowTyped(editing)' /\ FormTyped(form)'
    BY <1>0, <2>4 DEF PreviewAnswer, FormTyped, RowTyped
  <2>5. QED
    BY <2>1, <2>2, <2>3, <2>4
<1>4. QED
  BY <1>1, <1>2, <1>3, QuietSteps

\* Requests are sent, fail, read the row, and are answered.
LEMMA RequestPhases ==
    ASSUME ScheduleInv,
           \/ saveSchedule \/ toggleActive \/ handleDelete \/ loadAnswer \/ saveFailed
           \/ UpdateRead
    PROVE  ScheduleInv'
<1>0. /\ RequestTyped /\ RowTyped(schedules) /\ RowTyped(editing) /\ FormTyped(form)
      /\ RowTyped(row)
  BY DEF ScheduleInv, ScheduleTyped
<1>1. UNCHANGED <<row, editing, job, clock, fires, createdAt, overlap>>
  BY DEF saveSchedule, toggleActive, handleDelete, loadAnswer, saveFailed, UpdateRead, pageVars,
         historyVars
<1>2. RowTyped(editing)'
  BY <1>0, <1>1 DEF RowTyped
<1>3. ASSUME NEW from, NEW input, SendSchedule(from, input), UNCHANGED pageVars,
             from # "delete" => input.cron \in Crons
      PROVE  ScheduleInv'
  <2>1. request' = [phase |-> "sent", input |-> input, existing |-> NoRow, from |-> from]
    BY <1>3 DEF SendSchedule
  <2>2. RequestTyped'
    BY <1>3, <2>1, NoRowTyped DEF RequestTyped, RowTyped
  <2>3. RowTyped(schedules)' /\ FormTyped(form)' /\ request'.phase # "read"
    BY <1>0, <1>3, <2>1 DEF pageVars, RowTyped, FormTyped
  <2>4. QED
    BY <1>1, <1>2, <2>2, <2>3, QuietSteps
<1>4. CASE saveSchedule
  <2>1. form.cron \in Crons /\ SendSchedule("dialog", form) /\ UNCHANGED pageVars
    BY <1>0, <1>4 DEF saveSchedule, OpenForm, FormTyped
  <2>2. PICK f : f = form
    OBVIOUS
  <2>3. QED
    BY <1>3, <2>1, <2>2
<1>5. CASE toggleActive
  <2>1. PICK f : f = [cron |-> schedules.cron, isActive |-> ~schedules.isActive,
                      publishSchema |-> NoSchema]
    OBVIOUS
  <2>2. SendSchedule("toggle", f) /\ UNCHANGED pageVars
    BY <1>5, <2>1 DEF toggleActive
  <2>3. f.cron \in Crons
    BY <1>0, <1>5, <2>1 DEF toggleActive, RowTyped
  <2>4. QED
    BY <1>3, <2>2, <2>3
<1>6. CASE handleDelete
  BY <1>3, <1>6 DEF handleDelete
<1>7. CASE loadAnswer \/ saveFailed
  <2>1. request' = Idle
    BY <1>7 DEF loadAnswer, saveFailed
  <2>2. RequestTyped' /\ request'.phase # "read"
    BY <2>1, NoRowTyped DEF RequestTyped, Idle, RowTyped
  <2>3. RowTyped(schedules)'
    BY <1>0, <1>7 DEF loadAnswer, saveFailed, Load, pageVars, RowTyped
  <2>4. FormTyped(form)'
    <3>1. PICK r : r = editing
      OBVIOUS
    <3>2. FormTyped(Fresh(r))
      BY <1>0, <3>1, FreshTyped
    <3>3. form' = form \/ form' = Closed \/ form' = Fresh(r)
      BY <1>7, <3>1 DEF loadAnswer, saveFailed, Load, pageVars
    <3>4. QED
      BY <1>0, <3>2, <3>3 DEF FormTyped
  <2>5. QED
    BY <1>1, <1>2, <2>2, <2>3, <2>4, QuietSteps
<1>8. CASE UpdateRead
  <2>1. /\ request' = [request EXCEPT !.phase = "read", !.existing = row]
        /\ UNCHANGED <<schedules, form>> /\ Updates /\ request.phase = "sent"
    BY <1>8 DEF UpdateRead, pageVars
  <2>2. RequestTyped' /\ request'.existing = row
    BY <1>0, <2>1 DEF RequestTyped, Updates, RowTyped
  <2>3. RowTyped(schedules)' /\ FormTyped(form)'
    BY <1>0, <2>1 DEF RowTyped, FormTyped
  <2>4. QED
    BY <1>1, <1>2, <2>2, <2>3, QuietSteps
<1>9. QED
  BY <1>4, <1>5, <1>6, <1>7, <1>8

\* The row is written by the web back end: created, updated with the due time it
\* read or none, deleted.
LEMMA WriteSteps ==
    ASSUME ScheduleInv, createSchedule \/ UpdateWrite \/ deleteSchedule
    PROVE  ScheduleInv'
<1>0. /\ ScheduleTyped /\ DueAhead /\ JobAhead /\ FiresInOrder
      /\ RequestTyped /\ RowTyped(row) /\ RowTyped(NoRow) /\ NoRow.nextRunAt = 0
  BY NoRowTyped DEF ScheduleInv, ScheduleTyped
<1>1. /\ UNCHANGED <<schedules, editing, form, job, clock, fires, overlap>>
      /\ request' = [request EXCEPT !.phase = "written"] /\ request.phase \in {"sent", "read"}
  BY DEF createSchedule, UpdateWrite, deleteSchedule, pageVars, historyVars
<1>2. RequestTyped' /\ request'.phase = "written"
  BY <1>0, <1>1 DEF RequestTyped, RowTyped
<1>3. RowTyped(schedules)' /\ RowTyped(editing)' /\ FormTyped(form)' /\ JobTyped'
  BY <1>0, <1>1 DEF ScheduleTyped, RowTyped, FormTyped, JobTyped
<1>4. CASE createSchedule
  <2>1. /\ createdAt = 0 /\ createdAt' = clock /\ row' = NewRow(request.input)
        /\ request.input.cron \in Crons
    BY <1>0, <1>4 DEF createSchedule, RequestTyped
  <2>2. RowTyped(row)' /\ row'.nextRunAt = 0
    BY <2>1 DEF NewRow, RowTyped
  <2>3. fires = <<>> /\ job = NoJob /\ DOMAIN <<>> = {}
    BY <1>0, <2>1 DEF ScheduleTyped
  <2>4. ScheduleTyped'
    BY <1>0, <1>1, <1>2, <1>3, <2>1, <2>2, <2>3 DEF ScheduleTyped
  <2>5. DueAhead' /\ JobAhead' /\ FiresInOrder'
    BY <1>1, <1>2, <2>2, <2>3 DEF DueAhead, JobAhead, FiresInOrder, Ahead, Beyond
  <2>6. QED
    BY <2>4, <2>5 DEF ScheduleInv
<1>5. ASSUME createdAt' = createdAt, RowTyped(row)',
             row' # NoRow => row # NoRow,
             row'.nextRunAt = 0 \/ (request.phase = "read"
                                    /\ row'.nextRunAt = request.existing.nextRunAt)
      PROVE  ScheduleInv'
  <2>1. ScheduleTyped'
    BY <1>0, <1>1, <1>2, <1>3, <1>5 DEF ScheduleTyped
  <2>2. DueAhead'
    BY <1>0, <1>1, <1>2, <1>5 DEF DueAhead, Ahead, Beyond
  <2>3. JobAhead' /\ FiresInOrder'
    BY <1>0, <1>1, <1>5 DEF JobAhead, FiresInOrder, Ahead
  <2>4. QED
    BY <2>1, <2>2, <2>3 DEF ScheduleInv
<1>6. CASE UpdateWrite
  <2>1. /\ request.phase = "read" /\ row # NoRow /\ createdAt' = createdAt
        /\ row' = [NewRow(request.input) EXCEPT
                     !.nextRunAt = DueAfterUpdate(request.input, request.existing)]
    BY <1>6 DEF UpdateWrite, historyVars
  <2>2. request.input.cron \in Crons /\ request.existing.nextRunAt \in Nat
    BY <1>0, <2>1 DEF RequestTyped, RowTyped
  <2>3. row'.nextRunAt \in {0, request.existing.nextRunAt} /\ row'.cron = request.input.cron
        /\ DOMAIN row' = {"cron", "isActive", "publishSchema", "nextRunAt"}
    BY <2>1 DEF NewRow, DueAfterUpdate
  <2>4. RowTyped(row)'
    BY <2>2, <2>3 DEF RowTyped
  <2>5. QED
    BY <1>5, <2>1, <2>3, <2>4
<1>7. CASE deleteSchedule
  <2>1. row' = NoRow /\ createdAt' = createdAt
    BY <1>7 DEF deleteSchedule, historyVars
  <2>2. RowTyped(row)' /\ row'.nextRunAt = 0
    BY <1>0, <2>1 DEF RowTyped
  <2>3. QED
    BY <1>5, <2>1, <2>2
<1>8. QED
  BY <1>4, <1>6, <1>7

\* A tick reads a due row, a runner dies, time passes.
LEMMA TickSteps ==
    ASSUME ScheduleInv, TickRead \/ RunnerCrash \/ TimePasses PROVE ScheduleInv'
<1>0. ScheduleTyped /\ DueAhead /\ JobAhead /\ FiresInOrder
  BY DEF ScheduleInv
<1>1. UNCHANGED <<row, schedules, editing, form, request, fires, createdAt, overlap>>
  BY DEF TickRead, RunnerCrash, TimePasses, pageVars, historyVars
<1>2. /\ RowTyped(row)' /\ RowTyped(schedules)' /\ RowTyped(editing)' /\ FormTyped(form)'
      /\ RequestTyped'
  BY <1>0, <1>1 DEF ScheduleTyped, RowTyped, FormTyped, RequestTyped
<1>3. CASE TickRead
  <2>1. PICK j : j = [phase |-> "read", read |-> row, now |-> clock]
    OBVIOUS
  <2>2. /\ job' = j /\ clock' = clock /\ row # NoRow /\ row.nextRunAt <= clock
        /\ j.phase = "read" /\ j.read = row /\ j.now = clock
        /\ DOMAIN j = {"phase", "read", "now"}
    BY <1>3, <2>1 DEF TickRead, Due
  <2>3. JobTyped'
    BY <1>0, <2>2 DEF ScheduleTyped, JobTyped, RowTyped
  <2>4. ScheduleTyped'
    BY <1>0, <1>1, <1>2, <2>2, <2>3 DEF ScheduleTyped
  <2>5. DueAhead' /\ FiresInOrder'
    BY <1>0, <1>1, <2>2 DEF DueAhead, FiresInOrder, Ahead, Beyond
  <2>6. JobAhead'
    BY <1>0, <1>1, <2>2 DEF JobAhead, DueAhead, Ahead, FiresInOrder, ScheduleTyped
  <2>7. QED
    BY <2>4, <2>5, <2>6 DEF ScheduleInv
<1>4. CASE RunnerCrash
  <2>1. job' = NoJob /\ clock' = clock /\ NoJob.phase = "idle"
    BY <1>4 DEF RunnerCrash, NoJob
  <2>2. ScheduleTyped'
    BY <1>0, <1>1, <1>2, <2>1 DEF ScheduleTyped, JobTyped
  <2>3. QED
    BY <1>0, <1>1, <2>1, <2>2 DEF ScheduleInv, DueAhead, JobAhead, FiresInOrder, Ahead, Beyond
<1>5. CASE TimePasses
  <2>1. job' = job /\ clock' = clock + 1
    BY <1>5 DEF TimePasses
  <2>2. JobTyped'
    BY <1>0, <2>1 DEF ScheduleTyped, JobTyped, RowTyped
  <2>3. ScheduleTyped'
    BY <1>0, <1>1, <1>2, <2>1, <2>2 DEF ScheduleTyped
  <2>4. DueAhead'
    BY <1>0, <1>1, <2>1 DEF DueAhead, Ahead, Beyond
  <2>5. \A i \in DOMAIN fires : fires[i] \in Nat
    BY <1>0, ElementOfSeq, LenProperties DEF ScheduleTyped
  <2>6. JobAhead' /\ FiresInOrder'
    BY <1>0, <1>1, <2>1, <2>5 DEF JobAhead, FiresInOrder, Ahead, ScheduleTyped, JobTyped
  <2>7. QED
    BY <2>3, <2>4, <2>6 DEF ScheduleInv
<1>6. QED
  BY <1>3, <1>4, <1>5

\* The tick advances the row beyond the time it read; inside a PATCH that counts as
\* an overlap.
LEMMA AdvanceStep == ASSUME ScheduleInv, Advance PROVE ScheduleInv'
<1>0. /\ ScheduleTyped /\ DueAhead /\ JobAhead /\ FiresInOrder /\ JobTyped /\ RowTyped(row)
      /\ NoJob.phase = "idle"
  BY DEF ScheduleInv, ScheduleTyped, NoJob
<1>1. /\ UNCHANGED <<schedules, editing, form, request, clock, fires, createdAt>>
      /\ job.phase = "read" /\ job # NoJob
      /\ overlap' = (overlap \/ request.phase = "read")
      /\ job' = NoJob \/ (job' = [job EXCEPT !.phase = "advanced"] /\ job.read.nextRunAt # 0)
  BY <1>0 DEF Advance, pageVars
<1>2. PICK n : n = NextFire(job.read.cron, job.now)
  OBVIOUS
<1>3. n \in Nat /\ (n # 0 => n > job.now) /\ job.now \in Nat
  <2>1. PICK c, now : c = job.read.cron /\ now = job.now
    OBVIOUS
  <2>2. c \in Crons /\ now \in Nat
    BY <1>0, <1>1, <2>1 DEF JobTyped, RowTyped
  <2>3. QED
    BY <1>2, <2>1, <2>2, NextFireLater
<1>4. /\ RowTyped(row)' /\ (row = NoRow => row' = NoRow)
      /\ row'.nextRunAt \in {0, n}
  <2>1. CASE row = NoRow
    BY <2>1, NoRowTyped DEF Advance, RowTyped
  <2>2. CASE row # NoRow
    <3>1. row' = [row EXCEPT !.nextRunAt = n]
      BY <1>2, <2>2 DEF Advance
    <3>2. QED
      BY <1>0, <1>3, <2>2, <3>1 DEF RowTyped
  <2>3. QED
    BY <2>1, <2>2
<1>5. JobTyped' /\ (job' # NoJob => job'.read = job.read /\ job'.now = job.now)
  BY <1>0, <1>1 DEF JobTyped, RowTyped
<1>6. ScheduleTyped'
  <2>1. /\ RowTyped(schedules)' /\ RowTyped(editing)' /\ FormTyped(form)' /\ RequestTyped'
        /\ overlap' \in BOOLEAN
    BY <1>0, <1>1 DEF ScheduleTyped, RowTyped, FormTyped, RequestTyped
  <2>2. QED
    BY <1>0, <1>1, <1>4, <1>5, <2>1 DEF ScheduleTyped
<1>7. \A i \in DOMAIN fires : fires[i] \in Nat
  BY <1>0, ElementOfSeq, LenProperties DEF ScheduleTyped
<1>8. Ahead(row.nextRunAt)'
  BY <1>0, <1>1, <1>3, <1>4, <1>7 DEF Ahead, JobAhead, ScheduleTyped
<1>9. Beyond(row.nextRunAt)'
  <2>1. job.read.nextRunAt \in Nat /\ job.read.nextRunAt <= job.now
    BY <1>0, <1>1 DEF JobAhead, JobTyped, RowTyped
  <2>2. job' = NoJob \/ job'.read.nextRunAt = job.read.nextRunAt
    BY <1>5
  <2>3. QED
    BY <1>0, <1>3, <1>4, <2>1, <2>2 DEF Beyond
<1>10. DueAhead'
  BY <1>0, <1>1, <1>8, <1>9 DEF DueAhead, Ahead, Beyond
<1>11. JobAhead' /\ FiresInOrder'
  BY <1>0, <1>1, <1>5 DEF JobAhead, FiresInOrder, Ahead
<1>12. QED
  BY <1>6, <1>10, <1>11 DEF ScheduleInv

\* The slot that was read is launched: later than all before, and than nothing after.
LEMMA LaunchStep == ASSUME ScheduleInv, Launch PROVE ScheduleInv'
<1>0. /\ ScheduleTyped /\ DueAhead /\ JobAhead /\ FiresInOrder /\ JobTyped /\ RowTyped(row)
      /\ NoJob.phase = "idle" /\ RequestTyped
  BY DEF ScheduleInv, ScheduleTyped, NoJob
<1>1. PICK n, fs : n = job.read.nextRunAt /\ fs = fires
  OBVIOUS
<1>2. /\ UNCHANGED <<row, schedules, editing, form, request, clock, createdAt, overlap>>
      /\ job.phase = "advanced" /\ job # NoJob /\ job' = NoJob /\ fires' = Append(fs, n)
  BY <1>0, <1>1 DEF Launch, pageVars, historyVars
<1>3. n \in Nat \ {0} /\ fs \in Seq(Nat) /\ n <= clock
  BY <1>0, <1>1, <1>2 DEF ScheduleTyped, JobTyped, RowTyped, JobAhead
<1>4. /\ Append(fs, n) \in Seq(Nat) /\ Len(fs) \in Nat /\ DOMAIN fs = 1 .. Len(fs)
      /\ DOMAIN Append(fs, n) = 1 .. Len(fs) + 1
      /\ \A i \in 1 .. Len(fs) : Append(fs, n)[i] = fs[i]
      /\ Append(fs, n)[Len(fs) + 1] = n
  BY <1>3, AppendProperties, LenProperties
<1>5. PICK k \in Nat : k = Len(fs)
  BY <1>4
<1>6. /\ DOMAIN fires = 1 .. k /\ DOMAIN fires' = 1 .. k + 1 /\ fires'[k + 1] = n
      /\ \A i \in 1 .. k : fires'[i] = fires[i]
      /\ \A i \in 1 .. k + 1 : i \in 1 .. k \/ i = k + 1
  BY <1>1, <1>2, <1>4, <1>5
<1>7. ScheduleTyped'
  <2>1. /\ RowTyped(row)' /\ RowTyped(schedules)' /\ RowTyped(editing)' /\ FormTyped(form)'
        /\ RequestTyped' /\ JobTyped'
    BY <1>0, <1>2 DEF ScheduleTyped, RowTyped, FormTyped, RequestTyped, JobTyped
  <2>2. createdAt # 0
    BY <1>0, <1>2 DEF ScheduleTyped
  <2>3. QED
    BY <1>0, <1>2, <1>4, <2>1, <2>2 DEF ScheduleTyped
<1>8. Ahead(n)
  BY <1>0, <1>1, <1>2 DEF JobAhead
<1>9. ASSUME NEW m \in Nat, Ahead(m), Beyond(m) PROVE Ahead(m)'
  BY <1>1, <1>2, <1>6, <1>9 DEF Ahead, Beyond
<1>10. DueAhead'
  <2>1. PICK m, e : m = row.nextRunAt /\ e = request.existing.nextRunAt
    OBVIOUS
  <2>2. m \in Nat /\ e \in Nat
    BY <1>0, <2>1 DEF RowTyped, RequestTyped
  <2>3. Ahead(m)' /\ (request.phase = "read" => Ahead(e)')
    BY <1>0, <1>9, <2>1, <2>2 DEF DueAhead
  <2>4. row'.nextRunAt = m /\ request'.existing.nextRunAt = e /\ job'.phase # "advanced"
        /\ request'.phase = request.phase
    BY <1>0, <1>2, <2>1
  <2>5. QED
    BY <2>3, <2>4 DEF DueAhead, Beyond
<1>11. JobAhead'
  BY <1>2 DEF JobAhead
<1>12. FiresInOrder'
  <2>1. \A i \in 1 .. k + 1 : fires'[i] > createdAt /\ fires'[i] <= clock
    BY <1>0, <1>3, <1>6, <1>8 DEF FiresInOrder, Ahead
  <2>2. ASSUME ~overlap, NEW i \in 1 .. k + 1, NEW j \in 1 .. k + 1, i < j
        PROVE  fires'[i] < fires'[j]
    <3>1. i \in 1 .. k
      BY <2>2
    <3>2. CASE j \in 1 .. k
      BY <1>0, <1>6, <2>2, <3>1, <3>2 DEF FiresInOrder
    <3>3. CASE j = k + 1
      BY <1>3, <1>6, <1>8, <2>2, <3>1, <3>3 DEF Ahead
    <3>4. QED
      BY <1>6, <3>2, <3>3
  <2>3. QED
    BY <1>2, <1>6, <2>1, <2>2 DEF FiresInOrder
<1>13. QED
  BY <1>7, <1>10, <1>11, <1>12 DEF ScheduleInv

\* Every step keeps the invariant.
LEMMA ScheduleStepInv == ScheduleInv /\ [ScheduleNext]_scheduleVars => ScheduleInv'
<1> SUFFICES ASSUME ScheduleInv, [ScheduleNext]_scheduleVars PROVE ScheduleInv'
  OBVIOUS
<1>1. CASE UNCHANGED scheduleVars
  <2>1. /\ UNCHANGED <<row, job, clock, fires, createdAt, overlap>>
        /\ UNCHANGED <<request, schedules, editing, form>>
    BY <1>1 DEF scheduleVars, pageVars, historyVars
  <2>2. RequestTyped' /\ RowTyped(schedules)' /\ RowTyped(editing)' /\ FormTyped(form)'
    BY <2>1 DEF ScheduleInv, ScheduleTyped, RequestTyped, RowTyped, FormTyped
  <2>3. QED
    BY <2>1, <2>2, QuietSteps
<1>2. CASE ScheduleNext
  BY <1>2, DialogSteps, RequestPhases, WriteSteps, TickSteps, AdvanceStep, LaunchStep
     DEF ScheduleNext
<1>3. QED
  BY <1>1, <1>2

\* For any crons, whatever the periods: a slot that is launched lies after the
\* creation of the schedule, and is launched once.
THEOREM SlotsOnce == Spec => []FiresAsPlanned
<1>1. Init => ScheduleInit
  BY DEF Init
<1>2. ScheduleInv => FiresAsPlanned
  <2> SUFFICES ASSUME ScheduleInv PROVE NewScheduleWaits /\ FiresOnceAlone
    BY DEF FiresAsPlanned
  <2>1. /\ DOMAIN fires = 1 .. Len(fires) /\ Len(fires) \in Nat
        /\ \A i \in 1 .. Len(fires) : fires[i] \in Nat
    BY ElementOfSeq, LenProperties DEF ScheduleInv, ScheduleTyped
  <2>2. NewScheduleWaits
    BY DEF ScheduleInv, FiresInOrder, NewScheduleWaits
  <2>3. ASSUME ~overlap, NEW i \in DOMAIN fires, NEW j \in DOMAIN fires, i # j
        PROVE  fires[i] # fires[j]
    <3>1. i < j \/ j < i
      BY <2>1, <2>3
    <3>2. fires[i] < fires[j] \/ fires[j] < fires[i]
      BY <2>3, <3>1 DEF ScheduleInv, FiresInOrder
    <3>3. fires[i] \in Nat /\ fires[j] \in Nat
      BY <2>1
    <3>4. QED
      BY <3>2, <3>3
  <2>4. QED
    BY <2>2, <2>3 DEF FiresOnceAlone
<1>3. QED
  BY <1>1, <1>2, ScheduleInitInv, ScheduleStepInv, PageSteps, PTL DEF Spec

-----------------------------------------------------------------------------
(* The secrets of a connection.                                            *)

IsConn(c) == DOMAIN c = {"type", "auth", "secret", "secondary"}
IsDialog(d) == DOMAIN d = {"type", "auth", "credential", "secondary"}
               /\ d.credential \in {Blank, Typed}

\* What a form holds, or what the row it was opened on holds: a secret of the kind
\* that the form shows.
HasSecret(d) == IF d.type = "databricks" /\ d.auth = "oauth_m2m" THEN SecondTyped(d) = Typed
                ELSE d.credential = Typed
SentForKind(s) ==
    /\ IsDialog(s.form) /\ (s.existing # NoConn => s.existing.type = s.form.type)
    /\ s.form.type \in Guarded =>
          (s.existing # NoConn /\ s.existing.auth = s.form.auth) \/ HasSecret(s.form)

SecretInv ==
    /\ IsConn(conn) /\ staleEdit \in BOOLEAN
    /\ dialog # NoDialog => IsDialog(dialog) /\ (isEdit => existing.type = dialog.type)
    /\ saving # NoRequest => SentForKind(saving)
    /\ GuardedSecretsMatch /\ NoOrphanSecret

\* Init establishes it.
LEMMA SecretInitInv == SecretInit => SecretInv
<1> SUFFICES ASSUME SecretInit PROVE SecretInv
  OBVIOUS
<1>1. IsConn(NoConn) /\ NoConn.type = "none" /\ NoConn.secondary = Blank
  BY DEF IsConn, NoConn
<1>2. GuardedSecretsMatch /\ NoOrphanSecret
  BY <1>1 DEF SecretInit, GuardedSecretsMatch, NoOrphanSecret, Guarded
<1>3. QED
  BY <1>1, <1>2 DEF SecretInit, SecretInv

\* The row written by a save.
LEMMA StoredFields ==
    ASSUME NEW f, NEW r
    PROVE  /\ IsConn(Stored(f, r)) /\ Stored(f, r).type = f.type /\ Stored(f, r).auth = f.auth
           /\ Stored(f, r).secret = SecretAfter(f, r)
           /\ Stored(f, r).secondary = SecondaryAfter(f, r)
BY DEF Stored, IsConn

\* A second secret is sent for the kinds that use one.
LEMMA NoOrphanStored ==
    ASSUME NEW f, NEW r
    PROVE  SecondaryAfter(f, r) # Blank => UsesSecondary(f.type, f.auth)
<1>1. CASE PayloadSecrets(f).secondary = Typed
  <2>1. \/ f.type = "snowflake" /\ f.auth = "keypair"
        \/ f.type = "databricks" /\ f.auth = "oauth_m2m"
    BY <1>1 DEF PayloadSecrets, NoSecret, SingleSecret, SparkSecrets, SnowflakeSecrets,
                DatabricksSecrets, Blank, Typed
  <2>2. QED
    BY <2>1 DEF UsesSecondary
<1>2. CASE PayloadSecrets(f).secondary # Typed
  BY <1>2 DEF SecondaryAfter
<1>3. QED
  BY <1>1, <1>2

\* The secret the stored row uses is of its kind, if the form brought one or the row
\* had one of the same kind.
LEMMA GuardedStored ==
    ASSUME NEW f, NEW r, IsDialog(f), f.type \in Guarded,
           \/ HasSecret(f)
           \/ r.type = f.type /\ r.auth = f.auth /\ SecretUsed(r) = r.auth
    PROVE  SecretUsed(Stored(f, r)) = f.auth
<1>0. /\ Stored(f, r).type = f.type /\ Stored(f, r).auth = f.auth
      /\ Stored(f, r).secret = SecretAfter(f, r)
      /\ Stored(f, r).secondary = SecondaryAfter(f, r)
      /\ f.type \in {"snowflake", "databricks"}
  BY StoredFields DEF Guarded
<1>1. CASE f.type = "databricks" /\ f.auth = "oauth_m2m"
  <2>1. PayloadSecrets(f).secondary = SecondTyped(f)
    BY <1>1 DEF PayloadSecrets, DatabricksSecrets
  <2>2. UsesSecondary(f.type, f.auth)
    BY <1>1 DEF UsesSecondary
  <2>3. SecretUsed(Stored(f, r)) = SecondaryAfter(f, r)
    BY <1>0, <1>1 DEF SecretUsed
  <2>4. r.type = f.type /\ r.auth = f.auth => SecretUsed(r) = r.secondary
    BY <1>1 DEF SecretUsed
  <2>5. SecondaryAfter(f, r) = f.auth
    BY <1>1, <2>1, <2>2, <2>4 DEF SecondaryAfter, HasSecret
  <2>6. QED
    BY <2>3, <2>5
<1>2. CASE ~(f.type = "databricks" /\ f.auth = "oauth_m2m")
  <2>1. PayloadSecrets(f).credential = f.credential
    BY <1>0 DEF PayloadSecrets, SnowflakeSecrets, DatabricksSecrets
  <2>2. SecretUsed(Stored(f, r)) = SecretAfter(f, r)
    BY <1>0, <1>2 DEF SecretUsed
  <2>3. r.type = f.type /\ r.auth = f.auth => SecretUsed(r) = r.secret
    BY <1>0, <1>2 DEF SecretUsed
  <2>4. SecretAfter(f, r) = f.auth
    BY <1>2, <2>1, <2>3 DEF SecretAfter, HasSecret
  <2>5. QED
    BY <2>2, <2>4
<1>3. QED
  BY <1>1, <1>2

\* Steps that leave the row and the request alone.
LEMMA DialogOnly ==
    ASSUME SecretInv, UNCHANGED <<conn, staleEdit>>, UNCHANGED saving \/ saving' = NoRequest,
           dialog' # NoDialog => IsDialog(dialog')
                                 /\ (existing' # NoConn => existing'.type = dialog'.type)
    PROVE  SecretInv'
BY DEF SecretInv, isEdit, GuardedSecretsMatch, NoOrphanSecret

\* The form is opened, closed and filled.
LEMMA FormSteps ==
    ASSUME SecretInv,
           \/ \E t \in ConnTypes : chooseType(t)
           \/ handleEdit \/ handleOpenChange \/ SetAuth \/ SetCredential \/ SetSecondary
           \/ handleTypeChange
    PROVE  SecretInv'
<1>0. /\ UNCHANGED <<conn, staleEdit, saving>>
      /\ dialog # NoDialog => IsDialog(dialog) /\ (existing # NoConn => existing.type = dialog.type)
  BY DEF chooseType, handleEdit, handleOpenChange, SetAuth, SetCredential, SetSecondary,
         handleTypeChange, SetFields, SecretInv, isEdit
<1>1. ASSUME NEW t \in ConnTypes, chooseType(t) PROVE SecretInv'
  <2>1. IsDialog(dialog') /\ existing' = NoConn
    BY <1>1 DEF chooseType, IsDialog
  <2>2. QED
    BY <1>0, <2>1, DialogOnly
<1>2. CASE handleEdit
  <2>1. IsDialog(dialog') /\ dialog'.type = shownConn.type /\ existing' = shownConn
    BY <1>2 DEF handleEdit, IsDialog
  <2>2. QED
    BY <1>0, <2>1, DialogOnly
<1>3. CASE handleOpenChange
  BY <1>0, <1>3, DialogOnly DEF handleOpenChange
<1>4. CASE SetAuth \/ SetCredential \/ SetSecondary \/ handleTypeChange
  <2>1. /\ dialog # NoDialog /\ existing' = existing
        /\ \/ \E a : dialog' = [dialog EXCEPT !.auth = a]
           \/ dialog' = [dialog EXCEPT !.credential = Typed]
           \/ dialog' = [dialog EXCEPT !.secondary = @ \cup {dialog.type}]
           \/ existing = NoConn /\ \E t, a : dialog' = [dialog EXCEPT !.type = t, !.auth = a]
    BY <1>4 DEF SetAuth, SetCredential, SetSecondary, handleTypeChange, SetFields, isEdit
  <2>2. IsDialog(dialog') /\ (existing # NoConn => dialog'.type = dialog.type)
    BY <1>0, <2>1 DEF IsDialog
  <2>3. QED
    BY ZenonT(40), <1>0, <2>1, <2>2, DialogOnly
<1>5. QED
  BY SMTT(30), <1>1, <1>2, <1>3, <1>4

\* The form is submitted: handleSubmit has checked that its kind has a secret.
LEMMA SubmitStep == ASSUME SecretInv, handleSubmit PROVE SecretInv'
<1>1. PICK d, e, s : d = dialog /\ e = existing /\ s = [form |-> dialog, existing |-> existing]
  OBVIOUS
<1>2. /\ UNCHANGED <<conn, dialog, existing, staleEdit>> /\ saving' = s /\ s.form = d
      /\ s.existing = e /\ IsDialog(d) /\ (e # NoConn => e.type = d.type)
  BY <1>1 DEF handleSubmit, SecretInv, isEdit
<1>3. d.type \in Guarded => (e # NoConn /\ e.auth = d.auth) \/ HasSecret(d)
  <2>1. SubmitOK(d)
    BY <1>1 DEF handleSubmit
  <2>2. canKeepExisting(d.type, d.auth) => e # NoConn /\ e.auth = d.auth
    BY <1>1 DEF canKeepExisting, isEdit
  <2>3. d.credential # Blank => d.credential = Typed
    BY <1>2 DEF IsDialog
  <2>4. QED
    BY <2>1, <2>2, <2>3 DEF SubmitOK, HasSecret
<1>4. SentForKind(saving)'
  BY <1>2, <1>3 DEF SentForKind
<1>5. QED
  BY <1>2, <1>4 DEF SecretInv, isEdit, GuardedSecretsMatch, NoOrphanSecret

\* The row is stored.
LEMMA SavedStep == ASSUME SecretInv, SaveAnswer PROVE SecretInv'
<1>1. PICK f, e, r : /\ f = saving.form /\ e = saving.existing
                     /\ r = IF saving.existing = NoConn THEN NoConn ELSE conn
  OBVIOUS
<1>2. /\ conn' = Stored(f, r) /\ saving' = NoRequest /\ dialog' = NoDialog
      /\ staleEdit' = (staleEdit \/ (e # NoConn /\ e # NoSecrets(conn)))
      /\ staleEdit \in BOOLEAN /\ IsConn(conn) /\ SentForKind(saving)
  BY <1>1 DEF SaveAnswer, SecretInv
<1>3. NoOrphanSecret'
  <2>1. /\ conn'.type = f.type /\ conn'.auth = f.auth
        /\ conn'.secondary = SecondaryAfter(f, r)
    BY <1>2, StoredFields
  <2>2. QED
    BY <2>1, NoOrphanStored DEF NoOrphanSecret, UsesSecondary
<1>4. GuardedSecretsMatch'
  <2> SUFFICES ASSUME conn'.type \in Guarded, ~staleEdit' PROVE SecretUsed(conn') = conn'.auth
    BY DEF GuardedSecretsMatch
  <2>1. f.type \in Guarded /\ conn'.auth = f.auth /\ IsDialog(f)
    BY <1>1, <1>2, StoredFields DEF SentForKind
  <2>2. CASE HasSecret(f)
    BY <1>2, <2>1, <2>2, GuardedStored
  <2>3. CASE ~HasSecret(f)
    <3>1. e # NoConn /\ e.auth = f.auth /\ e.type = f.type /\ e = NoSecrets(conn) /\ ~staleEdit
      BY <1>1, <1>2, <2>1, <2>3 DEF SentForKind
    <3>2. r = conn /\ conn.type = f.type /\ conn.auth = f.auth
      BY <1>1, <1>2, <3>1 DEF NoSecrets, IsConn
    <3>3. SecretUsed(r) = r.auth
      BY <2>1, <3>1, <3>2 DEF SecretInv, GuardedSecretsMatch
    <3>4. QED
      BY <1>2, <2>1, <3>2, <3>3, GuardedStored
  <2>4. QED
    BY <2>2, <2>3
<1>5. IsConn(conn)' /\ staleEdit' \in BOOLEAN
  BY <1>2, StoredFields DEF IsConn
<1>6. QED
  BY <1>2, <1>3, <1>4, <1>5 DEF SecretInv

\* Every step keeps the invariant.
LEMMA SecretStepInv == SecretInv /\ [SecretNext]_secretVars => SecretInv'
<1> SUFFICES ASSUME SecretInv, [SecretNext]_secretVars PROVE SecretInv'
  OBVIOUS
<1>1. CASE SaveRefused \/ ListAnswer \/ UNCHANGED secretVars
  BY <1>1, DialogOnly DEF SaveRefused, ListAnswer, secretVars, SecretInv, isEdit
<1>2. CASE deleteConnection
  <2>1. IsConn(NoConn) /\ NoConn.type = "none" /\ NoConn.secondary = Blank
    BY DEF IsConn, NoConn
  <2>2. GuardedSecretsMatch' /\ NoOrphanSecret'
    BY <1>2, <2>1 DEF deleteConnection, GuardedSecretsMatch, NoOrphanSecret, Guarded
  <2>3. QED
    BY <1>2, <2>1, <2>2 DEF deleteConnection, SecretInv, isEdit
<1>3. QED
  BY <1>1, <1>2, FormSteps, SubmitStep, SavedStep DEF SecretNext

\* For any types and kinds of authentication: the secret a guarded connection uses was
\* typed for the kind it is saved with, and no second one outlives its kind.
THEOREM SecretsMatchKind == Spec => []SecretsOfKind
<1>1. Init => SecretInit
  BY DEF Init
<1>2. SecretInv => SecretsOfKind
  BY DEF SecretInv, SecretsOfKind
<1>3. QED
  BY <1>1, <1>2, SecretInitInv, SecretStepInv, PageSteps, PTL DEF Spec

-----------------------------------------------------------------------------
(* The targets of a project.                                               *)

IsTarget(r) == /\ r = [id |-> r.id, name |-> r.name]
               /\ r.id \in Nat /\ r.id > 0 /\ r.id <= lastTarget /\ r.name \in TargetNames
IsLoad(l) == l.of \in {"mount", "edit"} /\ DOMAIN l = {"of", "read", "rows"}
             /\ l.read \in BOOLEAN
RowsTyped ==
    /\ lastTarget \in Nat /\ DOMAIN artifacts = TargetNames
    /\ \A r \in targetRows : IsTarget(r)
    /\ \A r, s \in targetRows : r.id = s.id \/ r.name = s.name => r = s
EditTyped ==
    /\ DOMAIN targetEdit = {"kind", "row", "name", "wasActive", "here", "phase"}
    /\ targetEdit.phase \in {"none", "sent", "written", "load"}
    /\ targetEdit.phase = "none" => targetEdit = NoTargetEdit
    /\ targetEdit.phase # "none" =>
          IF targetEdit.kind \in {"add", "rename"} THEN targetEdit.name \in TargetNames
          ELSE targetEdit.name = targetEdit.row.name
    /\ targetEdit.phase = "written" => targetEdit.row.name \in TargetNames

\* State under a name belongs to the row of that name, or waits to be deleted.
ArtifactsOwned ==
    ~kept => \A n \in TargetNames :
                \/ artifacts[n] = 0
                \/ \E r \in targetRows : r.name = n /\ r.id = artifacts[n]
                \/ targetEdit.phase = "written" /\ n = targetEdit.row.name

\* One load ends a change, and exists once the change is written.
OneEditLoad ==
    /\ \A l \in listing : IsLoad(l)
    /\ \A l, m \in listing : l.of = "edit" /\ m.of = "edit" => l = m
    /\ \A l \in listing : l.of = "edit" => targetEdit.phase = "load"

\* A panel that reads the rows with no change under way shows rows that exist.
ShownExist ==
    ~crossed =>
        /\ ~panelOpen => targetEdit.phase = "none"
        /\ targetEdit.phase # "none" =>
              targetEdit.here = TRUE /\ \A l \in listing : l.of # "mount"
        /\ \A l \in listing : l.read => l.rows \subseteq targetRows
        /\ panelOpen /\ targetEdit.phase \in {"none", "sent"} => targets \subseteq targetRows
SelectedShown == panelOpen => dbtTarget \in Names(targets) \cup {DEFAULT_DBT_TARGET}

TargetInv ==
    /\ panelOpen \in BOOLEAN /\ crossed \in BOOLEAN /\ kept \in BOOLEAN
    /\ RowsTyped /\ EditTyped /\ ArtifactsOwned /\ OneEditLoad /\ ShownExist /\ SelectedShown

\* Init establishes it.
LEMMA TargetInitInv == TargetInit => TargetInv
<1> SUFFICES ASSUME TargetInit PROVE TargetInv
  OBVIOUS
<1>1. NoTargetEdit.phase = "none"
      /\ DOMAIN NoTargetEdit = {"kind", "row", "name", "wasActive", "here", "phase"}
  BY DEF NoTargetEdit
<1>2. RowsTyped /\ ArtifactsOwned
  BY DEF TargetInit, RowsTyped, ArtifactsOwned
<1>3. EditTyped
  BY <1>1 DEF TargetInit, EditTyped
<1>4. OneEditLoad /\ ShownExist /\ SelectedShown
  BY <1>1 DEF TargetInit, OneEditLoad, ShownExist, SelectedShown
<1>5. QED
  BY <1>2, <1>3, <1>4 DEF TargetInit, TargetInv

\* What the effect leaves selected is shown.
LEMMA SettledShown ==
    ASSUME NEW t, NEW rows PROVE Settled(t, rows) \in Names(rows) \cup {DEFAULT_DBT_TARGET}
BY DEF Settled

\* The panel is opened and left.
LEMMA PanelSteps == ASSUME TargetInv, OpenPanel \/ LeavePanel PROVE TargetInv'
<1> USE DEF TargetInv
<1>1. CASE OpenPanel
  <2>1. PICK m : m = [of |-> "mount", read |-> FALSE, rows |-> {}]
    OBVIOUS
  <2>2. /\ panelOpen' = TRUE /\ ~panelOpen /\ targets' = {} /\ listing' = listing \cup {m}
        /\ UNCHANGED <<targetRows, lastTarget, targetEdit, artifacts, crossed, kept>>
        /\ m.of = "mount" /\ ~m.read /\ IsLoad(m)
    BY <1>1, <2>1 DEF OpenPanel, IsLoad
  <2>3. RowsTyped' /\ EditTyped' /\ ArtifactsOwned'
    BY <2>2 DEF RowsTyped, EditTyped, ArtifactsOwned, IsTarget
  <2>4. OneEditLoad'
    BY <2>2 DEF OneEditLoad, IsLoad
  <2>5. ShownExist'
    BY <2>2 DEF ShownExist
  <2>6. SelectedShown'
    BY <1>1, <2>2, SettledShown DEF OpenPanel, SelectedShown
  <2>7. QED
    BY <2>2, <2>3, <2>4, <2>5, <2>6
<1>2. CASE LeavePanel
  <2>1. /\ panelOpen' = FALSE /\ listing' = {l \in listing : l.of # "mount"}
        /\ crossed' = (crossed \/ targetEdit # NoTargetEdit)
        /\ targetEdit' = [targetEdit EXCEPT !.here = FALSE]
        /\ UNCHANGED <<targetRows, lastTarget, targets, dbtTarget, artifacts, kept>>
    BY <1>2 DEF LeavePanel
  <2>2. /\ targetEdit'.phase = targetEdit.phase /\ targetEdit'.kind = targetEdit.kind
        /\ targetEdit'.row = targetEdit.row /\ targetEdit'.name = targetEdit.name
        /\ DOMAIN targetEdit' = DOMAIN targetEdit
    BY <2>1 DEF EditTyped
  <2>8. targetEdit = NoTargetEdit => targetEdit' = NoTargetEdit
    <3>1. [NoTargetEdit EXCEPT !.here = FALSE] = NoTargetEdit
      <4>1. PICK o, no : o = NoTargetEdit.row /\ no = FALSE
        OBVIOUS
      <4>2. NoTargetEdit = [kind |-> "none", row |-> o, name |-> DEFAULT_DBT_TARGET,
                            wasActive |-> no, here |-> no, phase |-> "none"]
        BY <4>1 DEF NoTargetEdit
      <4>3. [NoTargetEdit EXCEPT !.here = no] = NoTargetEdit
        BY <4>2
      <4>4. QED
        BY <4>1, <4>3
    <3>2. QED
      BY <2>1, <3>1
  <2>3. RowsTyped' /\ EditTyped' /\ ArtifactsOwned'
    BY <2>1, <2>2, <2>8 DEF RowsTyped, EditTyped, ArtifactsOwned, IsTarget
  <2>4. OneEditLoad'
    BY <2>1, <2>2 DEF OneEditLoad, IsLoad
  <2>5. ShownExist'
    BY <2>1, <2>2 DEF ShownExist, NoTargetEdit
  <2>6. QED
    BY <2>1, <2>3, <2>4, <2>5 DEF SelectedShown
<1>3. QED
  BY <1>1, <1>2

\* A target is selected, a run starts, dev gets another connection.
LEMMA SelectionSteps ==
    ASSUME TargetInv,
           UNCHANGED <<targetRows, lastTarget, panelOpen, targets, targetEdit, listing, artifacts,
                       crossed, kept>>,
           dbtTarget' \in Names(targets) \cup {DEFAULT_DBT_TARGET, dbtTarget}
    PROVE  TargetInv'
<1>1. RowsTyped' /\ EditTyped' /\ ArtifactsOwned'
  BY DEF TargetInv, RowsTyped, EditTyped, ArtifactsOwned, IsTarget
<1>2. OneEditLoad'
  BY DEF TargetInv, OneEditLoad, IsLoad
<1>3. ShownExist' /\ SelectedShown'
  BY DEF TargetInv, ShownExist, SelectedShown
<1>4. QED
  BY <1>1, <1>2, <1>3 DEF TargetInv

\* A change begins.
LEMMA BusySteps ==
    ASSUME TargetInv, addTarget \/ retarget \/ removeTarget \/ handleRenameTarget
    PROVE  TargetInv'
<1> USE DEF TargetInv
<1>1. PICK kind, r, n :
         /\ Busy(kind, r, n)
         /\ IF kind \in {"add", "rename"} THEN n \in TargetNames ELSE n = r.name
  BY DEF addTarget, retarget, removeTarget, handleRenameTarget
<1>2. /\ targetEdit = NoTargetEdit /\ panelOpen
      /\ targetEdit' = [kind |-> kind, row |-> r, name |-> n, wasActive |-> dbtTarget = r.name,
                        here |-> TRUE, phase |-> "sent"]
      /\ crossed' = (crossed \/ \E l \in listing : l.of = "mount")
      /\ UNCHANGED <<targetRows, lastTarget, panelOpen, targets, dbtTarget, listing, artifacts,
                     kept>>
  BY <1>1 DEF Busy
<1>3. /\ targetEdit'.phase = "sent" /\ targetEdit'.kind = kind /\ targetEdit'.row = r
      /\ targetEdit'.name = n /\ targetEdit'.here = TRUE /\ targetEdit.phase = "none"
      /\ DOMAIN targetEdit' = {"kind", "row", "name", "wasActive", "here", "phase"}
  BY <1>2 DEF NoTargetEdit
<1>4. RowsTyped' /\ EditTyped'
  BY <1>1, <1>2, <1>3 DEF RowsTyped, EditTyped, IsTarget
<1>5. ArtifactsOwned'
  BY <1>2, <1>3 DEF ArtifactsOwned
<1>6. OneEditLoad'
  BY <1>2, <1>3 DEF OneEditLoad, IsLoad
<1>7. ShownExist' /\ SelectedShown'
  BY <1>2, <1>3 DEF ShownExist, SelectedShown
<1>8. QED
  BY <1>2, <1>4, <1>5, <1>6, <1>7

\* The rows after a change: names and ids stay unique, and only the former row is lost.
LEMMA WrittenRows ==
    ASSUME RowsTyped, EditTyped, WriteTarget
    PROVE  /\ RowsTyped'
           /\ targetEdit.kind = "add" => targetRows \subseteq targetRows'
           /\ ~CleansUp => targetRows \subseteq targetRows'
           /\ targetEdit.kind # "add" =>
                 targetEdit.row \in targetRows /\ targetRows \ {targetEdit.row} \subseteq targetRows'
<1>0. /\ Possible /\ targetRows' = Written /\ UNCHANGED artifacts /\ targetEdit.phase = "sent"
      /\ lastTarget' = IF targetEdit.kind = "add" THEN lastTarget + 1 ELSE lastTarget
  BY DEF WriteTarget
<1>1. PICK k, o, n : k = targetEdit.kind /\ o = targetEdit.row /\ n = targetEdit.name
  OBVIOUS
<1>2. CASE k = "add"
  <2>1. PICK w : w = [id |-> lastTarget + 1, name |-> n]
    OBVIOUS
  <2>2. targetRows' = targetRows \cup {w} /\ lastTarget' = lastTarget + 1
    BY <1>0, <1>1, <1>2, <2>1 DEF Written
  <2>3. n \in TargetNames /\ \A r \in targetRows : r.name # n
    BY <1>0, <1>1, <1>2 DEF Possible, Free, EditTyped, RowsTyped, IsTarget
  <2>4. w.id = lastTarget + 1 /\ w.name = n /\ w = [id |-> w.id, name |-> w.name]
    BY <2>1
  <2>5. IsTarget(w)' /\ \A r \in targetRows : IsTarget(r)'
    BY <2>2, <2>3, <2>4 DEF RowsTyped, IsTarget
  <2>6. \A r \in targetRows : r.id # w.id /\ r.name # w.name
    BY <2>3, <2>4 DEF RowsTyped, IsTarget
  <2>7. RowsTyped'
    BY <1>0, <2>2, <2>5, <2>6 DEF RowsTyped
  <2>8. QED
    BY <1>1, <1>2, <2>2, <2>7 DEF CleansUp
<1>3. CASE k = "remove"
  <2>1. targetRows' = targetRows \ {o} /\ lastTarget' = lastTarget /\ o \in targetRows
    BY <1>0, <1>1, <1>3 DEF Written, Possible
  <2>2. RowsTyped'
    BY <1>0, <2>1 DEF RowsTyped, IsTarget
  <2>3. QED
    BY <1>1, <1>3, <2>1, <2>2 DEF CleansUp
<1>4. CASE k \notin {"add", "remove"}
  <2>1. PICK w : w = [o EXCEPT !.name = n]
    OBVIOUS
  <2>2. /\ targetRows' = (targetRows \ {o}) \cup {w} /\ lastTarget' = lastTarget
        /\ o \in targetRows /\ \A r \in targetRows : r.name = n => r.id = o.id
    BY <1>0, <1>1, <1>4, <2>1 DEF Written, Possible, Free
  <2>3. IsTarget(o) /\ o = [id |-> o.id, name |-> o.name]
    BY <2>2 DEF RowsTyped, IsTarget
  <2>4. w.id = o.id /\ w.name = n /\ w = [id |-> w.id, name |-> w.name]
    BY <2>1, <2>3
  <2>5. n \in TargetNames
    BY <1>0, <1>1, <2>3 DEF EditTyped, IsTarget
  <2>6. IsTarget(w)' /\ \A r \in targetRows : IsTarget(r)'
    BY <2>2, <2>3, <2>4, <2>5 DEF RowsTyped, IsTarget
  <2>7. \A r \in targetRows \ {o} : r.id # w.id /\ r.name # w.name
    BY <2>2, <2>4 DEF RowsTyped
  <2>8. RowsTyped'
    BY <1>0, <2>2, <2>6, <2>7 DEF RowsTyped
  <2>9. CASE k = "rename"
    BY <1>1, <2>2, <2>8, <2>9 DEF CleansUp
  <2>10. CASE k # "rename"
    <3>1. n = o.name
      BY <1>0, <1>1, <1>4, <2>10 DEF EditTyped
    <3>2. w = o
      BY <2>3, <2>4, <3>1
    <3>3. QED
      BY <1>1, <1>4, <2>2, <2>8, <3>2
  <2>11. QED
    BY <2>9, <2>10
<1>5. QED
  BY <1>2, <1>3, <1>4

\* The change is written or refused.
LEMMA WriteChange == ASSUME TargetInv, WriteTarget PROVE TargetInv'
<1> USE DEF TargetInv
<1>1. PICK m : m = [of |-> "edit", read |-> FALSE, rows |-> {}]
  OBVIOUS
<1>2. /\ targetEdit.phase = "sent"
      /\ targetEdit' = [targetEdit EXCEPT !.phase = IF CleansUp THEN "written" ELSE "load"]
      /\ listing' = IF CleansUp THEN listing ELSE listing \cup {m}
      /\ UNCHANGED <<panelOpen, targets, dbtTarget, artifacts, crossed, kept>>
  BY <1>1 DEF WriteTarget
<1>3. /\ targetEdit'.phase = IF CleansUp THEN "written" ELSE "load"
      /\ targetEdit'.kind = targetEdit.kind /\ targetEdit'.row = targetEdit.row
      /\ targetEdit'.name = targetEdit.name /\ targetEdit'.here = targetEdit.here
      /\ DOMAIN targetEdit' = DOMAIN targetEdit
  BY <1>2 DEF EditTyped
<1>4. m.of = "edit" /\ ~m.read /\ IsLoad(m)
  BY <1>1 DEF IsLoad
<1>5. /\ RowsTyped' /\ (~CleansUp => targetRows \subseteq targetRows')
      /\ targetEdit.kind # "add" =>
            targetEdit.row \in targetRows /\ targetRows \ {targetEdit.row} \subseteq targetRows'
  BY WrittenRows
<1>6. EditTyped'
  <2>1. CleansUp => targetEdit.row.name \in TargetNames
    BY <1>5 DEF CleansUp, RowsTyped, IsTarget
  <2>2. QED
    BY <1>2, <1>3, <2>1 DEF EditTyped
<1>7. ArtifactsOwned'
  <2>1. CASE ~CleansUp
    BY <1>2, <1>3, <1>5, <2>1 DEF ArtifactsOwned
  <2>2. CASE CleansUp
    <3>1. targetEdit'.phase = "written" /\ targetEdit.kind # "add"
      BY <1>3, <2>2 DEF CleansUp
    <3>2. QED
      BY <1>2, <1>3, <1>5, <3>1 DEF ArtifactsOwned
  <2>3. QED
    BY <2>1, <2>2
<1>8. OneEditLoad'
  <2>1. \A l \in listing : l.of # "edit"
    BY <1>2 DEF OneEditLoad
  <2>2. QED
    BY <1>2, <1>3, <1>4, <2>1 DEF OneEditLoad, IsLoad
<1>9. ShownExist'
  <2>1. ~crossed => listing = {}
    BY <1>2 DEF ShownExist, OneEditLoad, IsLoad
  <2>2. QED
    BY <1>2, <1>3, <1>4, <2>1 DEF ShownExist
<1>10. QED
  BY <1>2, <1>5, <1>6, <1>7, <1>8, <1>9 DEF SelectedShown

\* The change is refused.
LEMMA RefuseChange == ASSUME TargetInv, RefuseTarget PROVE TargetInv'
<1> USE DEF TargetInv
<1>1. /\ targetEdit.phase = "sent" /\ targetEdit' = NoTargetEdit
      /\ UNCHANGED <<targetRows, lastTarget, panelOpen, targets, dbtTarget, listing, artifacts,
                     crossed, kept>>
  BY DEF RefuseTarget
<1>2. NoTargetEdit.phase = "none"
      /\ DOMAIN NoTargetEdit = {"kind", "row", "name", "wasActive", "here", "phase"}
  BY DEF NoTargetEdit
<1>3. RowsTyped' /\ EditTyped' /\ ArtifactsOwned'
  BY <1>1, <1>2 DEF RowsTyped, EditTyped, ArtifactsOwned, IsTarget
<1>4. OneEditLoad'
  BY <1>1, <1>2 DEF OneEditLoad, IsLoad
<1>5. ShownExist' /\ SelectedShown'
  BY <1>1, <1>2 DEF ShownExist, SelectedShown
<1>6. QED
  BY <1>1, <1>3, <1>4, <1>5

\* The artifacts of the former name are deleted, or that failed.
LEMMA CleanUpStep == ASSUME TargetInv, NEW ok \in BOOLEAN, CleanUp(ok) PROVE TargetInv'
<1> USE DEF TargetInv
<1>1. PICK m : m = [of |-> "edit", read |-> FALSE, rows |-> {}]
  OBVIOUS
<1>2. /\ targetEdit.phase = "written" /\ targetEdit' = [targetEdit EXCEPT !.phase = "load"]
      /\ artifacts' = AfterCleanUp(ok) /\ listing' = listing \cup {m}
      /\ kept' = (kept \/ (~ok /\ artifacts[targetEdit.row.name] # 0))
      /\ UNCHANGED <<targetRows, lastTarget, panelOpen, targets, crossed>>
  BY <1>1 DEF CleanUp
<1>3. /\ targetEdit'.phase = "load" /\ targetEdit'.kind = targetEdit.kind
      /\ targetEdit'.row = targetEdit.row /\ targetEdit'.name = targetEdit.name
      /\ targetEdit'.here = targetEdit.here /\ DOMAIN targetEdit' = DOMAIN targetEdit
  BY <1>2 DEF EditTyped
<1>4. m.of = "edit" /\ ~m.read /\ IsLoad(m)
  BY <1>1 DEF IsLoad
<1>5. RowsTyped' /\ EditTyped'
  <2>1. DOMAIN artifacts' = TargetNames
    BY <1>2 DEF AfterCleanUp, RowsTyped
  <2>2. QED
    BY <1>2, <1>3, <2>1 DEF RowsTyped, EditTyped, IsTarget
<1>6. ArtifactsOwned'
  <2> SUFFICES ASSUME ~kept', NEW n \in TargetNames
               PROVE  \/ artifacts'[n] = 0
                      \/ \E r \in targetRows' : r.name = n /\ r.id = artifacts'[n]
    BY DEF ArtifactsOwned
  <2>1. ~kept /\ (ok \/ artifacts[targetEdit.row.name] = 0)
    BY <1>2
  <2>2. CASE n = targetEdit.row.name
    BY <1>2, <2>1, <2>2 DEF AfterCleanUp, RowsTyped
  <2>3. CASE n # targetEdit.row.name
    BY <1>2, <2>1, <2>3 DEF AfterCleanUp, RowsTyped, ArtifactsOwned
  <2>4. QED
    BY <2>2, <2>3
<1>7. OneEditLoad'
  <2>1. \A l \in listing : l.of # "edit"
    BY <1>2 DEF OneEditLoad
  <2>2. QED
    BY <1>2, <1>3, <1>4, <2>1 DEF OneEditLoad, IsLoad
<1>8. ShownExist'
  BY <1>2, <1>3, <1>4 DEF ShownExist
<1>9. SelectedShown'
  BY <1>2, SettledShown DEF CleanUp, SelectedShown
<1>10. QED
  BY <1>2, <1>5, <1>6, <1>7, <1>8, <1>9

\* The rows are read.
LEMMA ReadStep == ASSUME TargetInv, NEW l \in listing, ReadTargets(l) PROVE TargetInv'
<1> USE DEF TargetInv
<1>1. PICK m : m = [l EXCEPT !.read = TRUE, !.rows = targetRows]
  OBVIOUS
<1>2. /\ listing' = (listing \ {l}) \cup {m} /\ l \in listing
      /\ UNCHANGED <<targetRows, lastTarget, panelOpen, targets, dbtTarget, targetEdit, artifacts,
                     crossed, kept>>
  BY <1>1 DEF ReadTargets
<1>3. m.of = l.of /\ m.rows = targetRows /\ IsLoad(m)
  BY <1>1, <1>2 DEF OneEditLoad, IsLoad
<1>4. RowsTyped' /\ EditTyped' /\ ArtifactsOwned'
  BY <1>2 DEF RowsTyped, EditTyped, ArtifactsOwned, IsTarget
<1>5. OneEditLoad'
  BY <1>2, <1>3 DEF OneEditLoad, IsLoad
<1>6. ShownExist' /\ SelectedShown'
  BY <1>2, <1>3 DEF ShownExist, SelectedShown
<1>7. QED
  BY <1>2, <1>4, <1>5, <1>6

\* The rows read are shown.
LEMMA ShowStep ==
    ASSUME TargetInv, NEW l \in listing, NEW ok \in BOOLEAN, ShowTargets(l, ok)
    PROVE  TargetInv'
<1> USE DEF TargetInv
<1>1. /\ l.read /\ listing' = listing \ {l} /\ l \in listing /\ IsLoad(l)
      /\ targetEdit' = IF l.of = "edit" THEN NoTargetEdit ELSE targetEdit
      /\ UNCHANGED <<targetRows, lastTarget, panelOpen, artifacts, crossed, kept>>
  BY DEF ShowTargets, EndsEdit, OneEditLoad
<1>2. IF panelOpen /\ (l.of = "mount" \/ targetEdit.here)
      THEN /\ targets' = (IF ok THEN l.rows ELSE {})
           /\ dbtTarget' = Settled(dbtTarget, targets')
      ELSE UNCHANGED <<targets, dbtTarget>>
  BY DEF ShowTargets
<1>3. NoTargetEdit.phase = "none"
      /\ DOMAIN NoTargetEdit = {"kind", "row", "name", "wasActive", "here", "phase"}
  BY DEF NoTargetEdit
<1>4. l.of = "edit" => targetEdit.phase = "load"
  BY DEF OneEditLoad
<1>5. RowsTyped' /\ EditTyped' /\ ArtifactsOwned'
  BY <1>1, <1>3, <1>4 DEF RowsTyped, EditTyped, ArtifactsOwned, IsTarget
<1>6. OneEditLoad'
  BY <1>1, <1>3 DEF OneEditLoad, IsLoad
<1>7. SelectedShown'
  BY <1>1, <1>2, SettledShown DEF SelectedShown
<1>8. ShownExist'
  <2> SUFFICES ASSUME ~crossed PROVE ShownExist'
    BY <1>1 DEF ShownExist
  <2>1. CASE l.of = "mount"
    <3>1. targetEdit.phase = "none" /\ l.rows \subseteq targetRows
      BY <1>1, <2>1 DEF ShownExist
    <3>2. targetEdit' = targetEdit
      BY <1>1, <2>1
    <3>3. QED
      BY <1>1, <1>2, <3>1, <3>2 DEF ShownExist
  <2>2. CASE l.of = "edit"
    <3>1. targetEdit.here = TRUE /\ panelOpen /\ l.rows \subseteq targetRows
      BY <1>1, <1>4, <2>2 DEF ShownExist
    <3>2. targetEdit' = NoTargetEdit
      BY <1>1, <2>2
    <3>3. targets' \subseteq targetRows
      BY <1>2, <3>1
    <3>4. QED
      BY <1>1, <1>3, <3>1, <3>2, <3>3 DEF ShownExist
  <2>3. QED
    BY <1>1, <2>1, <2>2 DEF IsLoad
<1>9. QED
  BY <1>1, <1>5, <1>6, <1>7, <1>8

\* A run ends: its artifacts are saved under the name of its target.
LEMMA ArtifactsStep == ASSUME TargetInv, NEW r \in dbtRuns, SaveArtifacts(r) PROVE TargetInv'
<1> USE DEF TargetInv
<1>1. /\ artifacts' = [artifacts EXCEPT ![r.name] = r.id] /\ kept' = (kept \/ r \notin targetRows)
      /\ UNCHANGED <<targetRows, lastTarget, panelOpen, targets, dbtTarget, targetEdit, listing,
                     crossed>>
  BY DEF SaveArtifacts
<1>2. RowsTyped' /\ EditTyped'
  BY <1>1 DEF RowsTyped, EditTyped, IsTarget
<1>3. ArtifactsOwned'
  BY <1>1 DEF ArtifactsOwned, RowsTyped
<1>4. OneEditLoad'
  BY <1>1 DEF OneEditLoad, IsLoad
<1>5. ShownExist' /\ SelectedShown'
  BY <1>1 DEF ShownExist, SelectedShown
<1>6. QED
  BY <1>1, <1>2, <1>3, <1>4, <1>5

\* Every step keeps the invariant.
LEMMA TargetStepInv == TargetInv /\ [TargetNext]_targetVars => TargetInv'
<1> SUFFICES ASSUME TargetInv, [TargetNext]_targetVars PROVE TargetInv'
  OBVIOUS
<1>1. CASE \/ \E t \in TargetNames \cup {DEFAULT_DBT_TARGET} : SelectTarget(t)
           \/ SelectConnection \/ RunOnTarget \/ UNCHANGED targetVars
           \/ \E was \in connecting, ok \in BOOLEAN : ConnectionSaved(was, ok)
  <2>1. /\ UNCHANGED <<targetRows, lastTarget, panelOpen, targets, targetEdit, listing, artifacts,
                       crossed, kept>>
        /\ dbtTarget' \in Names(targets) \cup {DEFAULT_DBT_TARGET, dbtTarget}
    BY <1>1 DEF SelectTarget, SelectConnection, RunOnTarget, targetVars, ConnectionSaved
  <2>2. QED
    BY <2>1, SelectionSteps
<1>2. QED
  BY <1>1, PanelSteps, BusySteps, WriteChange, RefuseChange, CleanUpStep, ReadStep, ShowStep,
     ArtifactsStep DEF TargetNext

\* For any names and numbers of targets: with a quiet panel the selected target exists,
\* and a target does not take over the artifacts of another of the same name.
THEOREM RemovedTargetsLeaveNothing == Spec => []RemovedTargetsGone
<1>1. Init => TargetInit
  BY DEF Init
<1>2. TargetInv => RemovedTargetsGone
  <2> SUFFICES ASSUME TargetInv PROVE SelectedExists /\ NoInheritedState
    BY DEF RemovedTargetsGone
  <2>1. SelectedExists
    <3>1. NoTargetEdit.phase = "none"
      BY DEF NoTargetEdit
    <3>2. QED
      BY <3>1 DEF TargetInv, SelectedShown, ShownExist, SelectedExists, Names
  <2>2. NoInheritedState
    BY DEF TargetInv, ArtifactsOwned, RowsTyped, IsTarget, NoInheritedState
  <2>3. QED
    BY <2>1, <2>2
<1>3. QED
  BY <1>1, <1>2, TargetInitInv, TargetStepInv, PageSteps, PTL DEF Spec
=============================================================================
