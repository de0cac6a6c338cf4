------------------------------ MODULE SqlConsole ------------------------------
(***************************************************************************)
(* The SQL console of Explore: SqlConsole.tsx and model/explore-data.ts.   *)
(* Query tabs (drafts), saved query files, and the requests in flight.     *)
(* requestRevision is modelled by a mark on each request: "live" while its *)
(* revision is still the current one.  Drafts are numbered as they are     *)
(* created; 0 is the id "initial".                                         *)
(***************************************************************************)
EXTENDS Naturals, FiniteSets

CONSTANTS QueryTexts, QueryPaths, RunTargets, NoText, NoPath, MaxDrafts, MaxConsole

ASSUME ConsoleAssumption ==
    /\ NoText \notin QueryTexts /\ NoPath \notin QueryPaths
    /\ {MaxDrafts, MaxConsole} \subseteq Nat

VARIABLES
    drafts,         \* open tabs: id -> [sql, path, saved]
    activeDraft,
    queryFiles,     \* analyses/explore: path -> text, NoText if there is none
    requests,       \* what awaits an answer
    runTarget,
    shown,          \* whose rows are on screen, {} if none
    queryRunning, formatting, savingQuery,
    closingId,      \* the tab the close dialog is about
    created, gestures,
    agreed,         \* history: tabs whose loss the user accepted in this step
    besides         \* history: the close dialog acted while another tab was active

consoleVars == <<drafts, activeDraft, queryFiles, requests, runTarget, shown, queryRunning,
                 formatting, savingQuery, closingId, created, gestures, agreed, besides>>

Ids == 0 .. MaxDrafts
NoTab == MaxDrafts + 1
BlankDraft == [sql |-> NoText, path |-> NoPath, saved |-> NoText]
draftDirty(d) == IF d.path # NoPath THEN d.sql # d.saved ELSE d.sql # NoText
Dirty(id) == draftDirty(drafts[id])
Newest(ids) == CHOOSE i \in ids : \A j \in ids : j <= i

ConsoleInit ==
    /\ \E t \in QueryTexts : drafts = [d \in {0} |-> [BlankDraft EXCEPT !.sql = t]]
    /\ activeDraft = 0
    /\ queryFiles \in [QueryPaths -> QueryTexts \cup {NoText}]
    /\ requests = {} /\ runTarget \in RunTargets /\ shown = {}
    /\ queryRunning = FALSE /\ formatting = FALSE /\ savingQuery = FALSE
    /\ closingId = NoTab /\ created = 0 /\ gestures = 0 /\ agreed = {} /\ besides = FALSE

-----------------------------------------------------------------------------
\* closeDraft
Without(ds, id) ==
    IF DOMAIN ds \ {id} = {} THEN [d \in {0} |-> BlankDraft]
    ELSE [d \in DOMAIN ds \ {id} |-> ds[d]]
ActiveWithout(ds, id) ==
    IF DOMAIN ds \ {id} = {} THEN 0
    ELSE IF activeDraft = id THEN Newest(DOMAIN ds \ {id}) ELSE activeDraft

\* clearResults: the revision moves on, and nothing is shown or awaited.
Stale(rs) == {[r EXCEPT !.live = FALSE] : r \in rs}
clearResults == shown' = {} /\ queryRunning' = FALSE /\ formatting' = FALSE
KeepResults == UNCHANGED <<shown, queryRunning, formatting>>

\* A gesture of the user; the close dialog is modal.
Gesture == closingId = NoTab /\ gestures < MaxConsole /\ gestures' = gestures + 1 /\ agreed' = {}
Answered(r) == r \in requests /\ agreed' = {}
UnchangedFiles == UNCHANGED <<queryFiles, created, besides>>

\* Typing; the editor is read-only while the text is formatted.
TypeSql(t) ==
    /\ Gesture /\ ~formatting
    /\ drafts' = [drafts EXCEPT ![activeDraft].sql = t]
    /\ UNCHANGED <<activeDraft, requests, runTarget, savingQuery, closingId>>
    /\ KeepResults /\ UnchangedFiles

runQuery ==
    /\ Gesture /\ ~queryRunning /\ ~formatting /\ drafts[activeDraft].sql # NoText
    /\ queryRunning' = TRUE
    /\ requests' = Stale(requests) \cup
          {[kind |-> "run", live |-> TRUE, id |-> activeDraft, target |-> runTarget]}
    /\ UNCHANGED <<drafts, activeDraft, runTarget, shown, formatting, savingQuery, closingId>>
    /\ UnchangedFiles
\* Its answer, rows or an error (which shows no rows).
AnyRevision(r) == TRUE
Current(r) == r.live
RunAnswer(r, ok) ==
    /\ Answered(r) /\ r.kind = "run" /\ requests' = requests \ {r}
    /\ IF Current(r)
       THEN /\ shown' = IF ok THEN {[id |-> r.id, target |-> r.target]} ELSE {}
            /\ queryRunning' = FALSE
       ELSE UNCHANGED <<shown, queryRunning>>
    /\ UNCHANGED <<drafts, activeDraft, runTarget, formatting, savingQuery, closingId, gestures>>
    /\ UnchangedFiles

format ==
    /\ Gesture /\ ~queryRunning /\ ~formatting /\ drafts[activeDraft].sql # NoText
    /\ formatting' = TRUE
    /\ requests' = requests \cup
          {[kind |-> "format", live |-> TRUE, id |-> activeDraft, target |-> runTarget]}
    /\ UNCHANGED <<drafts, activeDraft, runTarget, shown, queryRunning, savingQuery, closingId>>
    /\ UnchangedFiles
\* The formatted text goes to the draft that is active now; text is left alone
\* when the formatter refused.
FormatAnswer(r, t) ==
    /\ Answered(r) /\ r.kind = "format" /\ requests' = requests \ {r}
    /\ IF r.live
       THEN drafts' = [drafts EXCEPT ![activeDraft].sql = IF t = NoText THEN @ ELSE t]
            /\ formatting' = FALSE
       ELSE UNCHANGED <<drafts, formatting>>
    /\ UNCHANGED <<activeDraft, runTarget, shown, queryRunning, savingQuery, closingId, gestures>>
    /\ UnchangedFiles

\* The tab strip, the + button and a query started from the data browser.
SwitchDraft(id) ==
    /\ Gesture /\ id \in DOMAIN drafts /\ activeDraft' = id
    /\ requests' = Stale(requests) /\ clearResults
    /\ UNCHANGED <<drafts, runTarget, savingQuery, closingId>> /\ UnchangedFiles
WithNew(draft) == [d \in DOMAIN drafts \cup {created + 1} |->
                     IF d = created + 1 THEN draft ELSE drafts[d]]
newDraft(t) ==
    /\ Gesture /\ created < MaxDrafts /\ created' = created + 1
    /\ drafts' = WithNew([BlankDraft EXCEPT !.sql = t])
    /\ activeDraft' = created + 1
    /\ requests' = Stale(requests) /\ clearResults
    /\ UNCHANGED <<runTarget, savingQuery, closingId, queryFiles, besides>>
ChangeTarget(t) ==
    /\ Gesture /\ runTarget' = t
    /\ requests' = Stale(requests) /\ clearResults
    /\ UNCHANGED <<drafts, activeDraft, savingQuery, closingId>> /\ UnchangedFiles

\* closeQuery: a dirty tab is made active and asked about; its results stay.
AsksBeforeClose(id) == Dirty(id)
closeQuery(id) ==
    /\ Gesture /\ id \in DOMAIN drafts
    /\ IF AsksBeforeClose(id)
       THEN /\ activeDraft' = id /\ closingId' = id
            /\ UNCHANGED <<drafts, requests>> /\ KeepResults
       ELSE /\ drafts' = Without(drafts, id) /\ activeDraft' = ActiveWithout(drafts, id)
            /\ requests' = Stale(requests) /\ clearResults /\ UNCHANGED closingId
    /\ UNCHANGED <<runTarget, savingQuery>> /\ UnchangedFiles
\* Close other tabs, with its question when one of them is dirty.
CloseOthers ==
    /\ closingId = NoTab /\ gestures < MaxConsole /\ gestures' = gestures + 1
    /\ agreed' = DOMAIN drafts \ {activeDraft}
    /\ drafts' = [d \in DOMAIN drafts \cap {activeDraft} |-> drafts[d]]
    /\ requests' = Stale(requests) /\ clearResults
    /\ UNCHANGED <<activeDraft, runTarget, savingQuery, closingId>> /\ UnchangedFiles
\* The dialog's answers.
CancelClose ==
    /\ closingId # NoTab /\ ~savingQuery /\ closingId' = NoTab /\ agreed' = {}
    /\ UNCHANGED <<drafts, activeDraft, requests, runTarget, savingQuery, gestures>>
    /\ KeepResults /\ UnchangedFiles
DiscardChanges ==
    /\ closingId # NoTab /\ ~savingQuery /\ closingId' = NoTab /\ agreed' = {closingId}
    /\ IF closingId \in DOMAIN drafts
       THEN drafts' = Without(drafts, closingId) /\ activeDraft' = ActiveWithout(drafts, closingId)
       ELSE UNCHANGED <<drafts, activeDraft>>
    /\ requests' = Stale(requests) /\ clearResults
    /\ UNCHANGED <<runTarget, savingQuery, gestures>> /\ UnchangedFiles

\* saveDraft of the active tab under a name, from the button or from the close
\* dialog (closes); replacing another file has been confirmed.
saveDraft(p) ==
    /\ ~savingQuery /\ drafts[activeDraft].sql # NoText
    /\ gestures < MaxConsole /\ gestures' = gestures + 1 /\ agreed' = {}
    /\ savingQuery' = TRUE
    /\ requests' = requests \cup
          {[kind |-> "save", live |-> TRUE, id |-> activeDraft, path |-> p,
            sql |-> drafts[activeDraft].sql, closes |-> closingId]}
    /\ besides' = (besides \/ (closingId # NoTab /\ closingId # activeDraft))
    /\ UNCHANGED <<drafts, activeDraft, queryFiles, runTarget, closingId, created>>
    /\ KeepResults
\* The tab is marked with the text that was sent.
MarkCurrent(r) == [d \in DOMAIN drafts |->
    IF d = r.id THEN [drafts[d] EXCEPT !.path = r.path, !.saved = drafts[d].sql] ELSE drafts[d]]
MarkSaved(r) == [d \in DOMAIN drafts |->
    IF d = r.id THEN [drafts[d] EXCEPT !.path = r.path, !.saved = r.sql] ELSE drafts[d]]
SaveDraftAnswer(r, ok) ==
    /\ Answered(r) /\ r.kind = "save" /\ savingQuery' = FALSE
    /\ queryFiles' = IF ok THEN [queryFiles EXCEPT ![r.path] = r.sql] ELSE queryFiles
    /\ LET marked == IF ok THEN MarkSaved(r) ELSE drafts
           closes == ok /\ r.closes \in DOMAIN drafts
       IN  /\ drafts' = IF closes THEN Without(marked, r.closes) ELSE marked
           /\ activeDraft' = IF closes THEN ActiveWithout(marked, r.closes) ELSE activeDraft
    /\ IF ok /\ r.closes # NoTab
       THEN requests' = Stale(requests \ {r}) /\ clearResults /\ closingId' = NoTab
       ELSE requests' = requests \ {r} /\ KeepResults /\ UNCHANGED closingId
    /\ UNCHANGED <<runTarget, created, gestures, besides>>

\* loadSaved, from the list of saved queries or at the assistant's request
\* (which the close dialog does not hold back).
loadSaved(p) ==
    /\ gestures < MaxConsole /\ gestures' = gestures + 1 /\ agreed' = {}
    /\ IF \E d \in DOMAIN drafts : drafts[d].path = p
       THEN /\ \E d \in DOMAIN drafts : drafts[d].path = p /\ activeDraft' = d
            /\ requests' = Stale(requests) /\ clearResults
       ELSE /\ requests' = requests \cup {[kind |-> "read", live |-> TRUE, path |-> p]}
            /\ UNCHANGED activeDraft /\ KeepResults
    /\ UNCHANGED <<drafts, runTarget, savingQuery, closingId>> /\ UnchangedFiles
ReadAnswer(r) ==
    /\ Answered(r) /\ r.kind = "read"
    /\ IF queryFiles[r.path] = NoText \/ created = MaxDrafts
       THEN UNCHANGED <<drafts, activeDraft, created>> /\ requests' = requests \ {r} /\ KeepResults
       ELSE /\ created' = created + 1 /\ activeDraft' = created + 1
            /\ drafts' = WithNew([sql |-> queryFiles[r.path], path |-> r.path,
                                  saved |-> queryFiles[r.path]])
            /\ requests' = Stale(requests \ {r}) /\ clearResults
    /\ UNCHANGED <<queryFiles, runTarget, savingQuery, closingId, gestures, besides>>
\* Deleting a saved query keeps its tabs.
DeleteSaved(p) ==
    /\ Gesture /\ queryFiles[p] # NoText
    /\ queryFiles' = [queryFiles EXCEPT ![p] = NoText]
    /\ UNCHANGED <<drafts, activeDraft, requests, runTarget, savingQuery, closingId, created,
                   besides>>
    /\ KeepResults

\* The page is loaded again: readDrafts restores the tabs from localStorage.
Reload ==
    /\ Gesture /\ requests' = {} /\ clearResults /\ savingQuery' = FALSE
    /\ UNCHANGED <<drafts, activeDraft, runTarget, closingId>> /\ UnchangedFiles

ConsoleNext ==
    \/ \E t \in QueryTexts : TypeSql(t)
    \/ runQuery
    \/ \E r \in requests, ok \in BOOLEAN : RunAnswer(r, ok)
    \/ format
    \/ \E r \in requests, t \in QueryTexts \cup {NoText} : FormatAnswer(r, t)
    \/ \E id \in Ids : SwitchDraft(id)
    \/ \E t \in QueryTexts \cup {NoText} : newDraft(t)
    \/ \E t \in RunTargets : ChangeTarget(t)
    \/ \E id \in Ids : closeQuery(id)
    \/ CloseOthers \/ CancelClose \/ DiscardChanges
    \/ \E p \in QueryPaths : saveDraft(p)
    \/ \E r \in requests, ok \in BOOLEAN : SaveDraftAnswer(r, ok)
    \/ \E p \in QueryPaths : loadSaved(p)
    \/ \E r \in requests : ReadAnswer(r)
    \/ \E p \in QueryPaths : DeleteSaved(p)
    \/ Reload
-----------------------------------------------------------------------------
\* Rows on screen were computed on the target now selected: changing it clears
\* them, and an answer for the former target is dropped by the revision check.
ResultsOfTarget == \A rows \in shown : rows.target = runTarget

\* "Switching draft or target clears previous results" (docs/explore-sql.md): the
\* rows on screen are those of the active tab.
ResultsOfActive == \A rows \in shown : rows.id = activeDraft

\* A tab with unsaved text goes only when the user agreed to lose it, or after
\* Save and close wrote it; the exception is a close dialog answered while the
\* assistant had made another tab active.
UnsavedQueryKept ==
    [][\A id \in DOMAIN drafts :
         /\ drafts[id].sql # NoText /\ Dirty(id)
         /\ id \in DOMAIN drafts' => drafts'[id] = BlankDraft
         => \/ id \in agreed' \/ besides
            \/ \E r \in requests : r.kind = "save" /\ r.id = id /\ r.closes = id
      ]_consoleVars

\* A tab that shows no mark of unsaved text holds text that was read from, or
\* written to, its file; typing while a save is under way is not forgotten.
SavedMarkHonest ==
    [][\A id \in DOMAIN drafts \cap DOMAIN drafts' :
         Dirty(id) /\ ~draftDirty(drafts'[id]) /\ drafts'[id] # BlankDraft
         => \/ drafts'[id].sql # drafts[id].sql
            \/ queryFiles'[drafts'[id].path] = drafts'[id].sql ]_consoleVars

\* The text of a query is not lost, and not called saved when it is not.
QueriesKept == UnsavedQueryKept /\ SavedMarkHonest
=============================================================================
