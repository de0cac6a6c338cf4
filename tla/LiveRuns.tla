------------------------------- MODULE LiveRuns -------------------------------
(***************************************************************************)
(* The history of runs: RunsView.tsx (dashboard, detail, live log), and    *)
(* the log hub of routers/sse.py it attaches to.  A request carries the    *)
(* number it was given; only the answer to the latest one is shown.        *)
(***************************************************************************)
EXTENDS Naturals, Sequences, FiniteSets, SequencesExt

CONSTANTS
    Runs,
    Filters,
    NoRun,
    MaxLines,       \* lines a run prints
    MaxLooks        \* actions of the user and polls

ASSUME LiveAssumption == NoRun \notin Runs /\ {MaxLines, MaxLooks} \subseteq Nat

VARIABLES
    runStatus, printed,         \* the runner: status and number of lines of each run
    buffers, subscribed, queue, \* the hub: replay buffers, the view's queue
    filter, requestSequence, dashCalls, dashboard, dashLoading,
    selectedId, detailSequence, detailCalls, detail,
    stream, liveLogs,           \* the attached run, the lines shown
    cleared,                    \* history: the log was emptied while attached
    looks

hubVars == <<runStatus, printed, buffers, subscribed, queue>>
dashVars == <<filter, requestSequence, dashCalls, dashboard, dashLoading>>
detailVars == <<selectedId, detailSequence, detailCalls, detail>>
liveVars == <<hubVars, dashVars, detailVars, stream, liveLogs, cleared, looks>>

Completed == 0      \* the terminal event; a line is its number
NoDetail == [id |-> NoRun, status |-> "none"]

LiveInit ==
    /\ runStatus = [r \in Runs |-> "running"] /\ printed = [r \in Runs |-> 0]
    /\ buffers = [r \in Runs |-> <<>>] /\ subscribed = NoRun /\ queue = <<>>
    /\ filter \in Filters /\ requestSequence = 1
    /\ dashCalls = {[n |-> 1, filter |-> filter]} /\ dashboard = {} /\ dashLoading = TRUE
    /\ selectedId = NoRun /\ detailSequence = 0 /\ detailCalls = {} /\ detail = NoDetail
    /\ stream = "off" /\ liveLogs = <<>> /\ cleared = FALSE /\ looks = 0

Look == looks < MaxLooks /\ looks' = looks + 1
-----------------------------------------------------------------------------
\* _DbtRunLogHub.publish: buffer, then the queues; a terminal event without a
\* subscriber drops the buffer.
Publish(r, event) ==
    /\ buffers' = [buffers EXCEPT ![r] = IF event = Completed /\ subscribed # r THEN <<>>
                                         ELSE Append(@, event)]
    /\ queue' = IF subscribed = r THEN Append(queue, event) ELSE queue
    /\ UNCHANGED <<subscribed, dashVars, detailVars, stream, liveLogs, cleared, looks>>

PrintLine(r) ==
    /\ runStatus[r] = "running" /\ printed[r] < MaxLines
    /\ printed' = [printed EXCEPT ![r] = @ + 1]
    /\ Publish(r, printed'[r]) /\ UNCHANGED runStatus
RunEnds(r) ==
    /\ runStatus[r] = "running"
    /\ runStatus' = [runStatus EXCEPT ![r] = "success"]
    /\ Publish(r, Completed) /\ UNCHANGED printed

\* subscribe: the queue is registered and the buffer copied in one step.
SubscribeLate(r) == subscribed' = r /\ queue' = <<>>
subscribe(r) == subscribed' = r /\ queue' = buffers[r]
unsubscribe ==
    /\ subscribed' = NoRun /\ queue' = <<>>
    /\ buffers' = [r \in Runs |-> IF r = subscribed /\ runStatus[r] # "running" THEN <<>>
                                  ELSE buffers[r]]
-----------------------------------------------------------------------------
\* fetchDashboard
FetchDashboard(f) ==
    /\ requestSequence' = requestSequence + 1
    /\ dashCalls' = dashCalls \cup {[n |-> requestSequence + 1, filter |-> f]}
    /\ dashLoading' = TRUE
\* fetchDetail
FetchDetail(r) ==
    /\ detailSequence' = detailSequence + 1
    /\ detailCalls' = detailCalls \cup {[n |-> detailSequence + 1, id |-> r, status |-> "ask"]}

\* The cleanup of the stream effect aborts the request when its deps change.
Detach == stream' = "off" /\ unsubscribe /\ UNCHANGED <<runStatus, printed>>
Wanted(sel, d) == sel # NoRun /\ d.id = sel /\ d.status = "running"

\* A filter changes fetchDashboard, a dependency of the stream effect too.
SetFilter(f) ==
    /\ Look /\ f # filter
    /\ filter' = f /\ FetchDashboard(f) /\ UNCHANGED dashboard
    /\ Detach
    /\ UNCHANGED <<detailVars, liveLogs, cleared>>
\* The button, or the poll while the summary counts a running one.
RefreshDashboard ==
    /\ Look /\ FetchDashboard(filter)
    /\ UNCHANGED <<filter, dashboard, hubVars, detailVars, stream, liveLogs, cleared>>

AnyAnswer(c) == dashboard' = {c.filter} /\ dashLoading' = FALSE
LatestAnswer(c) ==
    IF c.n = requestSequence THEN dashboard' = {c.filter} /\ dashLoading' = FALSE
    ELSE UNCHANGED <<dashboard, dashLoading>>
DashboardAnswer(c, ok) ==
    /\ c \in dashCalls /\ dashCalls' = dashCalls \ {c}
    /\ IF ok THEN LatestAnswer(c)
       ELSE /\ UNCHANGED dashboard
            /\ dashLoading' = (dashLoading /\ c.n # requestSequence)
    /\ UNCHANGED <<filter, requestSequence, hubVars, detailVars, stream, liveLogs, cleared, looks>>

\* selectRun; a retry that starts a new run ends in it too.
SelectRun(r) ==
    /\ Look
    /\ selectedId' = r /\ liveLogs' = <<>> /\ FetchDetail(r) /\ UNCHANGED detail
    /\ IF r = selectedId THEN UNCHANGED <<stream, hubVars>> ELSE Detach
    /\ cleared' = TRUE
    /\ UNCHANGED dashVars
\* refreshAll and cancelRun refetch the detail of the selected run.
RefreshDetail ==
    /\ Look /\ selectedId # NoRun /\ FetchDetail(selectedId)
    /\ UNCHANGED <<selectedId, detail, hubVars, dashVars, stream, liveLogs, cleared>>

DetailRead(c) ==
    /\ c.status = "ask"
    /\ detailCalls' = (detailCalls \ {c}) \cup {[c EXCEPT !.status = runStatus[c.id]]}
    /\ UNCHANGED <<selectedId, detailSequence, detail, hubVars, dashVars, stream, liveLogs,
                   cleared, looks>>
\* A new detail object re-runs the stream effect.
LatestDetail(c) ==
    IF c.n = detailSequence THEN detail' = [id |-> c.id, status |-> c.status] /\ Detach
    ELSE UNCHANGED <<detail, stream, hubVars>>
DetailAnswer(c, ok) ==
    /\ c.status # "ask" /\ detailCalls' = detailCalls \ {c}
    /\ IF ok THEN LatestDetail(c) ELSE UNCHANGED <<detail, stream, hubVars>>
    /\ UNCHANGED <<selectedId, detailSequence, dashVars, liveLogs, cleared, looks>>

\* The effect attaches to the run that is shown and was running when read.
Attach ==
    /\ stream = "off" /\ Wanted(selectedId, detail)
    /\ stream' = "on" /\ subscribe(selectedId) /\ cleared' = FALSE
    /\ UNCHANGED <<runStatus, printed, buffers, dashVars, detailVars, liveLogs, looks>>

\* One event: a line is shown; "completed" refetches both and ends the stream.
Receive ==
    /\ stream = "on" /\ queue # <<>>
    /\ \/ /\ Head(queue) # Completed
          /\ queue' = Tail(queue) /\ liveLogs' = Append(liveLogs, Head(queue))
          /\ UNCHANGED <<stream, subscribed, buffers, dashVars, detailVars>>
       \/ /\ Head(queue) = Completed
          /\ stream' = "done" /\ unsubscribe
          /\ FetchDashboard(filter) /\ FetchDetail(selectedId)
          /\ UNCHANGED <<liveLogs, filter, dashboard, selectedId, detail>>
    /\ UNCHANGED <<runStatus, printed, cleared, looks>>

LiveNext ==
    \/ \E r \in Runs : PrintLine(r)
    \/ \E r \in Runs : RunEnds(r)
    \/ \E f \in Filters : SetFilter(f)
    \/ RefreshDashboard
    \/ \E c \in dashCalls, ok \in BOOLEAN : DashboardAnswer(c, ok)
    \/ \E r \in Runs : SelectRun(r)
    \/ RefreshDetail
    \/ \E c \in detailCalls : DetailRead(c)
    \/ \E c \in detailCalls, ok \in BOOLEAN : DetailAnswer(c, ok)
    \/ Attach
    \/ Receive
-----------------------------------------------------------------------------
\* RunsView: an answer that is not the latest request's changes nothing, so
\* the rows shown never go back to an earlier filter, in whatever order the
\* answers of polls, filters and finished runs arrive.
DashboardNeverGoesBack ==
    [][dashboard' # dashboard => dashboard' = {filter}]_liveVars

\* The same for the detail: what appears belongs to the run selected last.
DetailOfSelected ==
    [][detail' # detail => detail'.id = selectedId]_liveVars

\* The live log is complete: when the stream reports the end of the run, every
\* line it printed has been shown, however late and often the view attached
\* (unless the user emptied the log by selecting the run again).
LiveLogComplete ==
    stream = "done" /\ ~cleared => ToSet(liveLogs) = 1 .. printed[selectedId]
=============================================================================
