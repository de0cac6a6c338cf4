----------------------------- MODULE IngestStream -----------------------------
(***************************************************************************)
(* Running a data load: useIngestStream.ts and IngestRunPanel.tsx.  Each   *)
(* load is one call of run: it waits for the session, sends the request,   *)
(* reads events, and ends in its finally block.  The abort reference is    *)
(* shared by all of them.                                                  *)
(***************************************************************************)
EXTENDS Naturals, FiniteSets

CONSTANTS MaxLoads, MaxLogLines

ASSUME IngestAssumption == {MaxLoads, MaxLogLines} \subseteq Nat

VARIABLES
    loads,          \* phase of each call of run, by number
    aborted,        \* controllers that were aborted
    abortRef,       \* the load the reference points to, 0 for null
    running, loadLogs, loadResult,
    server,         \* loads the runner executes
    historyRows, historyCalls,
    stoppedEarly,   \* history: a load was stopped before its request was sent
    lines

ingestVars == <<loads, aborted, abortRef, running, loadLogs, loadResult, server, historyRows,
                historyCalls, stoppedEarly, lines>>
Numbers == 1 .. MaxLoads
Phases == {"none", "session", "streaming", "ending", "done"}

IngestInit ==
    /\ loads = [n \in Numbers |-> "none"] /\ aborted = {} /\ abortRef = 0
    /\ running = FALSE /\ loadLogs = {} /\ loadResult = 0 /\ server = {}
    /\ historyRows = {} /\ historyCalls = 1
    /\ stoppedEarly = FALSE /\ lines = 0

Phase(n, from, to) == loads[n] = from /\ loads' = [loads EXCEPT ![n] = to]
-----------------------------------------------------------------------------
\* run, up to its first await.
run(n) ==
    /\ ~running /\ abortRef = 0                 \* the button, and the early return
    /\ \A m \in 1 .. n - 1 : loads[m] # "none"
    /\ Phase(n, "none", "session")
    /\ abortRef' = n /\ running' = TRUE /\ loadLogs' = {} /\ loadResult' = 0
    /\ UNCHANGED <<aborted, server, historyRows, historyCalls, stoppedEarly, lines>>

\* finally, whichever way run ends; the panel's effect then reloads the history
\* when there is a result.
Cleared == abortRef' = 0 /\ running' = FALSE
Finally(result) ==
    /\ Cleared
    /\ loadResult' = result
    /\ historyCalls' = IF result # 0 THEN historyCalls + 1 ELSE historyCalls

\* getSession has answered: the request, which an aborted signal refuses.
Request(n) ==
    /\ n \notin aborted /\ Phase(n, "session", "streaming")
    /\ server' = server \cup {n}
    /\ UNCHANGED <<aborted, abortRef, running, loadLogs, loadResult, historyRows, historyCalls,
                   stoppedEarly, lines>>
RequestRefused(n) ==
    /\ Phase(n, "session", "done")
    /\ Finally(IF n \in aborted THEN loadResult ELSE n)
    /\ UNCHANGED <<aborted, loadLogs, server, historyRows, stoppedEarly, lines>>

\* A log line or the start of the load.
LogLine(n) ==
    /\ loads[n] = "streaming" /\ n \notin aborted /\ n \in server
    /\ lines < MaxLogLines /\ lines' = lines + 1
    /\ loadLogs' = loadLogs \cup {n}
    /\ UNCHANGED <<loads, aborted, abortRef, running, loadResult, server, historyRows,
                   historyCalls, stoppedEarly>>
\* completed or error: the reader then meets the end of the stream.
LoadEnds(n) ==
    /\ n \in server /\ server' = server \ {n}
    /\ historyRows' = historyRows \cup {n}
    /\ IF loads[n] # "streaming" THEN UNCHANGED <<loads, loadResult>>
       ELSE loadResult' = n /\ loads' = [loads EXCEPT ![n] = "ending"]
    /\ UNCHANGED <<aborted, abortRef, running, loadLogs, historyCalls, stoppedEarly, lines>>
StreamEnds(n) ==
    /\ Phase(n, "ending", "done") /\ Finally(loadResult)
    /\ UNCHANGED <<aborted, loadLogs, server, historyRows, stoppedEarly, lines>>
IngestHistoryAnswer ==
    /\ historyCalls > 0 /\ historyCalls' = historyCalls - 1
    /\ UNCHANGED <<loads, aborted, abortRef, running, loadLogs, loadResult, server, historyRows,
                   stoppedEarly, lines>>

\* handleStop: abort here, then cancelIngest on the runner (it may fail).  The
\* pending read rejects at once, and that load's finally block changes nothing more;
\* a load that waits for the session goes on.
AbortCurrent ==
    /\ aborted' = aborted \cup ({abortRef} \ {0})
    /\ loads' = [n \in Numbers |-> IF n = abortRef /\ loads[n] \in {"streaming", "ending"}
                                   THEN "done" ELSE loads[n]]
handleStop(cancelled) ==
    /\ running
    /\ AbortCurrent /\ abortRef' = 0 /\ running' = FALSE
    /\ server' = IF cancelled THEN {} ELSE server
    /\ stoppedEarly' = (stoppedEarly \/ \E n \in Numbers : n = abortRef /\ loads[n] = "session")
    /\ UNCHANGED <<loadLogs, loadResult, historyRows, historyCalls, lines>>

IngestNext ==
    \/ \E n \in Numbers : run(n)
    \/ \E n \in Numbers : Request(n)
    \/ \E n \in Numbers : LogLine(n)
    \/ \E n \in Numbers : LoadEnds(n)
    \/ \E n \in Numbers : RequestRefused(n)
    \/ \E n \in Numbers : StreamEnds(n)
    \/ IngestHistoryAnswer
    \/ \E ok \in BOOLEAN : handleStop(ok)

\* Promises settle, the runner ends its loads.
IngestFairness ==
    /\ WF_ingestVars(\E n \in Numbers : Request(n) \/ RequestRefused(n))
    /\ WF_ingestVars(\E n \in Numbers : LoadEnds(n))
    /\ WF_ingestVars(\E n \in Numbers : StreamEnds(n))
-----------------------------------------------------------------------------
\* useIngestStream's early return on abortRef keeps one load at a time on the
\* page: no two are read together, unless a load was stopped and another begun
\* while the first still waited for the session.
OneLoadRead ==
    ~stoppedEarly =>
        Cardinality({n \in Numbers : loads[n] = "streaming" /\ n \notin aborted}) <= 1

\* The log shown is that of the load started last: what a stopped one still
\* sends is not read.
LogOfLatest ==
    \A n \in loadLogs : ~stoppedEarly => \A m \in Numbers : m > n => loads[m] = "none"

\* What a load that was started comes to, whatever the runner answers: the page
\* stops showing it as running.
IngestSettled == ~running
=============================================================================
