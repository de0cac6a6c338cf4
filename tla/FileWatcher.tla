----------------------------- MODULE FileWatcher -----------------------------
(***************************************************************************)
(* entities/file/hooks/useFileWatcher.ts: the EventSource that announces   *)
(* changes of the project's files, and its reconnection.  The hook's       *)
(* reconnect and disconnect have no caller and are left out.               *)
(***************************************************************************)
EXTENDS Naturals, FiniteSets

CONSTANTS
    WatchedProjects,
    MaxFailures     \* how often the stream breaks

Unmounted == "unmounted"
ASSUME WatcherAssumption == Unmounted \notin WatchedProjects /\ MaxFailures \in Nat

VARIABLES
    watching,       \* the project the mounted workspace shows, or Unmounted
    sources,        \* EventSources that have not been closed
    esRef,          \* the one the hook holds: a project, or Unmounted for null
    reconnectTimer, \* reconnectTimeoutRef
    shouldConnect,
    watcherConnected,
    failures

watcherVars == <<watching, sources, esRef, reconnectTimer, shouldConnect, watcherConnected,
                 failures>>

WatcherInit ==
    /\ watching = Unmounted /\ sources = {} /\ esRef = Unmounted
    /\ reconnectTimer = FALSE /\ shouldConnect = TRUE /\ watcherConnected = FALSE
    /\ failures = 0

\* connect: nothing while an EventSource is held.
Connect(p, held, live) ==
    IF held # Unmounted THEN esRef' = held /\ sources' = live
    ELSE esRef' = p /\ sources' = live \cup {[project |-> p, open |-> FALSE]}

\* The effect, and its clean-up when the project changes: the held source is
\* closed and the timer cleared before the new one is opened.
LeftOpen == sources
Closed == {s \in sources : s.project # esRef}

Show(p) ==
    /\ watching # p
    /\ watching' = p
    /\ shouldConnect' = TRUE /\ reconnectTimer' = FALSE
    /\ Connect(p, Unmounted, Closed)
    /\ UNCHANGED <<watcherConnected, failures>>

Leave ==
    /\ watching # Unmounted
    /\ watching' = Unmounted
    /\ shouldConnect' = FALSE /\ reconnectTimer' = FALSE
    /\ esRef' = Unmounted /\ sources' = Closed
    /\ watcherConnected' = FALSE
    /\ UNCHANGED failures

\* es.onopen
Open(s) ==
    /\ ~s.open
    /\ sources' = (sources \ {s}) \cup {[s EXCEPT !.open = TRUE]}
    /\ watcherConnected' = TRUE
    /\ UNCHANGED <<watching, esRef, reconnectTimer, shouldConnect, failures>>

\* es.onerror: closed, and connected again two seconds later.
BreakForGood(s) ==
    /\ failures < MaxFailures
    /\ failures' = failures + 1
    /\ watcherConnected' = FALSE
    /\ sources' = Closed /\ esRef' = Unmounted
    /\ UNCHANGED <<watching, shouldConnect, reconnectTimer>>
Break(s) ==
    /\ failures < MaxFailures
    /\ failures' = failures + 1
    /\ watcherConnected' = FALSE
    /\ sources' = Closed /\ esRef' = Unmounted
    /\ reconnectTimer' = shouldConnect
    /\ UNCHANGED <<watching, shouldConnect>>

TimerFires ==
    /\ reconnectTimer
    /\ reconnectTimer' = FALSE
    /\ Connect(watching, esRef, sources)
    /\ UNCHANGED <<watching, shouldConnect, watcherConnected, failures>>

WatcherNext ==
    \/ \E p \in WatchedProjects : Show(p)
    \/ Leave
    \/ \E s \in sources : Open(s)
    \/ \E s \in sources : Break(s)
    \/ TimerFires

\* The timer fires, and a connection is made or breaks.
WatcherFairness ==
    /\ WF_watcherVars(TimerFires)
    /\ WF_watcherVars(\E s \in sources : Open(s) \/ Break(s))

WatcherSpec == WatcherInit /\ [][WatcherNext]_watcherVars /\ WatcherFairness
-----------------------------------------------------------------------------
\* One EventSource at most, of the project on screen; none once the workspace
\* is left, whichever of a failure, its timer and the switch came first.
OneSource ==
    /\ Cardinality(sources) <= 1
    /\ \A s \in sources : s.project = watching
    /\ watching = Unmounted => ~reconnectTimer

\* A mounted workspace that has lost its stream is connected again, or left.
ConnectedOrLeft == watcherConnected \/ watching = Unmounted
=============================================================================
