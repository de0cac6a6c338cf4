------------------------ MODULE RunnerStartupProofs --------------------------
(***************************************************************************)
(* What the marker and the lock file of _reconcile_stale_runs_once do      *)
(* guarantee, for any number of workers and runs.                          *)
(***************************************************************************)
EXTENDS RunnerStartup, TLAPS

\* A run of a former launch has a row.
FormerBegun == \A r \in former : row[r] # "none"

\* A worker that is about to touch the marker has settled those rows.
SettledBeforeMark ==
    \A w \in Workers : state[w] = "mark" => \A r \in former : row[r] # "running"

\* The inductive invariant: the marker is justified only because the worker that
\* touches it has just reconciled, and stays so because a run of a former launch
\* never runs again.
Inv ==
    /\ TypeOK
    /\ OneReconciler
    /\ MarkerMeansReconciled
    /\ FormerBegun
    /\ SettledBeforeMark

\* Initially no worker is up and no run exists.
LEMMA Initially == Init => Inv
BY ConstantsAssumption
DEF Init, Inv, TypeOK, OneReconciler, Reconciling, MarkerMeansReconciled,
    FormerBegun, SettledBeforeMark

\* No step of a worker, a run or the supervisor of the workers breaks it.
LEMMA Inductive == Inv /\ [Next]_vars => Inv'
<1> SUFFICES ASSUME Inv, [Next]_vars PROVE Inv'
    OBVIOUS
<1> USE ConstantsAssumption
    DEF Inv, TypeOK, OneReconciler, Reconciling, MarkerMeansReconciled,
        FormerBegun, SettledBeforeMark, Goto, files, runs
<1>1. ASSUME NEW w \in Workers, Start(w) PROVE Inv'
    BY <1>1 DEF Start
<1>2. ASSUME NEW w \in Workers, CheckMarker(w) PROVE Inv'
    BY <1>2 DEF CheckMarker
<1>3. ASSUME NEW w \in Workers, OpenLock(w) PROVE Inv'
    BY <1>3 DEF OpenLock
<1>4. ASSUME NEW w \in Workers, Reconcile(w) PROVE Inv'
    BY <1>4 DEF Reconcile
<1>5. ASSUME NEW w \in Workers, ReconcileFails(w) PROVE Inv'
    BY <1>5 DEF ReconcileFails
<1>6. ASSUME NEW w \in Workers, Mark(w) PROVE Inv'
    BY <1>6 DEF Mark
<1>7. ASSUME NEW w \in Workers, Unlink(w) PROVE Inv'
    BY <1>7 DEF Unlink
<1>8. ASSUME NEW w \in Workers, Purge(w) PROVE Inv'
    BY <1>8 DEF Purge
<1>9. ASSUME NEW w \in Workers, Crash(w) PROVE Inv'
    BY <1>9 DEF Crash, Without
<1>10. ASSUME NEW r \in Runs, NEW w \in Workers, Begin(r, w) PROVE Inv'
    BY <1>10 DEF Begin
<1>11. ASSUME NEW r \in Runs, Complete(r) PROVE Inv'
    BY <1>11 DEF Complete
<1>12. ASSUME NEW r \in Runs, KeyExpires(r) PROVE Inv'
    BY <1>12 DEF KeyExpires
<1>13. CASE Relaunch
    BY <1>13 DEF Relaunch, Without
<1>14. CASE UNCHANGED vars
    BY <1>14 DEF vars
<1>. QED
    BY <1>1, <1>2, <1>3, <1>4, <1>5, <1>6, <1>7, <1>8, <1>9, <1>10, <1>11, <1>12,
       <1>13, <1>14
    DEF Next, StartStep

\* Every reachable state of the start satisfies Inv.
LEMMA Invariance == Spec => []Inv
BY Initially, Inductive, PTL DEF Spec

\* The variables keep their types.
THEOREM TypeCorrect == Spec => []TypeOK
<1>1. Inv => TypeOK
    BY DEF Inv
<1>. QED
    BY <1>1, Invariance, PTL

\* O_CREAT | O_EXCL makes one worker at a time the reconciler, and no worker
\* removes a lock file that another one created, through any crashes, failed
\* reconciliations and relaunches.
THEOREM ReconcilerUnique == Spec => []OneReconciler
<1>1. Inv => OneReconciler
    BY DEF Inv
<1>. QED
    BY <1>1, Invariance, PTL

\* The order of marker.touch() and of the commit makes the marker trustworthy: a
\* worker that skips the reconciliation leaves no stale row of a former launch.
THEOREM MarkerTrustworthy == Spec => []MarkerMeansReconciled
<1>1. Inv => MarkerMeansReconciled
    BY DEF Inv
<1>. QED
    BY <1>1, Invariance, PTL
=============================================================================
