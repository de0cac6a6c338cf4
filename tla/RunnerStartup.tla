---------------------------- MODULE RunnerStartup ----------------------------
(***************************************************************************)
(* main.py: what a uvicorn worker does before it serves requests, and what *)
(* that does to the runs of the workers that serve already.                *)
(*                                                                         *)
(* The workers of one launch share the parent process and so the names of  *)
(* the marker and of the lock file; a relaunch has new names.  A worker    *)
(* that dies takes its runs with it, and uvicorn starts it again.  The     *)
(* workers are processes: they interleave between any two file operations. *)
(***************************************************************************)
EXTENDS Naturals, FiniteSets

CONSTANTS
    Workers,
    Runs,           \* each run is of a project of its own
    Nobody,
    DatabaseFaults  \* may the reconciliation fail?

ASSUME ConstantsAssumption ==
    /\ Nobody \notin Workers
    /\ DatabaseFaults \in BOOLEAN

VARIABLES
    state,      \* how far each worker is with its start
    marker,     \* .dbt-runner-history-reconciled-{instance}
    lockFile,   \* who holds .dbt-runner-history-reconcile-{instance}.lock;
                \* the file exists unless it is Nobody
    row,        \* dbt_runs.status
    owner,      \* the worker that executes a run; Nobody: its process is gone
    key,        \* the runs whose Redis keys exist: file_lock:{project}:dbt_run
                \* and, with it, running_process:{project}
    former      \* history: runs of a launch that is over

files == <<marker, lockFile>>
runs == <<row, owner, key>>
vars == <<state, marker, lockFile, row, owner, key, former>>

Init ==
    /\ state = [w \in Workers |-> "down"]
    /\ marker = FALSE /\ lockFile = Nobody
    /\ row = [r \in Runs |-> "none"]
    /\ owner = [r \in Runs |-> Nobody]
    /\ key = {} /\ former = {}

Goto(w, s) == state' = [state EXCEPT ![w] = s]

-----------------------------------------------------------------------------
(* startup_event and _reconcile_stale_runs_once.                           *)

\* uvicorn starts a worker, or starts it again.
Start(w) ==
    /\ state[w] = "down"
    /\ Goto(w, "check")
    /\ UNCHANGED <<files, runs, former>>

\* marker.exists()
CheckMarker(w) ==
    /\ state[w] = "check"
    /\ Goto(w, IF marker THEN "purge" ELSE "open")
    /\ UNCHANGED <<files, runs, former>>

\* Mutant: O_CREAT without O_EXCL.
OpenLockShared(w) ==
    /\ state[w] = "open"
    /\ lockFile' = w
    /\ Goto(w, "reconcile")
    /\ UNCHANGED <<marker, runs, former>>

\* os.open with O_CREAT | O_EXCL; FileExistsError: somebody else does it.
OpenLock(w) ==
    /\ state[w] = "open"
    /\ IF lockFile = Nobody
       THEN lockFile' = w /\ Goto(w, "reconcile")
       ELSE UNCHANGED lockFile /\ Goto(w, "purge")
    /\ UNCHANGED <<marker, runs, former>>

\* reconcile_stale_runs: every running row becomes cancelled.
Reconcile(w) ==
    /\ state[w] = "reconcile"
    /\ row' = [r \in Runs |-> IF row[r] = "running" THEN "cancelled" ELSE row[r]]
    /\ Goto(w, "mark")
    /\ UNCHANGED <<files, owner, key, former>>

\* Mutant: the marker is touched whether or not the reconciliation succeeded.
ReconcileFailsMarked(w) ==
    /\ DatabaseFaults
    /\ state[w] = "reconcile"
    /\ Goto(w, "mark")
    /\ UNCHANGED <<files, runs, former>>

\* The session raised: no marker, the finally block removes the lock file.
ReconcileFails(w) ==
    /\ DatabaseFaults
    /\ state[w] = "reconcile"
    /\ Goto(w, "unlink")
    /\ UNCHANGED <<files, runs, former>>

Mark(w) ==
    /\ state[w] = "mark"
    /\ marker' = TRUE
    /\ Goto(w, "unlink")
    /\ UNCHANGED <<lockFile, runs, former>>

Unlink(w) ==
    /\ state[w] = "unlink"
    /\ lockFile' = Nobody
    /\ Goto(w, "purge")
    /\ UNCHANGED <<marker, runs, former>>

\* Every file_lock:* and running_process:* key is deleted, or some or none when
\* Redis does not answer; then the worker serves.
Purge(w) ==
    /\ state[w] = "purge"
    /\ key' \in SUBSET key
    /\ Goto(w, "up")
    /\ UNCHANGED <<files, row, owner, former>>

-----------------------------------------------------------------------------
(* The runs.                                                               *)

\* The row is inserted, the project lock taken.
Begin(r, w) ==
    /\ row[r] = "none" /\ state[w] = "up"
    /\ row' = [row EXCEPT ![r] = "running"]
    /\ owner' = [owner EXCEPT ![r] = w]
    /\ key' = key \cup {r}
    /\ UNCHANGED <<state, files, former>>

\* _update_run_complete writes its status whatever the row says by now.
Complete(r) ==
    /\ owner[r] # Nobody
    /\ row' = [row EXCEPT ![r] = "success"]
    /\ owner' = [owner EXCEPT ![r] = Nobody]
    /\ key' = key \ {r}
    /\ UNCHANGED <<state, files, former>>

Without(lost) == owner' = [r \in Runs |-> IF owner[r] \in lost THEN Nobody ELSE owner[r]]

\* A worker dies, wherever it is.  The keys of its runs stay until they expire.
Crash(w) ==
    /\ state[w] # "down"
    /\ Goto(w, "down")
    /\ Without({w})
    /\ UNCHANGED <<files, row, key, former>>

KeyExpires(r) ==
    /\ r \in key /\ owner[r] = Nobody
    /\ key' = key \ {r}
    /\ UNCHANGED <<state, files, row, owner, former>>

\* The runner is launched anew: new names for the marker and the lock file.
Relaunch ==
    /\ state' = [w \in Workers |-> "down"]
    /\ Without(Workers)
    /\ marker' = FALSE /\ lockFile' = Nobody
    /\ former' = {r \in Runs : row[r] # "none"}
    /\ UNCHANGED <<row, key>>

StartStep(w) ==
    \/ Start(w) \/ CheckMarker(w) \/ OpenLock(w)
    \/ Reconcile(w) \/ ReconcileFails(w) \/ Mark(w) \/ Unlink(w) \/ Purge(w)

Next ==
    \/ \E w \in Workers : StartStep(w) \/ Crash(w)
    \/ \E r \in Runs, w \in Workers : Begin(r, w)
    \/ \E r \in Runs : Complete(r) \/ KeyExpires(r)
    \/ Relaunch

Spec == Init /\ [][Next]_vars

-----------------------------------------------------------------------------
(* Properties.                                                             *)

\* The values the variables take.
TypeOK ==
    /\ state \in [Workers -> {"down", "check", "open", "reconcile", "mark", "unlink",
                              "purge", "up"}]
    /\ marker \in BOOLEAN /\ lockFile \in Workers \cup {Nobody}
    /\ row \in [Runs -> {"none", "running", "cancelled", "success"}]
    /\ owner \in [Runs -> Workers \cup {Nobody}]
    /\ key \subseteq Runs /\ former \subseteq Runs

\* The workers between the creation of the lock file and its removal.
Reconciling == {w \in Workers : state[w] \in {"reconcile", "mark", "unlink"}}

\* At most one worker reconciles at a time, and the lock file is its own: no
\* worker's unlink removes the lock file of another.
OneReconciler == \A w \in Reconciling : lockFile = w

\* The marker is there only when no run of an earlier launch is shown as running:
\* a worker that finds it may skip the reconciliation.
MarkerMeansReconciled == marker => \A r \in former : row[r] # "running"

\* "Reconcile once per runner launch so worker startups do not cancel live
\* runs": a run that is being executed is not shown as cancelled.
LiveRunsSurvive == \A r \in Runs : owner[r] # Nobody => row[r] = "running"
=============================================================================
