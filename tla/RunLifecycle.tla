---------------------------- MODULE RunLifecycle -----------------------------
(***************************************************************************)
(* The life of the dbt runs of one project, from the request to the final  *)
(* row in dbt_runs, in one launch of the runner (several uvicorn workers,  *)
(* one Redis, one database):                                               *)
(*                                                                         *)
(*   "sync"        POST /dbt/command: DbtService.run_command               *)
(*   "background"  POST /dbt/runs and the scheduler: launch_dbt_run        *)
(*   "stream"      POST /sse/dbt/{project}: dbt_sse                        *)
(*                                                                         *)
(* with the two ways to stop one: POST /process/cancel (the Stop button)   *)
(* and POST /dbt/runs/{run_id}/cancel.                                     *)
(*                                                                         *)
(* The leases are here what GlobalSemaphore and ProjectLock prove of them  *)
(* as long as their renewals are on time: a slot is granted or refused     *)
(* (other projects fill the pool too, so either may happen) and the        *)
(* "dbt_run" key belongs to its setter until it or somebody else deletes   *)
(* it.  target/run_results.json is known by the run that wrote it last,    *)
(* and "its mtime is newer than the sample a run took" by the set fresh.   *)
(* One cancel handler is in progress at a time.                            *)
(***************************************************************************)
EXTENDS Naturals, FiniteSets

CONSTANTS
    Runs,
    Workers,        \* the uvicorn workers: each has its own warm worker pool
                    \* and its own CommandService._local_processes
    Home,           \* the worker that serves a run's request
    Mode,           \* which of the three entry points a run came through
    Nobody,
    MaxAttempts,    \* max_retries of run_command
    MaxRequests,    \* bound: cancel requests in a behaviour
    Cancels,        \* the ways to cancel that are exercised
    FileDuckDB,     \* is the project on a file-backed DuckDB?
    LongRuns        \* may dbt run longer than the 300 s of its registration?

ASSUME ConstantsAssumption ==
    /\ Nobody \notin Runs /\ Nobody \notin Workers
    /\ Home \in [Runs -> Workers]
    /\ Mode \in [Runs -> {"sync", "background", "stream"}]
    /\ MaxAttempts \in Nat \ {0} /\ MaxRequests \in Nat
    /\ Cancels \subseteq {"process", "run", "task", "disconnect"}
    /\ FileDuckDB \in BOOLEAN /\ LongRuns \in BOOLEAN

VARIABLES
    loc,          \* where the coroutine that serves a run is
    row,          \* dbt_runs.status
    rc,           \* how its last dbt invocation ended
    attempt,      \* the attempt run_command is at
    fresh,        \* runs since whose run_results_mtime_before dbt wrote results
    results,      \* whose run_results the row holds
    key,          \* file_lock:{project}:dbt_run
    target,       \* who wrote target/run_results.json last
    snapshot,     \* the saved state: who saved it and whose artifacts it holds
    warm,         \* runs whose dbt is executing in a warm worker
    orphan,       \* runs that use a pool release_project has taken out
    epoch,        \* runs whose cancel_epoch is no longer the current one
    proc,         \* the dbt subprocess of a run
    local,        \* _local_processes[project_id] of each uvicorn worker
    registered,   \* running_process:{project}
    flag,         \* running_process:{project}:cancelled
    stop,         \* the cancel handler in progress
    requests,     \* how many cancel requests there have been
    stopped,      \* history: runs that waited for their dbt when Stop came
    killed        \* history: runs whose dbt a cancel handler killed

leases == <<key, stop, requests>>
files == <<fresh, target, results, snapshot>>
workers == <<warm, orphan, epoch>>
processes == <<proc, local, registered, flag>>
history == <<stopped, killed>>

vars == <<loc, row, rc, attempt, fresh, results, key, target, snapshot, warm,
          orphan, epoch, proc, local, registered, flag, stop, requests, stopped,
          killed>>

\* No cancel handler is in progress.
Idle == [at |-> "idle", on |-> Nobody, signal |-> FALSE, hit |-> FALSE, pool |-> FALSE]

Init ==
    /\ loc = [r \in Runs |-> "new"]
    /\ row = [r \in Runs |-> "none"]
    /\ rc = [r \in Runs |-> "none"]
    /\ attempt = [r \in Runs |-> 0]
    /\ fresh = {}
    /\ results = [r \in Runs |-> Nobody]
    /\ key = Nobody /\ target = Nobody
    /\ snapshot = [by |-> Nobody, of |-> Nobody]
    /\ warm = {} /\ orphan = {} /\ epoch = {}
    /\ proc = [r \in Runs |-> "none"]
    /\ local = [w \in Workers |-> Nobody]
    /\ registered = FALSE /\ flag = FALSE
    /\ stop = Idle /\ requests = 0
    /\ stopped = {} /\ killed = {}

Goto(r, l) == loc' = [loc EXCEPT ![r] = l]
SetRow(r, s) == row' = [row EXCEPT ![r] = s]
Streamed(r) == Mode[r] = "stream"

\* _read_run_results: what is newer than the sample goes into the row.
ReadResults(r) ==
    results' = [results EXCEPT ![r] = IF r \in fresh THEN target ELSE Nobody]

-----------------------------------------------------------------------------
(* The warm worker pools, as far as a run sees them (dbt_worker.py).       *)

\* The runs that a pool of worker w serves: queued in it or executing.
InPool(w) == {r \in Runs : Home[r] = w /\ loc[r] \in {"queued", "warm"}} \ orphan

\* release_project: the pool of worker w leaves the map and its processes stop.
ReleasePool(w) ==
    /\ warm' = warm \ InPool(w)
    /\ orphan' = orphan \cup InPool(w)

-----------------------------------------------------------------------------
(* From the request to the lock.                                           *)

\* _regenerate_profiles_from_db takes a file-backed DuckDB from the warm workers.
Regenerate(r) ==
    IF FileDuckDB THEN ReleasePool(Home[r]) ELSE UNCHANGED <<warm, orphan>>

\* POST /dbt/command: regenerate profiles.yml, then insert the row.
Submit(r) ==
    /\ loc[r] = "new" /\ Mode[r] = "sync"
    /\ Regenerate(r)
    /\ SetRow(r, "running")
    /\ Goto(r, "slot")
    /\ UNCHANGED <<rc, attempt, files, leases, epoch, processes, history>>

\* POST /sse/dbt: the same, with a first sample of the mtime.
SubmitStream(r) ==
    /\ loc[r] = "new" /\ Streamed(r)
    /\ Regenerate(r)
    /\ fresh' = fresh \ {r}
    /\ SetRow(r, "running")
    /\ Goto(r, "slot")
    /\ UNCHANGED <<rc, attempt, target, results, snapshot, leases, epoch,
                   processes, history>>

\* launch_dbt_run: insert the row, create the task.
Launch(r) ==
    /\ loc[r] = "new" /\ Mode[r] = "background"
    /\ SetRow(r, "running")
    /\ Goto(r, "launched")
    /\ UNCHANGED <<rc, attempt, files, leases, workers, processes, history>>

\* _run_in_background: run_command regenerates profiles.yml.
Prepare(r) ==
    /\ loc[r] = "launched"
    /\ Regenerate(r)
    /\ Goto(r, "slot")
    /\ UNCHANGED <<row, rc, attempt, files, leases, epoch, processes, history>>

\* A failure of that preparation ends in the handler of _run_in_background.
PrepareFails(r) ==
    /\ loc[r] = "launched"
    /\ SetRow(r, "error")
    /\ Goto(r, "done")
    /\ UNCHANGED <<rc, attempt, files, leases, workers, processes, history>>

EnterSlot(r) ==
    /\ loc[r] = "slot"
    /\ Goto(r, "lock")
    /\ UNCHANGED <<row, rc, attempt, files, leases, workers, processes, history>>

\* Mutant: _run_in_background lets the refusal through, as POST /dbt/command does.
RefusedUnrecorded(r) ==
    /\ loc[r] = "slot"
    /\ Goto(r, "done")
    /\ UNCHANGED <<row, rc, attempt, files, leases, workers, processes, history>>

\* The error row of a run that never started dbt.  persist_complete of dbt_sse
\* reads run_results.json here too.
RecordUnstarted(r) ==
    /\ SetRow(r, "error")
    /\ IF Streamed(r) THEN ReadResults(r) ELSE UNCHANGED results

\* HTTP 429 from global_run_semaphore.  dbt_sse and _run_in_background record an
\* error; run_command called by POST /dbt/command lets the exception through.
Refused(r) ==
    /\ loc[r] = "slot"
    /\ IF Mode[r] = "sync" THEN UNCHANGED <<row, results>> ELSE RecordUnstarted(r)
    /\ Goto(r, "done")
    /\ UNCHANGED <<rc, attempt, fresh, target, snapshot, leases, workers,
                   processes, history>>

\* Mutant: the mtime baseline is taken when the row is inserted, before the lock.
TakeLockOldBaseline(r) ==
    /\ loc[r] = "lock" /\ key = Nobody
    /\ key' = r
    /\ Goto(r, IF Streamed(r) THEN "spawn" ELSE "asking")
    /\ attempt' = [attempt EXCEPT ![r] = 1]
    /\ epoch' = epoch \ {r}
    /\ UNCHANGED <<row, rc, files, stop, requests, warm, orphan, processes,
                   history>>

\* Mutant: the body runs whether or not the key was free.
TakeLockAnyway(r) ==
    /\ loc[r] = "lock"
    /\ key' = r
    /\ fresh' = fresh \ {r}
    /\ Goto(r, IF Streamed(r) THEN "spawn" ELSE "asking")
    /\ attempt' = [attempt EXCEPT ![r] = 1]
    /\ epoch' = epoch \ {r}
    /\ UNCHANGED <<row, rc, target, results, snapshot, stop, requests, warm,
                   orphan, processes, history>>

\* The lock is ours: sample the mtime of run_results.json and start.  dbt_sse
\* starts a subprocess, run_command asks the warm pool first.
TakeLock(r) ==
    /\ loc[r] = "lock" /\ key = Nobody
    /\ key' = r
    /\ fresh' = fresh \ {r}
    /\ Goto(r, IF Streamed(r) THEN "spawn" ELSE "asking")
    /\ attempt' = [attempt EXCEPT ![r] = 1]
    /\ epoch' = epoch \ {r}
    /\ UNCHANGED <<row, rc, target, results, snapshot, stop, requests, warm,
                   orphan, processes, history>>

\* Mutant: the error is recorded, and the body runs all the same.
LockTimeoutGoesOn(r) ==
    /\ loc[r] = "lock" /\ key # Nobody
    /\ SetRow(r, "error")
    /\ Goto(r, IF Streamed(r) THEN "spawn" ELSE "asking")
    /\ UNCHANGED <<rc, attempt, files, leases, workers, processes, history>>

\* TimeoutError after 30 s of waiting.
LockTimeout(r) ==
    /\ loc[r] = "lock" /\ key # Nobody
    /\ RecordUnstarted(r)
    /\ Goto(r, "done")
    /\ UNCHANGED <<rc, attempt, fresh, target, snapshot, leases, workers,
                   processes, history>>

-----------------------------------------------------------------------------
(* dbt at work.                                                            *)

Executing == warm \cup {r \in Runs : proc[r] = "alive"}

\* dbt writes target/run_results.json: newer than anybody's sample.
WriteResults(r) ==
    /\ r \in Executing
    /\ target' = r
    /\ fresh' = {q \in Runs : loc[q] \notin {"new", "done", "lost"}}
    /\ UNCHANGED <<loc, row, rc, attempt, results, snapshot, leases, workers,
                   processes, history>>

\* DbtWarmWorkerPool.run has a permit: it looks up the project's pool, or makes
\* a new one, and waits for its worker.
EnterPool(r) ==
    /\ loc[r] = "asking"
    /\ Goto(r, "queued")
    /\ UNCHANGED <<row, rc, attempt, files, leases, workers, processes, history>>

\* The worker takes one job at a time; it is started again if it was stopped.
WarmStart(r) ==
    /\ loc[r] = "queued"
    /\ r \notin orphan => \A q \in warm \ orphan : Home[q] # Home[r]
    /\ warm' = warm \cup {r}
    /\ Goto(r, "warm")
    /\ UNCHANGED <<row, rc, attempt, files, leases, orphan, epoch, processes,
                   history>>

WarmDone(r) ==
    /\ loc[r] = "warm" /\ r \in warm
    /\ \E c \in {"ok", "fail", "conflict"} : rc' = [rc EXCEPT ![r] = c]
    /\ warm' = warm \ {r} /\ orphan' = orphan \ {r}
    /\ Goto(r, "ended")
    /\ UNCHANGED <<row, attempt, files, leases, epoch, processes, history>>

\* Mutant: _run_dbt_command falls back without looking at the epoch.
WarmFailsFallsBack(r) ==
    /\ loc[r] \in {"asking", "queued", "warm"}
    /\ warm' = warm \ {r} /\ orphan' = orphan \ {r}
    /\ UNCHANGED rc
    /\ Goto(r, "spawn")
    /\ UNCHANGED <<row, attempt, files, leases, epoch, processes, history>>

\* The pool is full, the worker timed out, died or was killed.  A changed epoch
\* means Stop killed it; otherwise the whole command runs as a subprocess.
WarmFails(r) ==
    /\ loc[r] \in {"asking", "queued", "warm"}
    /\ warm' = warm \ {r} /\ orphan' = orphan \ {r}
    /\ IF r \in epoch
       THEN rc' = [rc EXCEPT ![r] = "cancel"] /\ Goto(r, "ended")
       ELSE UNCHANGED rc /\ Goto(r, "spawn")
    /\ UNCHANGED <<row, attempt, files, leases, epoch, processes, history>>

\* run_cancellable and _run_streaming_dbt_command: start dbt and enter it in
\* this worker's table.
Spawn(r) ==
    /\ loc[r] = "spawn"
    /\ proc' = [proc EXCEPT ![r] = "alive"]
    /\ local' = [local EXCEPT ![Home[r]] = r]
    /\ Goto(r, "spawned")
    /\ UNCHANGED <<row, rc, attempt, files, leases, workers, registered, flag,
                   history>>

\* A Redis round trip later it is registered, and only then does the try block
\* begin that would terminate it.
Register(r) ==
    /\ loc[r] = "spawned"
    /\ registered' = TRUE
    /\ Goto(r, "proc")
    /\ UNCHANGED <<row, rc, attempt, files, leases, workers, proc, local, flag,
                   history>>

ProcExits(r) ==
    /\ loc[r] \in {"spawned", "proc"} /\ proc[r] = "alive"
    /\ proc' = [proc EXCEPT ![r] = "exited"]
    /\ \E c \in {"ok", "fail", "conflict"} : rc' = [rc EXCEPT ![r] = c]
    /\ UNCHANGED <<loc, row, attempt, files, leases, workers, local, registered,
                   flag, history>>

\* dbt that no coroutine waits for any more ends.
LeakedExits(r) ==
    /\ loc[r] \in {"saved", "unlocked", "done", "lost"} /\ proc[r] = "alive"
    /\ proc' = [proc EXCEPT ![r] = "none"]
    /\ UNCHANGED <<loc, row, rc, attempt, files, leases, workers, local,
                   registered, flag, history>>

\* The finally block removes the project's entries, whoever made them.
Untrack(r) == local' = [local EXCEPT ![Home[r]] = Nobody] /\ registered' = FALSE

\* The process is gone: a cancelled flag for the project makes it a -1.
Collect(r) ==
    /\ loc[r] = "proc" /\ proc[r] \in {"exited", "killed"}
    /\ proc' = [proc EXCEPT ![r] = "none"]
    /\ rc' = [rc EXCEPT ![r] = IF flag THEN "cancel"
                               ELSE IF proc[r] = "killed" THEN "fail" ELSE @]
    /\ Untrack(r)
    /\ Goto(r, "ended")
    /\ UNCHANGED <<row, attempt, files, leases, workers, flag, history>>

\* run_cancellable after dbt_subprocess_timeout: terminate, wait, -1.
ProcTimesOut(r) ==
    /\ loc[r] = "proc" /\ proc[r] = "alive" /\ ~Streamed(r)
    /\ proc' = [proc EXCEPT ![r] = "none"]
    /\ \E c \in {"fail", "conflict"} : rc' = [rc EXCEPT ![r] = c]
    /\ Untrack(r)
    /\ Goto(r, "ended")
    /\ UNCHANGED <<row, attempt, files, leases, workers, flag, history>>

-----------------------------------------------------------------------------
(* From the end of dbt to the final row.                                   *)

MayRetry(r) == ~Streamed(r) /\ rc[r] = "conflict" /\ attempt[r] < MaxAttempts

\* "Conflicting lock" in the output: sleep, then the next attempt.
Retry(r) ==
    /\ loc[r] = "ended" /\ MayRetry(r)
    /\ attempt' = [attempt EXCEPT ![r] = @ + 1]
    /\ epoch' = epoch \ {r}
    /\ Goto(r, "asking")
    /\ UNCHANGED <<row, rc, files, leases, warm, orphan, processes, history>>

\* save_state_after_run, still under the lock.  Not every command and target
\* has its state saved.
Save(r) ==
    /\ loc[r] = "ended" /\ ~MayRetry(r)
    /\ \/ rc[r] = "ok" /\ r \in fresh /\ snapshot' = [by |-> r, of |-> target]
       \/ UNCHANGED snapshot
    /\ Goto(r, "saved")
    /\ UNCHANGED <<row, rc, attempt, fresh, target, results, leases, workers,
                   processes, history>>

\* Leave the lock and the slot.
Unlock(r) ==
    /\ loc[r] = "saved"
    /\ key' = IF key = r THEN Nobody ELSE key
    /\ Goto(r, "unlocked")
    /\ UNCHANGED <<row, rc, attempt, files, workers, processes, stop, requests,
                   history>>

\* run_command knows success and error; dbt_sse turns -1 into cancelled.
FinalStatus(r) ==
    CASE rc[r] = "ok" -> "success"
      [] rc[r] = "cancel" /\ Streamed(r) -> "cancelled"
      [] OTHER -> "error"

\* Only now, without the lock: read run_results.json, update the row.
Persist(r) ==
    /\ loc[r] = "unlocked"
    /\ SetRow(r, FinalStatus(r))
    /\ ReadResults(r)
    /\ Goto(r, "done")
    /\ UNCHANGED <<rc, attempt, fresh, target, snapshot, leases, workers,
                   processes, history>>

-----------------------------------------------------------------------------
(* Cancellation.                                                           *)

\* CommandService.cancel on worker w, up to its first sleep: the flag, and the
\* process in w's own table.
CancelCommand(w) ==
    /\ flag' = TRUE
    /\ proc' = [r \in Runs |-> IF r = local[w] /\ proc[r] = "alive"
                               THEN "killed" ELSE proc[r]]
    /\ killed' = killed \cup {r \in Runs : proc'[r] = "killed"}

\* The next cancel request.
Request == stop = Idle /\ requests < MaxRequests /\ requests' = requests + 1

\* POST /process/cancel served by worker w asks Redis whether there is a process
\* to cancel.
Stop(w) ==
    /\ "process" \in Cancels /\ Request
    /\ IF registered THEN CancelCommand(w) ELSE UNCHANGED <<flag, proc, killed>>
    /\ stopped' = stopped \cup warm \cup {r \in Runs : loc[r] = "proc"}
    /\ stop' = [at |-> "untrack", on |-> w, signal |-> registered,
                hit |-> registered /\ local[w] # Nobody, pool |-> TRUE]
    /\ UNCHANGED <<loc, row, rc, attempt, files, key, workers, local, registered>>

\* POST /dbt/runs/{r}/cancel served by worker w.  A terminal run is a 409.
CancelRun(r, w) ==
    /\ "run" \in Cancels /\ Request
    /\ row[r] = "running"
    /\ CancelCommand(w)
    /\ stop' = [at |-> "untrack", on |-> w, signal |-> TRUE,
                hit |-> local[w] # Nobody, pool |-> FALSE]
    /\ UNCHANGED <<loc, row, rc, attempt, files, key, workers, local, registered,
                   stopped>>

\* The end of CommandService.cancel, which removes whatever entries there are by
\* now; /process/cancel goes on to its own warm workers.
StopUntracks ==
    /\ stop.at = "untrack"
    /\ local' = IF stop.hit THEN [local EXCEPT ![stop.on] = Nobody] ELSE local
    /\ registered' = (registered /\ ~stop.signal)
    /\ IF stop.pool
       THEN /\ ReleasePool(stop.on)
            /\ epoch' = epoch \cup {r \in Runs : Home[r] = stop.on}
            /\ killed' = killed \cup (warm \ warm')
       ELSE UNCHANGED <<workers, killed>>
    /\ stop' = [stop EXCEPT !.at = "unlock"]
    /\ UNCHANGED <<loc, row, rc, attempt, files, key, requests, proc, flag,
                   stopped>>

\* Both handlers end with force_release.
StopUnlocks ==
    /\ stop.at = "unlock"
    /\ key' = Nobody
    /\ stop' = Idle
    /\ UNCHANGED <<loc, row, rc, attempt, files, requests, workers, processes,
                   history>>

\* The client of a stream goes away: one CancelledError in the generator.  The
\* cleanup terminates dbt, waits for it and leaves the lock; dbt that is not
\* registered yet is not terminated.
Disconnect(r) ==
    /\ "disconnect" \in Cancels /\ Streamed(r)
    /\ loc[r] \in {"slot", "lock", "spawn", "spawned", "proc", "ended", "saved",
                   "unlocked"}
    /\ rc' = [rc EXCEPT ![r] = "cancel"]
    /\ IF loc[r] = "proc"
       THEN proc' = [proc EXCEPT ![r] = "none"] /\ Untrack(r)
       ELSE UNCHANGED <<proc, local, registered>>
    /\ Goto(r, IF loc[r] \in {"slot", "lock", "unlocked"} THEN "unlocked" ELSE "saved")
    /\ UNCHANGED <<row, attempt, files, leases, workers, flag, stopped, killed>>

\* The task of a run_command is cancelled (the runner shuts down).
TaskCancelled(r) ==
    /\ "task" \in Cancels /\ ~Streamed(r)
    /\ \/ \* run_cancellable terminates dbt and returns -1
          /\ loc[r] = "proc"
          /\ proc' = [proc EXCEPT ![r] = "none"]
          /\ rc' = [rc EXCEPT ![r] = "cancel"]
          /\ Untrack(r)
          /\ Goto(r, "ended")
          /\ UNCHANGED <<row, key, warm, orphan>>
       \/ \* run_command's handler deletes the project's lock, whoever holds it
          /\ loc[r] \in {"slot", "lock", "asking", "queued", "warm", "spawn",
                         "spawned", "ended", "saved"}
          /\ warm' = warm \ {r} /\ orphan' = orphan \ {r}
          /\ key' = Nobody
          /\ SetRow(r, "cancelled")
          /\ Goto(r, "done")
          /\ UNCHANGED <<rc, proc, local, registered>>
       \/ \* no handler: the row waits for reconcile_stale_runs
          /\ loc[r] \in {"launched", "unlocked"}
          /\ Goto(r, "lost")
          /\ UNCHANGED <<row, rc, key, warm, orphan, proc, local, registered>>
    /\ UNCHANGED <<attempt, files, stop, requests, epoch, flag, stopped, killed>>

\* The 60 s of the cancelled flag are over.
FlagExpires ==
    /\ flag /\ flag' = FALSE
    /\ UNCHANGED <<loc, row, rc, attempt, files, leases, workers, proc, local,
                   registered, history>>

\* The 300 s of the registration are over; nothing renews it.
RegistrationExpires ==
    /\ LongRuns /\ registered
    /\ registered' = FALSE
    /\ UNCHANGED <<loc, row, rc, attempt, files, leases, workers, proc, local,
                   flag, history>>

-----------------------------------------------------------------------------
RunStep(r) ==
    \/ Submit(r) \/ SubmitStream(r) \/ Launch(r) \/ Prepare(r) \/ PrepareFails(r)
    \/ EnterSlot(r) \/ Refused(r) \/ TakeLock(r) \/ LockTimeout(r)
    \/ EnterPool(r) \/ WarmStart(r) \/ WarmDone(r) \/ WarmFails(r)
    \/ Spawn(r) \/ Register(r) \/ ProcExits(r) \/ Collect(r) \/ ProcTimesOut(r)
    \/ Retry(r) \/ Save(r) \/ Unlock(r) \/ Persist(r)

Finished == \A r \in Runs : loc[r] \in {"done", "lost"}

\* Nothing is left to do.
Quiet == Finished /\ UNCHANGED vars

Next ==
    \/ \E r \in Runs : \/ RunStep(r) \/ WriteResults(r) \/ LeakedExits(r)
                      \/ Disconnect(r) \/ TaskCancelled(r)
    \/ \E w \in Workers : Stop(w)
    \/ \E r \in Runs, w \in Workers : CancelRun(r, w)
    \/ StopUntracks \/ StopUnlocks \/ FlagExpires \/ RegistrationExpires
    \/ Quiet

Spec == Init /\ [][Next]_vars

\* The event loop runs what is ready; dbt ends by itself or by the timeouts.
Fairness == \A r \in Runs : WF_vars(RunStep(r))

FairSpec == Spec /\ Fairness

-----------------------------------------------------------------------------
(* Properties.                                                             *)

Terminal == {"success", "error", "cancelled"}

\* The values the variables take.
TypeOK ==
    /\ loc \in [Runs -> {"new", "launched", "slot", "lock", "asking",
                         "queued", "warm", "spawn", "spawned", "proc", "ended",
                         "saved", "unlocked", "done", "lost"}]
    /\ row \in [Runs -> {"none", "running"} \cup Terminal]
    /\ rc \in [Runs -> {"none", "ok", "fail", "conflict", "cancel"}]
    /\ attempt \in [Runs -> 0 .. MaxAttempts]
    /\ results \in [Runs -> Runs \cup {Nobody}]
    /\ key \in Runs \cup {Nobody} /\ target \in Runs \cup {Nobody}
    /\ snapshot \in [by : Runs \cup {Nobody}, of : Runs \cup {Nobody}]
    /\ fresh \subseteq Runs /\ warm \subseteq Runs /\ orphan \subseteq Runs /\ epoch \subseteq Runs
    /\ proc \in [Runs -> {"none", "alive", "exited", "killed"}]
    /\ local \in [Workers -> Runs \cup {Nobody}]
    /\ registered \in BOOLEAN /\ flag \in BOOLEAN
    /\ stop \in [at : {"idle", "untrack", "unlock"}, on : Workers \cup {Nobody},
                 signal : BOOLEAN, hit : BOOLEAN, pool : BOOLEAN]
    /\ requests \in 0 .. MaxRequests
    /\ stopped \subseteq Runs /\ killed \subseteq Runs

\* "Use file lock to prevent concurrent dbt runs on same project": dbt never
\* executes for two runs of the project at a time.
OneDbtAtATime == \A q, r \in Executing : q = r

\* The saved state holds the artifacts of the run that saved it: "Snapshot while
\* the project lock is still held. Otherwise the next run can replace target/".
SnapshotIsOwn == snapshot.of = snapshot.by

\* "so another run's artifacts can never be attributed to this one": the row of
\* a run holds its own run_results or none.
ResultsAreOwn == \A r \in Runs : results[r] \in {r, Nobody}

\* A run that was served to its end has a final row, unless it came through
\* POST /dbt/command: whichever way it was refused, timed out, failed or was
\* cancelled on the way.
ServedRunsSettle ==
    \A r \in Runs : loc[r] = "done" /\ Mode[r] # "sync" => row[r] \in Terminal

\* The same of every run.
AllRunsSettle == \A r \in Runs : loc[r] = "done" => row[r] \in Terminal

\* A terminal status is final: no later step of the run, of another run or of a
\* cancellation changes it.
TerminalIsFinal ==
    [][\A r \in Runs : row[r] \in Terminal => row'[r] = row[r]]_vars

\* "Cancel a running process for a project": once POST /process/cancel has been
\* answered, dbt executes for no run that waited for its dbt (with the process
\* registered) when the request came.
StopStops == stop = Idle => stopped \cap Executing = {}

\* "Stop must stop, not restart the command as a subprocess": whatever dbt a
\* cancel handler killed, in a warm worker or as a subprocess, neither the
\* fallback nor a retry executes dbt for that run again.
KilledStaysDown == killed \cap Executing = {}

\* "Cancel a running process for a project": where POST /process/cancel is the
\* only way to cancel, a row says cancelled only if that run waited for its dbt
\* when somebody pressed Stop, or had it killed.
CancelledWasThere == \A r \in Runs : row[r] = "cancelled" => r \in stopped \cup killed

\* "Poll `GET /dbt/runs/{run_id}` until `status` is terminal": it becomes so,
\* unless the runner is shut down meanwhile or, through POST /dbt/command, the
\* slot was refused.
PollingEnds ==
    \A r \in Runs :
        row[r] = "running" /\ Mode[r] # "sync"
            ~> row[r] \in Terminal \/ loc[r] = "lost"
=============================================================================
