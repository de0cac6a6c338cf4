----------------------------- MODULE WarmWorkers -----------------------------
(***************************************************************************)
(* services/dbt_worker.py: the warm dbt workers of one uvicorn worker.     *)
(*                                                                         *)
(* DbtWarmWorkerPool keeps one _ProjectWorkerPool per project, each with   *)
(* one worker (dbt_warm_worker_count = 1, the default), and a semaphore    *)
(* over all of them.  A job is one call of DbtWarmWorkerPool.run.          *)
(*                                                                         *)
(* A pool that leaves the map is not gone: calls that looked it up before  *)
(* still wait in it, run in it and put its worker back.  Pools therefore   *)
(* have identities here (1, 2, ... in the order they are created) and the  *)
(* map of the code is the function current.                                *)
(***************************************************************************)
EXTENDS Integers, FiniteSets

CONSTANTS
    Jobs,
    Projects,
    Project,        \* the project of a job
    Capacity,       \* worker_count + dbt_warm_worker_queue_size
    MaxProjects,    \* dbt_warm_worker_max_projects
    Releases,       \* does anybody call release_project?
    StartFaults     \* may a worker process fail to start?

ASSUME ConstantsAssumption ==
    /\ IsFiniteSet(Jobs) /\ IsFiniteSet(Projects)
    /\ Project \in [Jobs -> Projects]
    /\ Capacity \in Nat \ {0} /\ MaxProjects \in Nat \ {0}
    /\ Releases \in BOOLEAN /\ StartFaults \in BOOLEAN

\* A job creates at most one pool.
PoolIds == 1 .. Cardinality(Jobs)

VARIABLES
    at,         \* where the call is
    pool,       \* project_pool of the call; 0 before it looked it up
    current,    \* _project_pools; 0 where there is none
    made,       \* how many pools have been created
    started,    \* _started: and the worker is in _workers, where stop finds it
    avail,      \* the worker is in the _available queue
    alive,      \* the worker's process is alive
    inUse,      \* in_use
    permits,    \* what is left of _capacity_sem
    ran         \* history: jobs whose response came back from the worker

calls == <<at, pool, permits>>
pools == <<current, made, started, avail, alive, inUse>>
vars == <<at, pool, current, made, started, avail, alive, inUse, permits, ran>>

Init ==
    /\ at = [j \in Jobs |-> "idle"]
    /\ pool = [j \in Jobs |-> 0]
    /\ current = [q \in Projects |-> 0]
    /\ made = 0
    /\ started = [p \in PoolIds |-> FALSE]
    /\ avail = [p \in PoolIds |-> FALSE]
    /\ alive = [p \in PoolIds |-> FALSE]
    /\ inUse = [p \in PoolIds |-> 0]
    /\ permits = Capacity
    /\ ran = {}

Goto(j, l) == at' = [at EXCEPT ![j] = l]

\* _capacity_sem.release() and the end of the call.
Return(j, l) == Goto(j, l) /\ permits' = permits + 1

\* in_use of the call's pool, one more or one less.
Count(j, n) == inUse' = [inUse EXCEPT ![pool[j]] = @ + n]

-----------------------------------------------------------------------------
(* The map of pools.                                                       *)

Mapped == {q \in Projects : current[q] # 0}

\* _ProjectWorkerPool.stop of the pool that project q had: the workers it lists
\* are terminated and forgotten.  A worker that is being started is not listed.
TakeOut(q) ==
    /\ current' = [current EXCEPT ![q] = 0]
    /\ started' = [started EXCEPT ![current[q]] = FALSE]
    /\ alive' = [alive EXCEPT ![current[q]] = @ /\ ~started[current[q]]]

\* release_project, by POST /process/cancel or by a profile regeneration.
Release(q) ==
    /\ Releases /\ q \in Mapped
    /\ TakeOut(q)
    /\ UNCHANGED <<calls, made, avail, inUse, ran>>

\* Mutant: the sweep does not look at in_use.
CandidatesAny(j) == Mapped \ {Project[j]}

\* The pools a sweep on behalf of j may reclaim.
Candidates(j) == {q \in Mapped \ {Project[j]} : inUse[current[q]] = 0}

Crowded == Cardinality(Mapped) >= MaxProjects

\* A pool that is being started was used just now.
Starting(p) == \E i \in Jobs : at[i] = "start" /\ pool[i] = p

\* _reclaim_pools: an idle pool, or the least recently used one while there are
\* too many.  Which one that is stays open.
Reclaim(j, q) ==
    /\ at[j] = "sweep" /\ q \in Candidates(j)
    /\ Crowded \/ ~Starting(current[q])
    /\ TakeOut(q)
    /\ UNCHANGED <<calls, made, avail, inUse, ran>>

-----------------------------------------------------------------------------
(* DbtWarmWorkerPool.run.                                                  *)

Call(j) ==
    /\ at[j] = "idle"
    /\ Goto(j, "permit")
    /\ UNCHANGED <<pool, permits, pools, ran>>

Permit(j) ==
    /\ at[j] = "permit" /\ permits > 0
    /\ permits' = permits - 1
    /\ Goto(j, "sweep")
    /\ UNCHANGED <<pool, pools, ran>>

\* "dbt warm worker queue is full"
PermitTimeout(j) ==
    /\ at[j] = "permit" /\ permits = 0
    /\ Goto(j, "failed")
    /\ UNCHANGED <<pool, permits, pools, ran>>

SweepOver(j) == at[j] = "sweep" /\ (Crowded => Candidates(j) = {})

\* The sweep is over and the project has a pool that is started: no await until
\* the call is counted and waits in the queue.
EnterStarted(j) ==
    /\ SweepOver(j)
    /\ current[Project[j]] # 0 /\ started[current[Project[j]]]
    /\ pool' = [pool EXCEPT ![j] = current[Project[j]]]
    /\ inUse' = [inUse EXCEPT ![current[Project[j]]] = @ + 1]
    /\ Goto(j, "queued")
    /\ UNCHANGED <<permits, current, made, started, avail, alive, ran>>

\* Otherwise the call is going to start it, or to wait for who does.
EnterUnstarted(j) ==
    /\ SweepOver(j)
    /\ IF current[Project[j]] = 0
       THEN /\ made' = made + 1
            /\ current' = [current EXCEPT ![Project[j]] = made + 1]
       ELSE /\ ~started[current[Project[j]]]
            /\ UNCHANGED <<made, current>>
    /\ pool' = [pool EXCEPT ![j] = current'[Project[j]]]
    /\ Goto(j, "start")
    /\ UNCHANGED <<permits, started, avail, alive, inUse, ran>>

\* Has the pool got its worker already?
Born(p) == started[p] \/ avail[p] \/ inUse[p] > 0

\* _ProjectWorkerPool.start: the process is ready, the worker is listed.
StartPool(j) ==
    /\ at[j] = "start" /\ ~Born(pool[j])
    /\ started' = [started EXCEPT ![pool[j]] = TRUE]
    /\ alive' = [alive EXCEPT ![pool[j]] = TRUE]
    /\ avail' = [avail EXCEPT ![pool[j]] = TRUE]
    /\ Count(j, 1)
    /\ Goto(j, "queued")
    /\ UNCHANGED <<pool, permits, current, made, ran>>

\* Another caller started it while this one waited for _start_lock.
JoinStarted(j) ==
    /\ at[j] = "start" /\ Born(pool[j])
    /\ Count(j, 1)
    /\ Goto(j, "queued")
    /\ UNCHANGED <<pool, permits, current, made, started, avail, alive, ran>>

\* worker.start raised.  (A process that is only slow stays alive, in no pool.)
StartFails(j) ==
    /\ StartFaults
    /\ at[j] = "start" /\ ~Born(pool[j])
    /\ Return(j, "failed")
    /\ UNCHANGED <<pool, pools, ran>>

\* The queue hands out the worker; worker.run starts its process if need be.
TakeWorker(j) ==
    /\ at[j] = "queued" /\ avail[pool[j]]
    /\ avail' = [avail EXCEPT ![pool[j]] = FALSE]
    /\ alive' = [alive EXCEPT ![pool[j]] = TRUE]
    /\ Goto(j, "executing")
    /\ UNCHANGED <<pool, permits, current, made, started, inUse, ran>>

\* Mutant: the failure path leaves in_use incremented.
QueueTimeoutUncounted(j) ==
    /\ at[j] = "queued" /\ ~avail[pool[j]]
    /\ Return(j, "failed")
    /\ UNCHANGED <<pool, pools, ran>>

\* Mutant: who waited in vain waits again.
QueueTimeoutWaitsAgain(j) ==
    /\ at[j] = "queued" /\ ~avail[pool[j]]
    /\ UNCHANGED vars

\* "dbt warm worker queue is full for project ..."
QueueTimeout(j) ==
    /\ at[j] = "queued" /\ ~avail[pool[j]]
    /\ Count(j, -1)
    /\ Return(j, "failed")
    /\ UNCHANGED <<pool, current, made, started, avail, alive, ran>>

\* The response is there, and the worker goes back as it is.
JobEnds(j) ==
    /\ at[j] = "executing" /\ alive[pool[j]]
    /\ ran' = ran \cup {j}
    /\ avail' = [avail EXCEPT ![pool[j]] = TRUE]
    /\ Count(j, -1)
    /\ Return(j, "done")
    /\ UNCHANGED <<pool, current, made, started, alive>>

\* The same after dbt_warm_worker_recycle_jobs jobs: the process is replaced.
JobEndsRecycling(j) ==
    /\ at[j] = "executing" /\ alive[pool[j]]
    /\ ran' = ran \cup {j}
    /\ alive' = [alive EXCEPT ![pool[j]] = FALSE]
    /\ Goto(j, "restart")
    /\ UNCHANGED <<pool, permits, current, made, started, avail, inUse>>

\* It closed its stdout, timed out or said too much: stopped, and recycled.
JobFails(j) ==
    /\ at[j] = "executing"
    /\ alive' = [alive EXCEPT ![pool[j]] = FALSE]
    /\ Goto(j, "restart")
    /\ UNCHANGED <<pool, permits, current, made, started, avail, inUse, ran>>

\* put(recycle=True): start the process again and queue the worker.
Restarted(j) ==
    /\ at[j] = "restart"
    /\ alive' = [alive EXCEPT ![pool[j]] = TRUE]
    /\ avail' = [avail EXCEPT ![pool[j]] = TRUE]
    /\ Count(j, -1)
    /\ Return(j, IF j \in ran THEN "done" ELSE "failed")
    /\ UNCHANGED <<pool, current, made, started, ran>>

\* That start raises out of put and out of run, whatever the job came to; the
\* worker is in no queue any more.
RestartFails(j) ==
    /\ StartFaults
    /\ at[j] = "restart"
    /\ Count(j, -1)
    /\ Return(j, "failed")
    /\ UNCHANGED <<pool, current, made, started, avail, alive, ran>>

-----------------------------------------------------------------------------
RunStep(j) ==
    \/ Permit(j) \/ PermitTimeout(j)
    \/ EnterStarted(j) \/ EnterUnstarted(j)
    \/ (\E q \in Projects : Reclaim(j, q))
    \/ StartPool(j) \/ JoinStarted(j) \/ StartFails(j)
    \/ TakeWorker(j) \/ QueueTimeout(j)
    \/ JobEnds(j) \/ JobEndsRecycling(j) \/ JobFails(j)
    \/ Restarted(j) \/ RestartFails(j)

Over == {"done", "failed"}

\* All calls have returned.
Quiet == (\A j \in Jobs : at[j] \in Over) /\ UNCHANGED vars

Next ==
    \/ \E j \in Jobs : Call(j) \/ RunStep(j)
    \/ \E q \in Projects : Release(q)
    \/ Quiet

Spec == Init /\ [][Next]_vars

\* Every await of run has a timeout or ends by itself.
FairSpec == Spec /\ \A j \in Jobs : WF_vars(RunStep(j))

-----------------------------------------------------------------------------
(* Properties.                                                             *)

\* The values the variables take.
TypeOK ==
    /\ at \in [Jobs -> {"idle", "permit", "sweep", "start", "queued", "executing",
                        "restart"} \cup Over]
    /\ pool \in [Jobs -> PoolIds \cup {0}]
    /\ current \in [Projects -> PoolIds \cup {0}]
    /\ made \in PoolIds \cup {0}
    /\ started \in [PoolIds -> BOOLEAN]
    /\ avail \in [PoolIds -> BOOLEAN]
    /\ alive \in [PoolIds -> BOOLEAN]
    /\ inUse \in [PoolIds -> 0 .. Cardinality(Jobs)]
    /\ permits \in 0 .. Capacity
    /\ ran \subseteq Jobs

\* The calls a pool counts as in_use.
Users(p) == {j \in Jobs : pool[j] = p /\ at[j] \in {"queued", "executing", "restart"}}

\* in_use of every pool is the number of calls between get and the end of put,
\* on every path out of them; "left incremented", the pool "becomes permanently
\* unreclaimable".
InUseExact == \A p \in PoolIds : inUse[p] = Cardinality(Users(p))

\* Every permit comes back: what is missing from the capacity is in the hands of
\* a call that has not returned.
PermitsExact ==
    permits + Cardinality({j \in Jobs : at[j] \notin {"idle", "permit"} \cup Over})
        = Capacity

\* A worker serves one job at a time, in a pool of the map as in one that was
\* taken out, also while it is stopped and started again.
WorkerServesOne ==
    \A i, j \in Jobs :
        /\ at[i] \in {"executing", "restart"} /\ at[j] \in {"executing", "restart"}
        /\ pool[i] = pool[j]
        => i = j

\* The books of the pools balance on every way out of a call, and a worker is
\* never handed to two of them.
PoolsExact == TypeOK /\ InUseExact /\ PermitsExact /\ WorkerServesOne

\* The job's dbt is at work; a call learns later that its process is gone.
Executes(j) == at[j] = "executing" /\ alive[pool[j]]

\* "Only reclaimable pools are touched - stopping a pool mid-job would kill the
\* very command that triggered the sweep": the sweep of one call kills the
\* process of no other call's job.
SweepSparesJobs ==
    [][\A i, j \in Jobs, q \in Projects :
         Reclaim(i, q) /\ Executes(j) => alive'[pool[j]]]_vars

\* Every call returns: with a response, or with an error that makes the caller
\* fall back to a subprocess.
CallsReturn == \A j \in Jobs : at[j] = "permit" ~> at[j] \in Over
=============================================================================
