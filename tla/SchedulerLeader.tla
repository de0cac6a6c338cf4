--------------------------- MODULE SchedulerLeader ---------------------------
(***************************************************************************)
(* The leader of the runner's scheduler: the Redis lease that lets one     *)
(* process tick, and the key that makes maintenance run once per interval. *)
(* A process that is started again is another one, with another _instance. *)
(* What a tick does to a schedule is in Schedules.                         *)
(*                                                                         *)
(* Time is left out: the lease may end at any moment, and `late` records   *)
(* that it ended under a process that was still there (a tick, maintenance *)
(* or an outage longer than scheduler_leader_ttl).                         *)
(***************************************************************************)
EXTENDS Naturals

CONSTANTS Processes, NoProcess, MaxOutages

ASSUME ProcessAssumption == NoProcess \notin Processes
ASSUME OutageAssumption == MaxOutages \in Nat

VARIABLES
    lease,          \* the value of LEADER_KEY, or NoProcess
    maintained,     \* MAINTENANCE_KEY is there
    redisUp,        \* Redis answers
    outages,        \* outages so far
    stage,          \* where _loop, or stop, of a process is
    leaders,        \* the processes with _is_leader
    remembered,     \* the processes whose _last_maintenance is recent
    late,           \* history: a lease ended under its living owner
    overrun         \* history: the maintenance key ended, or was not asked,
                    \* while somebody maintained

leaderVars == <<lease, maintained, redisUp, outages, stage, leaders, remembered, late, overrun>>

Acquiring == {"loop", "asked", "refreshing"}
Ticking == {"tick", "fired", "maintain"}
Looping == Acquiring \cup Ticking \cup {"sleep"}
Stages == Looping \cup {"new", "stopping", "deleting", "off"}

LeaderInit ==
    /\ lease = NoProcess /\ maintained = FALSE
    /\ redisUp \in BOOLEAN /\ outages = 0
    /\ stage = [w \in Processes |-> "new"]
    /\ leaders = {} /\ remembered = {}
    /\ late = FALSE /\ overrun = FALSE

GoesTo(w, to) == stage' = [stage EXCEPT ![w] = to]
Keys == <<lease, maintained>>
History == <<late, overrun>>
Outside == <<redisUp, outages, remembered, History>>

\* start.  The check of Redis at start-up has created the client of the process, also
\* when its ping failed, so get_redis never raises again and _acquire_leader never
\* stands in for Redis: its commands fail instead.
StartScheduler(w) ==
    /\ stage[w] = "new" /\ GoesTo(w, "loop")
    /\ UNCHANGED <<Keys, leaders, Outside>>
-----------------------------------------------------------------------------
\* _acquire_leader: SET NX, then GET, then EXPIRE.
TakeAnyway(w) ==
    /\ stage[w] = "loop" /\ redisUp
    /\ lease' = w /\ leaders' = leaders \cup {w}
    /\ GoesTo(w, "tick")
    /\ UNCHANGED <<maintained, Outside>>
TakeLease(w) ==
    /\ stage[w] = "loop" /\ redisUp /\ lease = NoProcess
    /\ lease' = w /\ leaders' = leaders \cup {w}
    /\ GoesTo(w, "tick")
    /\ UNCHANGED <<maintained, Outside>>
LeaseTaken(w) ==
    /\ stage[w] = "loop" /\ redisUp /\ lease # NoProcess
    /\ GoesTo(w, "asked")
    /\ UNCHANGED <<Keys, leaders, Outside>>
OwnLease(w) ==
    /\ stage[w] = "asked" /\ redisUp /\ lease = w
    /\ GoesTo(w, "refreshing")
    /\ UNCHANGED <<Keys, leaders, Outside>>
Follow(w) ==
    /\ stage[w] = "asked" /\ redisUp /\ lease # w
    /\ leaders' = leaders \ {w} /\ GoesTo(w, "sleep")
    /\ UNCHANGED <<Keys, Outside>>
\* EXPIRE prolongs whatever lease there is by now.
Refresh(w) ==
    /\ stage[w] = "refreshing" /\ redisUp
    /\ leaders' = leaders \cup {w} /\ GoesTo(w, "tick")
    /\ UNCHANGED <<Keys, Outside>>
\* _loop logs the exception of a command and sleeps; _is_leader stays as it is.
CommandFails(w) ==
    /\ stage[w] \in Acquiring /\ ~redisUp
    /\ GoesTo(w, "sleep")
    /\ UNCHANGED <<Keys, leaders, Outside>>
-----------------------------------------------------------------------------
\* _tick: the due schedules, then maintenance; an exception ends it.
FireDueSchedules(w, ok) ==
    /\ stage[w] = "tick" /\ GoesTo(w, IF ok THEN "fired" ELSE "sleep")
    /\ UNCHANGED <<Keys, leaders, Outside>>
\* _maintenance_due: the key's presence is the record, or the process remembers.
MaintenanceDue(w) ==
    /\ stage[w] = "fired" /\ redisUp
    /\ maintained' = TRUE
    /\ GoesTo(w, IF maintained THEN "sleep" ELSE "maintain")
    /\ UNCHANGED <<lease, leaders, Outside>>
MaintenanceUnasked(w) ==
    /\ stage[w] = "fired" /\ ~redisUp
    /\ GoesTo(w, IF w \in remembered THEN "sleep" ELSE "maintain")
    /\ remembered' = remembered \cup {w}
    /\ overrun' = TRUE
    /\ UNCHANGED <<Keys, leaders, redisUp, outages, late>>
\* _run_maintenance catches what fails in it.
MaintenanceEnds(w) ==
    /\ stage[w] = "maintain" /\ GoesTo(w, "sleep")
    /\ UNCHANGED <<Keys, leaders, Outside>>
Wake(w) ==
    /\ stage[w] = "sleep" /\ GoesTo(w, "loop")
    /\ UNCHANGED <<Keys, leaders, Outside>>
-----------------------------------------------------------------------------
\* stop cancels the task wherever it waits; a SET under way may have been executed.
StopScheduler(w, sent) ==
    /\ stage[w] \in Looping
    /\ sent => stage[w] = "loop" /\ redisUp /\ lease = NoProcess
    /\ lease' = IF sent THEN w ELSE lease
    /\ GoesTo(w, IF w \in leaders THEN "stopping" ELSE "off")
    /\ UNCHANGED <<maintained, leaders, Outside>>
\* _release_leader: GET, then DEL; whatever fails, "the TTL takes care of it".
ReleaseRead(w) ==
    /\ stage[w] = "stopping" /\ redisUp
    /\ IF lease = w THEN GoesTo(w, "deleting") /\ UNCHANGED leaders
       ELSE GoesTo(w, "off") /\ leaders' = leaders \ {w}
    /\ UNCHANGED <<Keys, Outside>>
ReleaseDelete(w) ==
    /\ stage[w] = "deleting" /\ redisUp
    /\ lease' = NoProcess /\ leaders' = leaders \ {w} /\ GoesTo(w, "off")
    /\ UNCHANGED <<maintained, Outside>>
ReleaseFails(w) ==
    /\ stage[w] \in {"stopping", "deleting"} /\ ~redisUp
    /\ leaders' = leaders \ {w} /\ GoesTo(w, "off")
    /\ UNCHANGED <<Keys, Outside>>
ProcessDies(w) ==
    /\ stage[w] \notin {"new", "off"}
    /\ leaders' = leaders \ {w} /\ GoesTo(w, "off")
    /\ UNCHANGED <<Keys, Outside>>
-----------------------------------------------------------------------------
\* Redis ends keys by itself, and goes away.
LeaseStays == FALSE /\ UNCHANGED leaderVars
LeaseExpires ==
    /\ lease # NoProcess
    /\ lease' = NoProcess
    /\ late' = (late \/ stage[lease] # "off")
    /\ UNCHANGED <<maintained, redisUp, outages, stage, leaders, remembered, overrun>>
AbandonedLeaseExpires == LeaseExpires /\ stage[lease] = "off"
MaintenanceExpires ==
    /\ maintained /\ maintained' = FALSE
    /\ overrun' = (overrun \/ \E w \in Processes : stage[w] = "maintain")
    /\ UNCHANGED <<lease, redisUp, outages, stage, leaders, remembered, late>>
Forget(w) ==
    /\ w \in remembered /\ remembered' = remembered \ {w}
    /\ UNCHANGED <<Keys, redisUp, outages, stage, leaders, History>>
RedisFails ==
    /\ redisUp /\ outages < MaxOutages
    /\ redisUp' = FALSE /\ outages' = outages + 1
    /\ UNCHANGED <<Keys, stage, leaders, remembered, History>>
RedisBack ==
    /\ ~redisUp /\ redisUp' = TRUE
    /\ UNCHANGED <<Keys, outages, stage, leaders, remembered, History>>

\* What a process does by itself once it is started.
ProcessStep(w) ==
    \/ TakeLease(w)
    \/ LeaseTaken(w)
    \/ OwnLease(w)
    \/ Follow(w)
    \/ Refresh(w)
    \/ CommandFails(w)
    \/ \E ok \in BOOLEAN : FireDueSchedules(w, ok)
    \/ MaintenanceDue(w)
    \/ MaintenanceUnasked(w)
    \/ MaintenanceEnds(w)
    \/ Wake(w)
    \/ ReleaseRead(w)
    \/ ReleaseDelete(w)
    \/ ReleaseFails(w)

LeaderNext ==
    \/ \E w \in Processes :
         \/ ProcessStep(w)
         \/ StartScheduler(w)
         \/ \E sent \in BOOLEAN : StopScheduler(w, sent)
         \/ ProcessDies(w)
         \/ Forget(w)
    \/ LeaseExpires
    \/ MaintenanceExpires
    \/ RedisFails
    \/ RedisBack

\* The event loop goes on, and a lease that nobody refreshes ends.
LeaderFairness ==
    /\ \A w \in Processes : WF_leaderVars(ProcessStep(w))
    /\ WF_leaderVars(AbandonedLeaseExpires)

LeaderSpec == LeaderInit /\ [][LeaderNext]_leaderVars
-----------------------------------------------------------------------------
LeaderTypeOK ==
    /\ lease \in Processes \cup {NoProcess} /\ maintained \in BOOLEAN
    /\ redisUp \in BOOLEAN /\ outages \in 0 .. MaxOutages
    /\ stage \in [Processes -> Stages]
    /\ leaders \subseteq Processes /\ remembered \subseteq Processes
    /\ late \in BOOLEAN /\ overrun \in BOOLEAN

\* Whoever acts as the leader owns the lease, unless it ended under him.
LeaseOwned ==
    ~late => \A w \in Processes :
        stage[w] \in Ticking \cup {"refreshing", "deleting"} => lease = w

\* "Exactly one process does this at a time": two processes never tick together,
\* through every interleaving of their commands, stops, crashes and outages, as
\* long as no lease ended under a process that was there.
OneTicker ==
    ~late => \A v, w \in Processes : stage[v] \in Ticking /\ stage[w] \in Ticking => v = w

\* "True at most once per MAINTENANCE_INTERVAL_HOURS, across processes": also two
\* processes that both tick do not maintain together, unless the key ended under the
\* first one or could not be asked.
OneMaintainer ==
    ~overrun => \A v, w \in Processes : stage[v] = "maintain" /\ stage[w] = "maintain" => v = w

\* One process at a time fires schedules and maintains the lakehouses.
OneScheduler == LeaderTypeOK /\ LeaseOwned /\ OneTicker /\ OneMaintainer

\* While one process stays up and Redis does in the end, somebody ticks again and
\* again, whoever stopped, crashed or left a lease behind before.
TicksGoOn ==
    \A w \in Processes :
        <>[](stage[w] \in Looping /\ redisUp) => []<>(\E v \in Processes : stage[v] = "tick")

\* "Without Redis the loop still runs": it runs and never ticks, since get_redis
\* raises in the first call only, which is the check at start-up.
TicksWithoutRedis ==
    \A w \in Processes :
        <>[](stage[w] \in Looping) => []<>(\E v \in Processes : stage[v] = "tick")

\* "Exactly one process does this at a time", without exception: nobody refreshes
\* the lease during a tick, and maintenance may outlast it.
ExactlyOne == \A v, w \in Processes : stage[v] \in Ticking /\ stage[w] \in Ticking => v = w
=============================================================================
