--------------------------- MODULE GlobalSemaphore ---------------------------
(***************************************************************************)
(* core/global_semaphore.py: the Redis semaphores that cap how many dbt    *)
(* runs and how many console queries are in flight in all uvicorn workers. *)
(*                                                                         *)
(* A call of one of the three context managers owns a fresh uuid token.    *)
(* The pool it asks is a sorted set of tokens scored by the instant their  *)
(* lease expires; the model keeps, instead of the score, the time LEFT, so *)
(* that no clock value has to be bounded: a member with nothing left is    *)
(* what ZREMRANGEBYSCORE -inf now removes.  One unit of time is one        *)
(* RenewInterval-th of the renewal period.                                 *)
(***************************************************************************)
EXTENDS Integers, FiniteSets

CONSTANTS
    HttpTokens,      \* calls of global_run_semaphore: a 429 when full
    RunTokens,       \* calls of global_run_semaphore_blocking: they poll
    QueryTokens,     \* calls of global_query_semaphore: a 429 when full
    MaxRuns,         \* settings.max_concurrent_dbt_runs
    MaxQueries,      \* settings.max_concurrent_queries
    LeaseTTL,        \* LEASE_TTL_SECONDS
    RenewInterval,   \* lease_ttl / 3
    MaxLag,          \* how late the event loop may serve a renewal
    MaxWait,         \* max_wait_seconds of the polling callers
    RedisFaults      \* may a Redis command of a holder fail?

Tokens == HttpTokens \cup RunTokens \cup QueryTokens

ASSUME TokensAssumption ==
    /\ IsFiniteSet(Tokens)
    /\ QueryTokens \cap (HttpTokens \cup RunTokens) = {}
    /\ HttpTokens \cap RunTokens = {}

ASSUME LimitsAssumption == MaxRuns \in Nat /\ MaxQueries \in Nat

(***************************************************************************)
(* A renewal that is late by less than two thirds of the lease still finds *)
(* the lease alive: 40 + lag < 120 with the values of the code.            *)
(***************************************************************************)
ASSUME TimingAssumption ==
    /\ LeaseTTL \in Nat /\ RenewInterval \in Nat /\ MaxLag \in Nat
    /\ MaxWait \in Nat
    /\ 0 < RenewInterval
    /\ RenewInterval + MaxLag < LeaseTTL

ASSUME FaultsAssumption == RedisFaults \in BOOLEAN

VARIABLES
    slots,      \* the members of the two sorted sets (the token tells which)
    left,       \* time until a member's lease expires
    pc,         \* where the call that owns a token is
    renewing,   \* is its _renew_loop task still alive?
    since,      \* time since its last renewal
    waited      \* time a polling caller has waited

vars == <<slots, left, pc, renewing, since, waited>>

-----------------------------------------------------------------------------
(* The two pools.                                                          *)

\* Python's max on the two integers the settings hold.
AtLeast(a, b) == IF a >= b THEN a ELSE b

\* The tokens that share a Redis key with t: "global:dbt_queries" or
\* "global:dbt_runs".
Pool(t) == IF t \in QueryTokens THEN QueryTokens ELSE HttpTokens \cup RunTokens

LimitOf(t) == IF t \in QueryTokens THEN AtLeast(1, MaxQueries) ELSE MaxRuns

\* Mutant: the budget is divided by the runs alone, "which is what this did
\* first".
EngineSlotsRunsOnly == AtLeast(1, MaxRuns)

\* duckdb_resources.concurrent_engine_slots: the number of DuckDB instances
\* the memory budget is divided by.
EngineSlots == AtLeast(1, MaxRuns) + AtLeast(0, MaxQueries)

\* Mutant: a lease counts as expired one unit too early.
ExpiredEarly == {t \in slots : left[t] <= 1}

Expired == {t \in slots : left[t] = 0}

\* The members of t's pool once the script has dropped the expired ones.
Kept(t) == (slots \cap Pool(t)) \ Expired

-----------------------------------------------------------------------------
Init ==
    /\ slots = {}
    /\ left = [t \in Tokens |-> 0]
    /\ pc = [t \in Tokens |-> "idle"]
    /\ renewing = [t \in Tokens |-> FALSE]
    /\ since = [t \in Tokens |-> 0]
    /\ waited = [t \in Tokens |-> 0]

\* _ACQUIRE_SCRIPT: prune, count, add.  The pruning happens even when the
\* pool turns out to be full.
CanAcquire(t) == Cardinality(Kept(t)) < LimitOf(t)

\* Mutant: the script without its ZREMRANGEBYSCORE.
AcquireScriptNoPrune(t) ==
    slots' = slots \cup (IF CanAcquire(t) THEN {t} ELSE {})

AcquireScript(t) ==
    slots' = (slots \ (Pool(t) \cap Expired))
                \cup (IF CanAcquire(t) THEN {t} ELSE {})

\* The caller got the slot: it starts the renewal task and runs its body.
Enter(t) ==
    /\ CanAcquire(t)
    /\ AcquireScript(t)
    /\ left' = [left EXCEPT ![t] = LeaseTTL]
    /\ pc' = [pc EXCEPT ![t] = "holding"]
    /\ renewing' = [renewing EXCEPT ![t] = TRUE]
    /\ since' = [since EXCEPT ![t] = 0]
    /\ waited' = [waited EXCEPT ![t] = 0]

\* A call draws a fresh uuid: its token is in no pool.
Fresh(t) == pc[t] = "idle" /\ t \notin slots

\* global_run_semaphore and global_query_semaphore, slot granted.
Acquire(t) ==
    /\ t \in HttpTokens \cup QueryTokens
    /\ Fresh(t)
    /\ Enter(t)

\* The same two, pool full: HTTP 429.  The pruning is all that remains.
Reject(t) ==
    /\ t \in HttpTokens \cup QueryTokens
    /\ Fresh(t)
    /\ ~CanAcquire(t)
    /\ AcquireScript(t)
    /\ UNCHANGED <<left, pc, renewing, since, waited>>

\* global_run_semaphore_blocking: start polling.
StartWaiting(t) ==
    /\ t \in RunTokens
    /\ Fresh(t)
    /\ pc' = [pc EXCEPT ![t] = "waiting"]
    /\ UNCHANGED <<slots, left, renewing, since, waited>>

PollAcquire(t) == pc[t] = "waiting" /\ Enter(t)

\* A poll that finds the pool full gives up once max_wait_seconds have passed.
PollFull(t) ==
    /\ pc[t] = "waiting"
    /\ ~CanAcquire(t)
    /\ AcquireScript(t)
    /\ IF waited[t] > MaxWait
       THEN /\ pc' = [pc EXCEPT ![t] = "idle"]
            /\ waited' = [waited EXCEPT ![t] = 0]
       ELSE UNCHANGED <<pc, waited>>
    /\ UNCHANGED <<left, renewing, since>>

\* Mutant: the renewal extends the lease by the interval instead of the TTL.
RenewTooShort(t) ==
    /\ pc[t] = "holding" /\ renewing[t]
    /\ since[t] >= RenewInterval
    /\ slots' = slots \cup {t}
    /\ left' = [left EXCEPT ![t] = RenewInterval]
    /\ since' = [since EXCEPT ![t] = 0]
    /\ UNCHANGED <<pc, renewing, waited>>

\* _renew_loop: the interval timed out, so ZADD the token with a new expiry.
\* ZADD inserts the token when it is no longer a member.
Renew(t) ==
    /\ pc[t] = "holding" /\ renewing[t]
    /\ since[t] >= RenewInterval
    /\ slots' = slots \cup {t}
    /\ left' = [left EXCEPT ![t] = LeaseTTL]
    /\ since' = [since EXCEPT ![t] = 0]
    /\ UNCHANGED <<pc, renewing, waited>>

\* A Redis error ends the renewal task; nobody looks at the task until the
\* body is over, so the body goes on with a lease nobody renews.
RenewError(t) ==
    /\ RedisFaults
    /\ pc[t] = "holding" /\ renewing[t]
    /\ since[t] >= RenewInterval
    /\ renewing' = [renewing EXCEPT ![t] = FALSE]
    /\ since' = [since EXCEPT ![t] = 0]
    /\ UNCHANGED <<slots, left, pc, waited>>

\* The finally block: stop the renewal task, ZREM the token.
Leave(t) ==
    /\ pc[t] = "holding"
    /\ slots' = slots \ {t}
    /\ pc' = [pc EXCEPT ![t] = "idle"]
    /\ renewing' = [renewing EXCEPT ![t] = FALSE]
    /\ since' = [since EXCEPT ![t] = 0]
    /\ UNCHANGED <<left, waited>>

\* The worker process dies, or the ZREM fails: the token stays behind.
Abandon(t) ==
    /\ pc[t] \in {"holding", "waiting"}
    /\ pc' = [pc EXCEPT ![t] = "idle"]
    /\ renewing' = [renewing EXCEPT ![t] = FALSE]
    /\ since' = [since EXCEPT ![t] = 0]
    /\ waited' = [waited EXCEPT ![t] = 0]
    /\ UNCHANGED <<slots, left>>

\* Time passes.  It does not pass over a renewal that is late by MaxLag.
Tick ==
    /\ \A t \in Tokens : renewing[t] => since[t] < RenewInterval + MaxLag
    /\ left' = [t \in Tokens |-> AtLeast(left[t] - 1, 0)]
    /\ since' = [t \in Tokens |-> IF renewing[t] THEN since[t] + 1 ELSE since[t]]
    /\ waited' = [t \in Tokens |->
                    IF pc[t] = "waiting" /\ waited[t] <= MaxWait
                    THEN waited[t] + 1 ELSE waited[t]]
    /\ UNCHANGED <<slots, pc, renewing>>

Attempt(t) == Acquire(t) \/ Reject(t) \/ PollAcquire(t) \/ PollFull(t)

Next ==
    \/ Tick
    \/ \E t \in Tokens :
        \/ Attempt(t)
        \/ StartWaiting(t)
        \/ Renew(t)
        \/ RenewError(t)
        \/ Leave(t)
        \/ Abandon(t)

Poll(t) == PollAcquire(t) \/ PollFull(t)

\* Time goes on and asyncio.sleep(poll_seconds) ends; nothing makes a body end.
Fairness == WF_vars(Tick) /\ \A t \in Tokens : WF_vars(Poll(t)) /\ WF_vars(Renew(t))

Spec == Init /\ [][Next]_vars

FairSpec == Spec /\ Fairness

-----------------------------------------------------------------------------
(* Properties.                                                             *)

\* The values the variables take.
TypeOK ==
    /\ slots \subseteq Tokens
    /\ left \in [Tokens -> 0 .. LeaseTTL]
    /\ pc \in [Tokens -> {"idle", "waiting", "holding"}]
    /\ renewing \in [Tokens -> BOOLEAN]
    /\ since \in [Tokens -> 0 .. RenewInterval + MaxLag]
    /\ waited \in [Tokens -> 0 .. MaxWait + 1]

\* The calls that are in their body.
Working == {t \in Tokens : pc[t] = "holding"}

\* The calls in their body whose renewal task is alive.
Renewed == {t \in Working : renewing[t]}

\* The sorted set of a pool never holds more tokens than its limit, whatever
\* crashes, failed removals and late renewals came before: the ZADD of
\* _renew_loop, which does not look at the count, never adds a member.
SlotsWithinLimit ==
    \A t \in Tokens : Cardinality(slots \cap Pool(t)) <= LimitOf(t)

\* At most LimitOf bodies whose renewal task is alive run in a pool: the lease
\* of such a body has not expired, so its slot was not given to another.
RenewedWithinLimit ==
    \A t \in Tokens : Cardinality(Renewed \cap Pool(t)) <= LimitOf(t)

\* The limit of a pool holds for its sorted set and for the bodies it admitted.
PoolsWithinLimit == SlotsWithinLimit /\ RenewedWithinLimit

\* memory_limit_per_run divides the memory by concurrent_engine_slots "so the
\* concurrency ceilings and the memory ceiling cannot disagree": never more
\* engines at work, in bodies that are renewed, than shares.  Both pools together
\* count, and each admits callers for itself.
EnginesWithinBudget == Cardinality(Renewed) <= EngineSlots

\* The slot of a call that ended without removing it.
Orphan(t) == t \in slots /\ pc[t] # "holding"

\* "a crashed process stops renewing and Redis expires the slot naturally": as
\* long as somebody keeps asking the pool for a slot, an orphan goes away.
OrphanReclaimed ==
    \A t \in Tokens :
        []<><<\E u \in Pool(t) : Attempt(u)>>_vars => []<>~Orphan(t)

\* A polling caller is never stuck: it gets its slot or its TimeoutError.
PollingEnds == \A t \in RunTokens : pc[t] = "waiting" ~> pc[t] # "waiting"

\* Places come back and those who wait for one learn how it ends.
SlotsComeBack == OrphanReclaimed /\ PollingEnds

\* Each pool promises what a LeasePool of its size promises.
RunPool == INSTANCE LeasePool
             WITH Callers <- HttpTokens \cup RunTokens,
                  Limit <- MaxRuns,
                  holders <- Renewed \ QueryTokens

QueryPool == INSTANCE LeasePool
               WITH Callers <- QueryTokens,
                    Limit <- AtLeast(1, MaxQueries),
                    holders <- Renewed \cap QueryTokens

\* The run pool and the query pool implement LeasePool, independently of each
\* other.
PoolsSpec == RunPool!Spec /\ QueryPool!Spec
=============================================================================
