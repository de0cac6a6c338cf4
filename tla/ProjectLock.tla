----------------------------- MODULE ProjectLock -----------------------------
(***************************************************************************)
(* core/file_lock.py: AsyncFileLock, the Redis lock of one resource of one *)
(* project ("dbt_run", "compile", "preview").  The key holds the uuid of   *)
(* the call that set it and expires by itself; a task of the call renews   *)
(* it while the body runs.                                                 *)
(*                                                                         *)
(* Time is the time LEFT to the key.  One unit is retry_delay; the model   *)
(* keeps the order of the constants (renewal before expiry), not seconds.  *)
(***************************************************************************)
EXTENDS Integers, FiniteSets

CONSTANTS
    Callers,         \* the calls of AsyncFileLock.lock, each with its token
    Nobody,          \* the key does not exist
    LockTTL,         \* settings.file_lock_ttl
    RenewInterval,   \* renew_interval: file_lock_ttl // 3, at most 20
    MaxLag,          \* how late the event loop may serve a renewal
    Timeout,         \* the caller's timeout, in retry_delays
    RedisFaults      \* may a renewal or a release fail?

ASSUME CallersAssumption == IsFiniteSet(Callers) /\ Nobody \notin Callers

ASSUME TimingAssumption ==
    /\ LockTTL \in Nat /\ RenewInterval \in Nat /\ MaxLag \in Nat
    /\ Timeout \in Nat \ {0}
    /\ 0 < RenewInterval
    /\ RenewInterval + MaxLag < LockTTL

ASSUME FaultsAssumption == RedisFaults \in BOOLEAN

VARIABLES
    key,        \* the token stored under file_lock:{project}:{resource}
    ttl,        \* time until the key expires
    pc,         \* where each call is
    waitTime,   \* wait_time of each call
    renewing,   \* is its renew_lock task alive?
    since,      \* time since its last renewal
    forced      \* history: calls whose key was deleted under their feet

vars == <<key, ttl, pc, waitTime, renewing, since, forced>>

-----------------------------------------------------------------------------
Init ==
    /\ key = Nobody
    /\ ttl = 0
    /\ pc = [c \in Callers |-> "idle"]
    /\ waitTime = [c \in Callers |-> 0]
    /\ renewing = [c \in Callers |-> FALSE]
    /\ since = [c \in Callers |-> 0]
    /\ forced = {}

\* lock() is entered with a token no key holds.
Call(c) ==
    /\ pc[c] = "idle" /\ key # c
    /\ pc' = [pc EXCEPT ![c] = "trying"]
    /\ waitTime' = [waitTime EXCEPT ![c] = 0]
    /\ UNCHANGED <<key, ttl, renewing, since, forced>>

\* Mutant: SET without NX.
TakeAnyway(c) == key' = c /\ ttl' = LockTTL

\* SET key token NX EX ttl.
SetNX(c) == key = Nobody /\ key' = c /\ ttl' = LockTTL

\* The attempt succeeds: the renewal task starts and the body runs.
Acquire(c) ==
    /\ pc[c] = "trying" /\ waitTime[c] < Timeout
    /\ SetNX(c)
    /\ pc' = [pc EXCEPT ![c] = "holding"]
    /\ renewing' = [renewing EXCEPT ![c] = TRUE]
    /\ since' = [since EXCEPT ![c] = 0]
    /\ UNCHANGED <<waitTime, forced>>

\* The attempt fails: sleep for retry_delay.
Retry(c) ==
    /\ pc[c] = "trying" /\ waitTime[c] < Timeout
    /\ key # Nobody
    /\ pc' = [pc EXCEPT ![c] = "sleeping"]
    /\ UNCHANGED <<key, ttl, waitTime, renewing, since, forced>>

\* The loop ended without the key: TimeoutError.
GiveUp(c) ==
    /\ pc[c] = "trying" /\ waitTime[c] >= Timeout
    /\ pc' = [pc EXCEPT ![c] = "idle"]
    /\ waitTime' = [waitTime EXCEPT ![c] = 0]
    /\ UNCHANGED <<key, ttl, renewing, since, forced>>

RenewalDue(c) == pc[c] = "holding" /\ renewing[c] /\ since[c] >= RenewInterval

\* Mutant: EXPIRE without comparing the token.
RenewAnybody(c) ==
    /\ RenewalDue(c)
    /\ key # Nobody
    /\ ttl' = LockTTL
    /\ since' = [since EXCEPT ![c] = 0]
    /\ UNCHANGED <<key, pc, waitTime, renewing, forced>>

\* renew_lock, key still ours: EXPIRE.
Renew(c) ==
    /\ RenewalDue(c)
    /\ key = c
    /\ ttl' = LockTTL
    /\ since' = [since EXCEPT ![c] = 0]
    /\ UNCHANGED <<key, pc, waitTime, renewing, forced>>

\* renew_lock returns, on a lost key or on a Redis error.  The body goes on.
StopRenewing(c) ==
    /\ RenewalDue(c)
    /\ key # c \/ RedisFaults
    /\ renewing' = [renewing EXCEPT ![c] = FALSE]
    /\ since' = [since EXCEPT ![c] = 0]
    /\ UNCHANGED <<key, ttl, pc, waitTime, forced>>

\* The call is over; the history forgets it with its token.
Over(c) ==
    /\ pc' = [pc EXCEPT ![c] = "idle"]
    /\ waitTime' = [waitTime EXCEPT ![c] = 0]
    /\ renewing' = [renewing EXCEPT ![c] = FALSE]
    /\ since' = [since EXCEPT ![c] = 0]
    /\ forced' = forced \ {c}

\* Mutant: DEL without comparing the token.
DeleteAny(c) == key' = Nobody /\ ttl' = 0

\* _RELEASE_SCRIPT: delete the key if it is still ours.
DeleteOwn(c) ==
    IF key = c THEN key' = Nobody /\ ttl' = 0 ELSE UNCHANGED <<key, ttl>>

\* The body ended, normally or not: cancel the renewal, release.
Release(c) == pc[c] = "holding" /\ DeleteOwn(c) /\ Over(c)

\* The process died, or the release failed and the error was logged.
Abandon(c) ==
    /\ pc[c] # "idle"
    /\ pc[c] = "holding" => key = c   \* otherwise as Release
    /\ Over(c)
    /\ UNCHANGED <<key, ttl>>

\* force_release by the cancel endpoints and by the handler of a cancelled run;
\* the deletion of every file_lock:* key when a worker starts.
ForceRelease ==
    /\ key # Nobody
    /\ key' = Nobody /\ ttl' = 0
    /\ forced' = forced \cup {c \in Callers : c = key /\ pc[c] = "holding"}
    /\ UNCHANGED <<pc, waitTime, renewing, since>>

\* A unit of time: the key ages and expires, sleepers wake for the next try.
\* Time does not pass over a renewal that is late by MaxLag.
Tick ==
    /\ \A c \in Callers : renewing[c] => since[c] < RenewInterval + MaxLag
    /\ ttl' = IF ttl > 0 THEN ttl - 1 ELSE 0
    /\ key' = IF ttl > 1 THEN key ELSE Nobody
    /\ since' = [c \in Callers |-> IF renewing[c] THEN since[c] + 1 ELSE since[c]]
    /\ pc' = [c \in Callers |-> IF pc[c] = "sleeping" THEN "trying" ELSE pc[c]]
    /\ waitTime' = [c \in Callers |->
                     IF pc[c] = "sleeping" THEN waitTime[c] + 1 ELSE waitTime[c]]
    /\ UNCHANGED <<renewing, forced>>

Try(c) == Acquire(c) \/ Retry(c) \/ GiveUp(c)

RenewStep(c) == Renew(c) \/ StopRenewing(c)

Next ==
    \/ Tick
    \/ ForceRelease
    \/ \E c \in Callers :
        Call(c) \/ Try(c) \/ RenewStep(c) \/ Release(c) \/ Abandon(c)

Spec == Init /\ [][Next]_vars

\* The event loop runs the coroutines that are ready and time passes; nothing
\* makes a body end.
Fairness ==
    /\ WF_vars(Tick)
    /\ \A c \in Callers : WF_vars(Try(c)) /\ WF_vars(RenewStep(c))

FairSpec == Spec /\ Fairness

-----------------------------------------------------------------------------
(* Properties.                                                             *)

\* The values the variables take.
TypeOK ==
    /\ key \in Callers \cup {Nobody}
    /\ ttl \in 0 .. LockTTL
    /\ pc \in [Callers -> {"idle", "trying", "sleeping", "holding"}]
    /\ waitTime \in [Callers -> 0 .. Timeout]
    /\ renewing \in [Callers -> BOOLEAN]
    /\ since \in [Callers -> 0 .. RenewInterval + MaxLag]
    /\ forced \subseteq Callers

Holding == {c \in Callers : pc[c] = "holding"}

\* A body whose lock is in order: renewed, and not deleted by force.
Sound(c) == c \in Holding /\ renewing[c] /\ c \notin forced

\* Two bodies with their lock in order never overlap, whatever happened to
\* other calls before: a former holder's late release or renewal, a crash, a
\* forced deletion, an expiry.
SoundHoldersExclude ==
    \A c, d \in Callers : Sound(c) /\ Sound(d) => c = d

\* As long as a body renews its key the key stays its own, unless somebody
\* deletes it by force: nothing another call does takes it away.
KeyOnlyLostByForce ==
    [][\A c \in Callers :
         Sound(c) /\ key' # c => pc'[c] = "idle" \/ c \in forced']_vars

\* The key of a call that is gone disappears, even while former holders of the
\* same lock are still in their bodies.
AbandonedKeyExpires ==
    \A c \in Callers : (key = c /\ pc[c] # "holding") ~> key # c

\* lock() ends: with the lock, or with TimeoutError.
WaitingEnds ==
    \A c \in Callers : pc[c] \in {"trying", "sleeping"} ~> pc[c] \in {"idle", "holding"}

\* The key of a crashed call frees itself, and no call of lock() waits for ever.
LockComesFree == AbandonedKeyExpires /\ WaitingEnds

\* The lock promises what a LeasePool with one place promises.
Promise == INSTANCE LeasePool
             WITH Limit <- 1, holders <- {c \in Callers : Sound(c)}

PromiseSpec == Promise!Spec
=============================================================================
