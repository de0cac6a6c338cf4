-------------------------- MODULE WarmWorkersProofs --------------------------
(***************************************************************************)
(* Proofs about WarmWorkers, for any finite set of jobs and projects, any  *)
(* capacity, with or without releases and failing starts.                  *)
(***************************************************************************)
EXTENDS WarmWorkers, FiniteSetTheorems, TLAPS

Entered == {j \in Jobs : pool[j] # 0}

Holders == {j \in Jobs : at[j] \notin {"idle", "permit"} \cup Over}

\* A call knows its pool from the end of its sweep on, and makes one at most.
PoolKnown ==
    /\ \A j \in Jobs : /\ at[j] \in {"idle", "permit", "sweep"} => pool[j] = 0
                       /\ at[j] \in {"start", "queued", "executing", "restart"}
                             => pool[j] # 0
    /\ made <= Cardinality(Entered)

\* The worker of a pool is not in its queue while a call has it.
WorkerOut ==
    \A j \in Jobs : at[j] \in {"executing", "restart"} => ~avail[pool[j]]

\* The inductive invariant.
IInv == PoolsExact /\ PoolKnown /\ WorkerOut

-----------------------------------------------------------------------------
(* Counting.                                                               *)

\* Sets of jobs have sizes, which change by one when a job comes or goes.
LEMMA Sizes ==
    /\ \A S \in SUBSET Jobs : Cardinality(S) \in Nat /\ Cardinality(S) <= Cardinality(Jobs)
    /\ \A S \in SUBSET Jobs : S = {} <=> Cardinality(S) = 0
    /\ \A S \in SUBSET Jobs, j \in Jobs :
          j \notin S => Cardinality(S \cup {j}) = Cardinality(S) + 1
    /\ \A S \in SUBSET Jobs, j \in Jobs :
          j \in S => Cardinality(S \ {j}) = Cardinality(S) - 1
<1>1. \A S \in SUBSET Jobs : IsFiniteSet(S) /\ Cardinality(S) \in Nat
                             /\ Cardinality(S) <= Cardinality(Jobs)
  BY ConstantsAssumption, FS_Subset, FS_CardinalityType
<1>2. \A S \in SUBSET Jobs : S = {} <=> Cardinality(S) = 0
  BY <1>1, FS_EmptySet
<1>3. ASSUME NEW S \in SUBSET Jobs, NEW j \in Jobs, j \notin S
      PROVE Cardinality(S \cup {j}) = Cardinality(S) + 1
  BY <1>1, <1>3, FS_AddElement
<1>4. ASSUME NEW S \in SUBSET Jobs, NEW j \in Jobs, j \in S
      PROVE Cardinality(S \ {j}) = Cardinality(S) - 1
  BY <1>1, <1>4, FS_RemoveElement
<1>5. QED
  BY <1>1, <1>2, <1>3, <1>4

\* The number of jobs is a number, and pools have positive numbers.
LEMMA Numbers == Cardinality(Jobs) \in Nat /\ PoolIds \subseteq Nat \ {0}
<1>1. Cardinality(Jobs) \in Nat
  BY Sizes
<1>2. QED
  BY <1>1 DEF PoolIds

\* The counters of the pools have their type.
InUseTyped == inUse \in [PoolIds -> 0 .. Cardinality(Jobs)]

\* A call begins to use pool p, and is counted there.
LEMMA UserJoins ==
    ASSUME InUseTyped, InUseExact, NEW j \in Jobs, NEW p \in PoolIds,
           j \notin Users(p), Users(p)' = Users(p) \cup {j},
           \A r \in PoolIds \ {p} : Users(r)' = Users(r),
           inUse' = [inUse EXCEPT ![p] = @ + 1]
    PROVE  InUseTyped' /\ InUseExact'
<1>1. \A r \in PoolIds : Users(r) \in SUBSET Jobs /\ Users(r)' \in SUBSET Jobs
  BY DEF Users
<1>2. Cardinality(Users(p)') = Cardinality(Users(p)) + 1
  BY <1>1, Sizes
<1>3. \A r \in PoolIds : inUse'[r] = Cardinality(Users(r)')
  BY <1>2 DEF InUseExact, InUseTyped
<1>4. \A r \in PoolIds : inUse'[r] \in 0 .. Cardinality(Jobs)
  BY <1>1, <1>3, Sizes
<1>5. QED
  BY <1>3, <1>4 DEF InUseExact, InUseTyped

\* A call that used pool p leaves it, and is counted off.
LEMMA UserLeaves ==
    ASSUME InUseTyped, InUseExact, NEW j \in Jobs, NEW p \in PoolIds,
           j \in Users(p), Users(p)' = Users(p) \ {j},
           \A r \in PoolIds \ {p} : Users(r)' = Users(r),
           inUse' = [inUse EXCEPT ![p] = @ + (-1)]
    PROVE  InUseTyped' /\ InUseExact'
<1>1. \A r \in PoolIds : Users(r) \in SUBSET Jobs /\ Users(r)' \in SUBSET Jobs
  BY DEF Users
<1>2. Cardinality(Users(p)') = Cardinality(Users(p)) - 1
  BY <1>1, Sizes
<1>3. \A r \in PoolIds : inUse'[r] = Cardinality(Users(r)')
  BY <1>2 DEF InUseExact, InUseTyped
<1>4. \A r \in PoolIds : inUse'[r] \in 0 .. Cardinality(Jobs)
  BY <1>1, <1>3, Sizes
<1>5. QED
  BY <1>3, <1>4 DEF InUseExact, InUseTyped

\* Nobody begins or ends using a pool.
LEMMA UsersStay ==
    ASSUME InUseTyped, InUseExact, inUse' = inUse,
           \A r \in PoolIds : Users(r)' = Users(r)
    PROVE  InUseTyped' /\ InUseExact'
BY DEF InUseTyped, InUseExact

PermitsTyped == permits \in 0 .. Capacity

\* Permits are taken, given back or kept with the set of their holders.
LEMMA PermitTaken ==
    ASSUME PermitsTyped, PermitsExact, NEW j \in Jobs, permits > 0, permits' = permits - 1,
           j \notin Holders, Holders' = Holders \cup {j}
    PROVE  PermitsTyped' /\ PermitsExact'
<1>1. Holders \in SUBSET Jobs
  BY DEF Holders
<1>2. Cardinality(Holders') = Cardinality(Holders) + 1 /\ Cardinality(Holders) \in Nat
  BY <1>1, Sizes
<1>3. permits + Cardinality(Holders) = Capacity
  BY DEF PermitsExact, Holders
<1>4. permits' + Cardinality(Holders') = Capacity
  BY <1>2, <1>3, ConstantsAssumption DEF PermitsTyped
<1>5. PermitsExact'
  BY <1>4 DEF PermitsExact, Holders
<1>6. QED
  BY <1>5, ConstantsAssumption DEF PermitsTyped

\* The permit of a call that returns.
LEMMA PermitReturned ==
    ASSUME PermitsTyped, PermitsExact, NEW j \in Jobs, permits' = permits + 1,
           j \in Holders, Holders' = Holders \ {j}
    PROVE  PermitsTyped' /\ PermitsExact'
<1>1. Holders \in SUBSET Jobs
  BY DEF Holders
<1>2. /\ Cardinality(Holders') = Cardinality(Holders) - 1
      /\ Cardinality(Holders) \in Nat /\ Cardinality(Holders') \in Nat
  BY <1>1, Sizes
<1>3. permits + Cardinality(Holders) = Capacity
  BY DEF PermitsExact, Holders
<1>4. permits' + Cardinality(Holders') = Capacity
  BY <1>2, <1>3, ConstantsAssumption DEF PermitsTyped
<1>5. PermitsExact'
  BY <1>4 DEF PermitsExact, Holders
<1>6. QED
  BY <1>2, <1>4, <1>5, ConstantsAssumption DEF PermitsTyped

\* Nobody takes or returns a permit.
LEMMA PermitsStay ==
    ASSUME PermitsTyped, PermitsExact, permits' = permits, Holders' = Holders
    PROVE  PermitsTyped' /\ PermitsExact'
BY DEF PermitsTyped, PermitsExact, Holders

-----------------------------------------------------------------------------
(* The inductive invariant.                                                *)

\* The variables that count nothing.
Typed ==
    /\ at \in [Jobs -> {"idle", "permit", "sweep", "start", "queued", "executing",
                        "restart"} \cup Over]
    /\ pool \in [Jobs -> PoolIds \cup {0}]
    /\ current \in [Projects -> PoolIds \cup {0}]
    /\ made \in PoolIds \cup {0}
    /\ started \in [PoolIds -> BOOLEAN]
    /\ avail \in [PoolIds -> BOOLEAN]
    /\ alive \in [PoolIds -> BOOLEAN]
    /\ ran \subseteq Jobs

\* What the invariant says about the counters, and what it says of the rest.
Counted == InUseTyped /\ InUseExact /\ PermitsTyped /\ PermitsExact
Placed == Typed /\ WorkerServesOne /\ PoolKnown /\ WorkerOut

\* The invariant in two parts.
LEMMA Parts == IInv <=> Counted /\ Placed
BY DEF IInv, PoolsExact, TypeOK, Typed, Counted, Placed, InUseTyped, PermitsTyped

\* The same after a step.
LEMMA PartsNext == ASSUME Counted', Placed' PROVE IInv'
BY DEF IInv, PoolsExact, TypeOK, Typed, Counted, Placed, InUseTyped, PermitsTyped

\* The number of pools made is a number, which the calls that entered bound.
LEMMA MadeBounded == ASSUME Placed PROVE made \in Nat /\ made <= Cardinality(Entered)
<1>1. made \in Nat
  <2>1. made \in PoolIds \cup {0}
    BY DEF Placed, Typed
  <2>2. QED
    BY <2>1, Numbers
<1>2. QED
  BY <1>1 DEF Placed, PoolKnown

\* Init establishes the invariant.
LEMMA InitIInv == Init => IInv
<1> SUFFICES ASSUME Init PROVE IInv
  OBVIOUS
<1>1. Typed /\ WorkerServesOne /\ WorkerOut
  BY DEF Init, Typed, WorkerServesOne, WorkerOut
<1>2. PoolKnown
  <2>1. made = 0 /\ Cardinality(Entered) \in Nat
    BY Sizes DEF Init, Entered
  <2>2. QED
    BY <2>1 DEF Init, PoolKnown
<1>3. InUseTyped /\ InUseExact
  <2>1. \A p \in PoolIds : Users(p) = {}
    BY DEF Init, Users
  <2>2. QED
    BY <2>1, FS_EmptySet, Numbers DEF Init, InUseTyped, InUseExact
<1>4. PermitsTyped /\ PermitsExact
  <2>1. Holders = {}
    BY DEF Init, Holders
  <2>2. permits + Cardinality(Holders) = Capacity
    BY <2>1, FS_EmptySet, ConstantsAssumption DEF Init
  <2>3. PermitsExact
    BY <2>2 DEF PermitsExact, Holders
  <2>4. QED
    BY <2>3, ConstantsAssumption DEF Init, PermitsTyped
<1>5. QED
  BY <1>1, <1>2, <1>3, <1>4, Parts DEF Counted, Placed

\* Steps of a call before it has a pool, and steps of the map of pools.
LEMMA MapSteps ==
    ASSUME IInv, NEW j \in Jobs, NEW q \in Projects,
           \/ Call(j) \/ Permit(j) \/ PermitTimeout(j) \/ Reclaim(j, q) \/ Release(q)
    PROVE  IInv'
<1> USE Parts, PartsNext
<1>1. Placed'
  <2>1. current[q] # 0 => current[q] \in PoolIds
    BY DEF Placed, Typed
  <2>2. Typed'
    BY <2>1 DEF Placed, Typed, Call, Permit, PermitTimeout, Reclaim, Release, TakeOut,
                Goto, calls, pools, Over
  <2>3. Entered' = Entered /\ made' = made
    BY DEF Call, Permit, PermitTimeout, Reclaim, Release, Entered, calls, pools
  <2>4. WorkerServesOne' /\ PoolKnown' /\ WorkerOut'
    BY <2>3 DEF Placed, Typed, WorkerServesOne, PoolKnown, WorkerOut, Call, Permit,
                PermitTimeout, Reclaim, Release, Goto, calls, pools, Over
  <2>5. QED
    BY <2>2, <2>4 DEF Placed
<1>2. InUseTyped' /\ InUseExact'
  <2>1. inUse' = inUse
    BY DEF Call, Permit, PermitTimeout, Reclaim, Release, pools
  <2>2. \A r \in PoolIds : Users(r)' = Users(r)
    BY DEF Call, Permit, PermitTimeout, Reclaim, Release, Goto, calls, pools, Users,
           Placed, Typed
  <2>3. QED
    BY <2>1, <2>2, UsersStay DEF Counted
<1>3. PermitsTyped' /\ PermitsExact'
  <2>1. CASE Permit(j)
    <3>1. j \notin Holders /\ Holders' = Holders \cup {j}
      BY <2>1 DEF Permit, Goto, Holders, Placed, Typed, Over
    <3>2. QED
      BY <2>1, <3>1, PermitTaken DEF Permit, Counted
  <2>2. CASE ~Permit(j)
    <3>1. permits' = permits /\ Holders' = Holders
      BY <2>2 DEF Call, PermitTimeout, Reclaim, Release, Goto, calls, Holders, Placed,
                  Typed, Over
    <3>2. QED
      BY <3>1, PermitsStay DEF Counted
  <2>3. QED
    BY <2>1, <2>2
<1>4. QED
  BY <1>1, <1>2, <1>3 DEF Counted

\* The step of a call that takes its permit and its place along: it goes from
\* one point between the permit and the return to another.
LEMMA StillHolding ==
    ASSUME Counted, Placed, NEW j \in Jobs, NEW l, Goto(j, l), permits' = permits,
           at[j] \notin {"idle", "permit"} \cup Over, l \notin {"idle", "permit"} \cup Over
    PROVE  PermitsTyped' /\ PermitsExact'
<1>1. Holders' = Holders
  BY DEF Goto, Holders, Placed, Typed
<1>2. QED
  BY <1>1, PermitsStay DEF Counted

\* The step of a call that returns.
LEMMA Returns ==
    ASSUME Counted, Placed, NEW j \in Jobs, NEW l \in Over, Return(j, l),
           at[j] \notin {"idle", "permit"} \cup Over
    PROVE  PermitsTyped' /\ PermitsExact'
<1>1. j \in Holders /\ Holders' = Holders \ {j}
  BY DEF Return, Goto, Holders, Placed, Typed
<1>2. QED
  BY <1>1, PermitReturned DEF Counted, Return

\* The calls that find the pool of their project started.
LEMMA EnterStartedStep == ASSUME IInv, NEW j \in Jobs, EnterStarted(j) PROVE IInv'
<1> USE Parts, PartsNext
<1>a. Project[j] \in Projects /\ at[j] = "sweep" /\ pool[j] = 0
  BY ConstantsAssumption DEF EnterStarted, SweepOver, Placed, PoolKnown
<1>b. PICK p \in PoolIds : p = current[Project[j]]
  BY <1>a DEF EnterStarted, Placed, Typed
<1>0. /\ at[j] = "sweep" /\ pool[j] = 0
      /\ pool' = [pool EXCEPT ![j] = p] /\ inUse' = [inUse EXCEPT ![p] = @ + 1]
  BY <1>a, <1>b DEF EnterStarted
<1>1. Typed' /\ WorkerServesOne' /\ WorkerOut'
  BY <1>0 DEF EnterStarted, Goto, Placed, Typed, WorkerServesOne, WorkerOut
<1>2. PoolKnown'
  <2>1. Entered' = Entered \cup {j} /\ j \notin Entered /\ Entered \in SUBSET Jobs
    BY <1>0, Numbers DEF EnterStarted, Entered, Placed, Typed
  <2>2. Cardinality(Entered') = Cardinality(Entered) + 1 /\ Cardinality(Entered) \in Nat
    BY <2>1, Sizes
  <2>3. made' <= Cardinality(Entered')
    <3>1. made \in Nat /\ made' = made /\ made <= Cardinality(Entered)
      BY MadeBounded DEF EnterStarted
    <3>2. QED
      BY <2>2, <3>1
  <2>4. QED
    BY <1>0, <2>3, Numbers DEF EnterStarted, Goto, Placed, Typed, PoolKnown
<1>3. InUseTyped' /\ InUseExact'
  <2>1. j \notin Users(p) /\ Users(p)' = Users(p) \cup {j}
    BY <1>0 DEF EnterStarted, Goto, Users, Placed, Typed
  <2>2. \A r \in PoolIds \ {p} : Users(r)' = Users(r)
    BY <1>0 DEF EnterStarted, Goto, Users, Placed, Typed
  <2>3. QED
    BY <1>0, <2>1, <2>2, UserJoins DEF Counted
<1>4. PermitsTyped' /\ PermitsExact'
  BY <1>0, StillHolding DEF EnterStarted, Over
<1>5. QED
  BY <1>1, <1>2, <1>3, <1>4 DEF Counted, Placed

\* The calls that make the pool of their project, or find it without worker.
LEMMA EnterUnstartedStep == ASSUME IInv, NEW j \in Jobs, EnterUnstarted(j) PROVE IInv'
<1> USE Parts, PartsNext
<1>0. Project[j] \in Projects /\ at[j] = "sweep" /\ pool[j] = 0
  BY ConstantsAssumption DEF EnterUnstarted, SweepOver, Placed, Typed, PoolKnown
<1>1. /\ Entered \cup {j} \in SUBSET Jobs /\ j \notin Entered
      /\ Cardinality(Entered \cup {j}) = Cardinality(Entered) + 1
      /\ Cardinality(Entered) \in Nat
      /\ Cardinality(Entered) + 1 <= Cardinality(Jobs)
  <2>1. Entered \cup {j} \in SUBSET Jobs /\ j \notin Entered /\ Entered \in SUBSET Jobs
    BY <1>0 DEF Entered
  <2>2. QED
    BY <2>1, Sizes
<1>2. made + 1 \in PoolIds
  BY <1>1, Numbers DEF Placed, Typed, PoolKnown, PoolIds
<1>3. /\ made' \in PoolIds \cup {0} /\ made' \in {made, made + 1}
      /\ current' \in [Projects -> PoolIds \cup {0}]
      /\ current'[Project[j]] \in PoolIds
  <2>1. CASE current[Project[j]] = 0
    BY <1>0, <1>2, <2>1 DEF EnterUnstarted, Placed, Typed
  <2>2. CASE current[Project[j]] # 0
    BY <1>0, <2>2 DEF EnterUnstarted, Placed, Typed
  <2>3. QED
    BY <2>1, <2>2
<1>4. Typed' /\ WorkerServesOne' /\ WorkerOut'
  BY <1>0, <1>3 DEF EnterUnstarted, Goto, Placed, Typed, WorkerServesOne, WorkerOut
<1>5. PoolKnown'
  <2>1. Entered' = Entered \cup {j}
    BY <1>0, <1>3, Numbers DEF EnterUnstarted, Entered, Placed, Typed
  <2>2. made' <= Cardinality(Entered')
    <3>1. made \in Nat /\ made <= Cardinality(Entered)
      BY MadeBounded
    <3>2. QED
      BY <1>1, <1>3, <2>1, <3>1
  <2>3. QED
    BY <1>0, <1>3, <2>2, Numbers DEF EnterUnstarted, Goto, Placed, Typed, PoolKnown
<1>6. InUseTyped' /\ InUseExact'
  <2>1. \A r \in PoolIds : Users(r)' = Users(r)
    BY <1>0 DEF EnterUnstarted, Goto, Users, Placed, Typed
  <2>2. QED
    BY <2>1, UsersStay DEF Counted, EnterUnstarted
<1>7. PermitsTyped' /\ PermitsExact'
  BY <1>0, StillHolding DEF EnterUnstarted, Over
<1>8. QED
  BY <1>4, <1>5, <1>6, <1>7 DEF Counted, Placed

\* The pool of a call that has one is a pool, and its users include the call
\* when it is counted.
LEMMA OwnPool ==
    ASSUME Placed, NEW j \in Jobs, at[j] \in {"start", "queued", "executing", "restart"}
    PROVE  /\ pool[j] \in PoolIds
           /\ at[j] # "start" => j \in Users(pool[j])
           /\ at[j] = "start" => j \notin Users(pool[j])
BY DEF Placed, Typed, PoolKnown, Users

\* A call begins to wait for the worker of its pool.
LEMMA JoinSteps ==
    ASSUME IInv, NEW j \in Jobs, StartPool(j) \/ JoinStarted(j) PROVE IInv'
<1> USE Parts, PartsNext
<1>0. at[j] = "start" /\ pool[j] \in PoolIds /\ j \notin Users(pool[j])
  BY OwnPool DEF StartPool, JoinStarted
<1>1. Typed' /\ WorkerServesOne'
  BY <1>0 DEF StartPool, JoinStarted, Goto, Placed, Typed, WorkerServesOne
<1>2. WorkerOut'
  <2>1. CASE StartPool(j)
    <3>1. inUse[pool[j]] = 0
      BY <1>0, <2>1 DEF StartPool, Born, Counted, InUseTyped
    <3>2. Users(pool[j]) = {}
      <4>1. Users(pool[j]) \in SUBSET Jobs
        BY DEF Users
      <4>2. Cardinality(Users(pool[j])) = 0
        BY <1>0, <3>1 DEF Counted, InUseExact
      <4>3. QED
        BY <4>1, <4>2, Sizes
    <3>3. QED
      BY <1>0, <2>1, <3>2
         DEF StartPool, Goto, Placed, Typed, WorkerOut, Users, PoolKnown
  <2>2. CASE JoinStarted(j)
    BY <1>0, <2>2 DEF JoinStarted, Goto, Placed, Typed, WorkerOut
  <2>3. QED
    BY <2>1, <2>2
<1>3. PoolKnown'
  <2>1. Entered' = Entered /\ made' = made
    BY DEF StartPool, JoinStarted, Entered
  <2>2. QED
    BY <1>0, <2>1, Numbers DEF StartPool, JoinStarted, Goto, Placed, Typed, PoolKnown
<1>4. InUseTyped' /\ InUseExact'
  <2>1. Users(pool[j])' = Users(pool[j]) \cup {j}
    BY <1>0 DEF StartPool, JoinStarted, Goto, Users, Placed, Typed
  <2>2. \A r \in PoolIds \ {pool[j]} : Users(r)' = Users(r)
    BY <1>0 DEF StartPool, JoinStarted, Goto, Users, Placed, Typed
  <2>3. inUse' = [inUse EXCEPT ![pool[j]] = @ + 1]
    BY DEF StartPool, JoinStarted, Count
  <2>4. pool' = pool
    BY DEF StartPool, JoinStarted
  <2>5. PICK p \in PoolIds : p = pool[j]
    BY <1>0
  <2>6. Users(p)' = Users(p) \cup {j}
    BY <1>0, <2>4, <2>5 DEF StartPool, JoinStarted, Goto, Users, Placed, Typed
  <2>7. QED
    BY <1>0, <2>2, <2>3, <2>5, <2>6, UserJoins DEF Counted
<1>5. PermitsTyped' /\ PermitsExact'
  BY <1>0, StillHolding DEF StartPool, JoinStarted, Over
<1>6. QED
  BY <1>1, <1>2, <1>3, <1>4, <1>5 DEF Counted, Placed

\* The worker of the pool could not be started, for a call that is not counted.
LEMMA StartFailsStep == ASSUME IInv, NEW j \in Jobs, StartFails(j) PROVE IInv'
<1> USE Parts, PartsNext
<1>0. at[j] = "start"
  BY DEF StartFails
<1>1. Typed' /\ WorkerServesOne' /\ WorkerOut'
  BY <1>0 DEF StartFails, Return, Goto, pools, Placed, Typed, WorkerServesOne, WorkerOut,
              Over
<1>2. PoolKnown'
  <2>1. Entered' = Entered /\ made' = made
    BY DEF StartFails, Entered, pools
  <2>2. QED
    BY <1>0, <2>1 DEF StartFails, Return, Goto, pools, Placed, Typed, PoolKnown
<1>3. InUseTyped' /\ InUseExact'
  <2>1. \A r \in PoolIds : Users(r)' = Users(r)
    BY <1>0 DEF StartFails, Return, Goto, Users, Placed, Typed
  <2>2. QED
    BY <2>1, UsersStay DEF Counted, StartFails, pools
<1>4. PermitsTyped' /\ PermitsExact'
  BY <1>0, Returns DEF StartFails, Over
<1>5. QED
  BY <1>1, <1>2, <1>3, <1>4 DEF Counted, Placed

\* A call gets the worker, or loses its process and restarts it.
LEMMA WorkSteps ==
    ASSUME IInv, NEW j \in Jobs, TakeWorker(j) \/ JobEndsRecycling(j) \/ JobFails(j)
    PROVE  IInv'
<1> USE Parts, PartsNext
<1>0. at[j] \in {"queued", "executing"} /\ pool[j] \in PoolIds /\ pool' = pool
  BY OwnPool DEF TakeWorker, JobEndsRecycling, JobFails
<1>1. Typed'
  BY <1>0 DEF TakeWorker, JobEndsRecycling, JobFails, Goto, Placed, Typed
<1>2. WorkerServesOne' /\ WorkerOut'
  <2>1. CASE TakeWorker(j)
    BY <1>0, <2>1 DEF TakeWorker, Goto, Placed, Typed, WorkerServesOne, WorkerOut
  <2>2. CASE JobEndsRecycling(j) \/ JobFails(j)
    BY <1>0, <2>2 DEF JobEndsRecycling, JobFails, Goto, Placed, Typed, WorkerServesOne,
                      WorkerOut
  <2>3. QED
    BY <2>1, <2>2
<1>3. PoolKnown'
  <2>1. Entered' = Entered /\ made' = made
    BY DEF TakeWorker, JobEndsRecycling, JobFails, Entered
  <2>2. QED
    BY <1>0, <2>1, Numbers DEF TakeWorker, JobEndsRecycling, JobFails, Goto, Placed, Typed,
                      PoolKnown
<1>4. InUseTyped' /\ InUseExact'
  <2>1. \A r \in PoolIds : Users(r)' = Users(r)
    BY <1>0 DEF TakeWorker, JobEndsRecycling, JobFails, Goto, Users, Placed, Typed
  <2>2. QED
    BY <2>1, UsersStay DEF Counted, TakeWorker, JobEndsRecycling, JobFails
<1>5. PermitsTyped' /\ PermitsExact'
  BY <1>0, StillHolding DEF TakeWorker, JobEndsRecycling, JobFails, Over
<1>6. QED
  BY <1>1, <1>2, <1>3, <1>4, <1>5 DEF Counted, Placed

\* The four ways out of a call that is counted.
LEMMA LeaveSteps ==
    ASSUME IInv, NEW j \in Jobs,
           QueueTimeout(j) \/ JobEnds(j) \/ Restarted(j) \/ RestartFails(j)
    PROVE  IInv'
<1> USE Parts, PartsNext
<1>0. /\ at[j] \in {"queued", "executing", "restart"} /\ pool[j] \in PoolIds
      /\ j \in Users(pool[j]) /\ pool' = pool
  BY OwnPool DEF QueueTimeout, JobEnds, Restarted, RestartFails
<1>1. PICK o \in Over : Return(j, o)
  BY DEF QueueTimeout, JobEnds, Restarted, RestartFails, Over
<1>2. Typed'
  <2>1. at' = [at EXCEPT ![j] = o]
    BY <1>1 DEF Return, Goto
  <2>2. CASE QueueTimeout(j) \/ RestartFails(j)
    BY <2>1, <2>2 DEF QueueTimeout, RestartFails, Placed, Typed
  <2>3. CASE JobEnds(j) \/ Restarted(j)
    BY <1>0, <2>1, <2>3 DEF JobEnds, Restarted, Placed, Typed
  <2>4. QED
    BY <2>2, <2>3
<1>3. WorkerServesOne'
  BY <1>0, <1>1 DEF Return, Goto, Placed, Typed, WorkerServesOne, Over
<1>4. WorkerOut'
  <2>1. CASE QueueTimeout(j) \/ RestartFails(j)
    BY <1>0, <1>1, <2>1 DEF QueueTimeout, RestartFails, Return, Goto, Placed, Typed,
                            WorkerOut, Over
  <2>2. CASE JobEnds(j) \/ Restarted(j)
    <3>1. at[j] \in {"executing", "restart"} /\ avail' = [avail EXCEPT ![pool[j]] = TRUE]
      BY <2>2 DEF JobEnds, Restarted
    <3>2. ASSUME NEW i \in Jobs, at'[i] \in {"executing", "restart"}
          PROVE  ~avail'[pool'[i]]
      <4>1. i # j /\ at[i] = at'[i]
        BY <1>1, <3>2 DEF Return, Goto, Placed, Typed, Over
      <4>2. pool[i] # pool[j]
        BY <3>1, <3>2, <4>1 DEF Placed, WorkerServesOne
      <4>3. pool[i] \in PoolIds /\ ~avail[pool[i]]
        BY <3>2, <4>1, OwnPool DEF Placed, WorkerOut
      <4>4. QED
        BY <1>0, <3>1, <4>2, <4>3 DEF Placed, Typed
    <3>3. QED
      BY <3>2 DEF WorkerOut
  <2>3. QED
    BY <2>1, <2>2
<1>5. PoolKnown'
  <2>1. Entered' = Entered /\ made' = made
    BY DEF QueueTimeout, JobEnds, Restarted, RestartFails, Entered
  <2>2. QED
    BY <1>0, <1>1, <2>1 DEF Return, Goto, Placed, Typed, PoolKnown, Over
<1>6. InUseTyped' /\ InUseExact'
  <2>1. PICK p \in PoolIds : p = pool[j]
    BY <1>0
  <2>2. Users(p)' = Users(p) \ {j} /\ \A r \in PoolIds \ {p} : Users(r)' = Users(r)
    BY <1>0, <1>1, <2>1 DEF Return, Goto, Users, Placed, Typed, Over
  <2>3. inUse' = [inUse EXCEPT ![p] = @ + (-1)]
    BY <2>1 DEF QueueTimeout, JobEnds, Restarted, RestartFails, Count
  <2>4. QED
    BY <1>0, <2>1, <2>2, <2>3, UserLeaves DEF Counted
<1>7. PermitsTyped' /\ PermitsExact'
  BY <1>0, <1>1, Returns DEF Over
<1>8. QED
  BY <1>2, <1>3, <1>4, <1>5, <1>6, <1>7 DEF Counted, Placed

\* Every step keeps the invariant.
LEMMA StepIInv == IInv /\ [Next]_vars => IInv'
<1> SUFFICES ASSUME IInv, [Next]_vars PROVE IInv'
  OBVIOUS
<1>1. CASE UNCHANGED vars
  BY <1>1 DEF vars, IInv, PoolsExact, TypeOK, InUseExact, Users, PermitsExact,
              WorkerServesOne, PoolKnown, Entered, WorkerOut
<1>2. ASSUME NEW j \in Jobs, Call(j) \/ RunStep(j) PROVE IInv'
  <2>1. CASE \E q \in Projects : Reclaim(j, q)
    BY <2>1, MapSteps
  <2>2. CASE Call(j) \/ Permit(j) \/ PermitTimeout(j)
    <3>1. Project[j] \in Projects
      BY ConstantsAssumption
    <3>2. QED
      BY <2>2, <3>1, MapSteps
  <2>3. QED
    BY <1>2, <2>1, <2>2, EnterStartedStep, EnterUnstartedStep, JoinSteps, StartFailsStep,
       WorkSteps, LeaveSteps DEF RunStep
<1>3. ASSUME NEW q \in Projects, Release(q) PROVE IInv'
  <2>1. CASE Jobs = {}
    BY <1>3, <2>1, Sizes, Numbers DEF IInv, PoolsExact, TypeOK, InUseExact, Users,
       PermitsExact, WorkerServesOne, PoolKnown, Entered, WorkerOut, Release, Mapped, PoolIds
  <2>2. CASE Jobs # {}
    BY <1>3, <2>2, MapSteps
  <2>3. QED
    BY <2>1, <2>2
<1>4. QED
  BY <1>1, <1>2, <1>3 DEF Next, Quiet

\* The invariant holds in every reachable state.
THEOREM Invariance == Spec => []IInv
BY InitIInv, StepIInv, PTL DEF Spec

\* For any number of calls and projects, on every way out of a call: in_use of a
\* pool is the number of calls in it, every permit comes back, and a worker
\* serves one job at a time.
THEOREM BooksBalance == Spec => []PoolsExact
<1>1. IInv => PoolsExact
  BY DEF IInv
<1>2. QED
  BY <1>1, Invariance, PTL

\* A sweep kills the process of no job: a pool that it takes out counts no call,
\* so by the invariant no call executes there.
THEOREM SweepsSpare == Spec => SweepSparesJobs
<1> DEFINE Spared == \A i, j \in Jobs, q \in Projects :
                        Reclaim(i, q) /\ Executes(j) => alive'[pool[j]]
<1>1. IInv => Spared
  <2> SUFFICES ASSUME IInv, NEW i \in Jobs, NEW j \in Jobs, NEW q \in Projects,
                      Reclaim(i, q), Executes(j)
               PROVE  alive'[pool[j]]
    OBVIOUS
  <2>1. current[q] \in PoolIds /\ inUse[current[q]] = 0
    BY Parts DEF Reclaim, Candidates, Mapped, Placed, Typed
  <2>2. Users(current[q]) = {}
    <3>1. Users(current[q]) \in SUBSET Jobs
      BY DEF Users
    <3>2. Cardinality(Users(current[q])) = 0
      BY <2>1 DEF IInv, PoolsExact, InUseExact
    <3>3. QED
      BY <3>1, <3>2, Sizes
  <2>3. pool[j] # current[q]
    BY <2>2 DEF Users, Executes
  <2>4. pool[j] \in PoolIds /\ alive[pool[j]]
    BY Parts, OwnPool DEF Executes
  <2>5. QED
    BY <2>1, <2>3, <2>4, Parts DEF Reclaim, TakeOut, Placed, Typed
<1>2. Spec => [][Spared]_vars
  BY <1>1, Invariance, PTL
<1>3. QED
  BY <1>2 DEF SweepSparesJobs
=============================================================================
