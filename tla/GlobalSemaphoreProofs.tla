------------------------ MODULE GlobalSemaphoreProofs ------------------------
(***************************************************************************)
(* Proofs about GlobalSemaphore, for any finite sets of calls, any limits  *)
(* and any timing that satisfies TimingAssumption.                         *)
(***************************************************************************)
EXTENDS GlobalSemaphore, FiniteSetTheorems, TLAPS

\* A body whose renewal task is alive is a member of its pool, and the time
\* left and the time since the renewal add up: its lease cannot have expired.
RenewedInSlots ==
    \A t \in Tokens : renewing[t] => /\ pc[t] = "holding"
                                     /\ t \in slots
                                     /\ left[t] + since[t] >= LeaseTTL

\* The inductive invariant.
IInv == TypeOK /\ RenewedInSlots /\ SlotsWithinLimit

\* Every subset of the tokens has a cardinality, and a limit is a number.
LEMMA Sizes ==
    /\ \A S \in SUBSET Tokens : IsFiniteSet(S) /\ Cardinality(S) \in Nat
    /\ \A S, T \in SUBSET Tokens : S \subseteq T => Cardinality(S) <= Cardinality(T)
    /\ \A t \in Tokens : LimitOf(t) \in Nat /\ Pool(t) \in SUBSET Tokens
<1>1. \A S \in SUBSET Tokens : IsFiniteSet(S) /\ Cardinality(S) \in Nat
  BY TokensAssumption, FS_Subset, FS_CardinalityType
<1>2. ASSUME NEW S \in SUBSET Tokens, NEW T \in SUBSET Tokens, S \subseteq T
      PROVE Cardinality(S) <= Cardinality(T)
  BY <1>1, <1>2, FS_Subset
<1>3. \A t \in Tokens : LimitOf(t) \in Nat /\ Pool(t) \in SUBSET Tokens
  BY LimitsAssumption DEF LimitOf, Pool, Tokens, AtLeast
<1>4. QED
  BY <1>1, <1>2, <1>3

\* Tokens of one pool have the same members and the same limit.
LEMMA Pools ==
    \A t, u \in Tokens : \/ Pool(u) = Pool(t) /\ LimitOf(u) = LimitOf(t)
                         \/ Pool(u) \cap Pool(t) = {}
BY TokensAssumption DEF Pool, LimitOf, Tokens

\* A token is a member of its pool.
LEMMA InOwnPool == \A t \in Tokens : t \in Pool(t)
BY DEF Pool, Tokens

\* Dropping members keeps every pool within its limit.
LEMMA ShrinkKeepsLimit ==
    ASSUME TypeOK, SlotsWithinLimit, slots' \subseteq slots
    PROVE SlotsWithinLimit'
<1> SUFFICES ASSUME NEW t \in Tokens
             PROVE Cardinality(slots' \cap Pool(t)) <= LimitOf(t)
  BY DEF SlotsWithinLimit
<1>1. Cardinality(slots' \cap Pool(t)) <= Cardinality(slots \cap Pool(t))
  BY Sizes DEF TypeOK
<1>2. Cardinality(slots \cap Pool(t)) <= LimitOf(t)
  BY DEF SlotsWithinLimit
<1>3. QED
  BY <1>1, <1>2, Sizes DEF TypeOK

\* A granted slot keeps every pool within its limit.
LEMMA EnterKeepsLimit ==
    ASSUME TypeOK, SlotsWithinLimit, NEW t \in Tokens, CanAcquire(t), AcquireScript(t)
    PROVE SlotsWithinLimit'
<1> SUFFICES ASSUME NEW u \in Tokens
             PROVE Cardinality(slots' \cap Pool(u)) <= LimitOf(u)
  BY DEF SlotsWithinLimit
<1>1. CASE Pool(u) = Pool(t) /\ LimitOf(u) = LimitOf(t)
  <2>1. slots' \cap Pool(u) = Kept(t) \cup {t}
    BY <1>1, InOwnPool DEF AcquireScript, Kept, Expired, TypeOK
  <2>2. Kept(t) \in SUBSET Tokens
    BY DEF Kept, TypeOK
  <2>3. Cardinality(Kept(t) \cup {t}) <= Cardinality(Kept(t)) + 1
    BY <2>2, Sizes, FS_AddElement
  <2>4. Cardinality(Kept(t) \cup {t}) \in Nat
    BY <2>2, Sizes
  <2>5. QED
    BY <1>1, <2>1, <2>2, <2>3, <2>4, Sizes DEF CanAcquire
<1>2. CASE Pool(u) \cap Pool(t) = {}
  <2>1. slots' \cap Pool(u) = slots \cap Pool(u)
    BY <1>2, InOwnPool DEF AcquireScript
  <2>2. QED
    BY <2>1 DEF SlotsWithinLimit
<1>3. QED
  BY <1>1, <1>2, Pools

\* Init establishes the invariant.
LEMMA InitIInv == Init => IInv
<1> SUFFICES ASSUME Init PROVE IInv
  OBVIOUS
<1>1. TypeOK
  BY TimingAssumption DEF Init, TypeOK
<1>2. RenewedInSlots
  BY DEF Init, RenewedInSlots
<1>3. SlotsWithinLimit
  <2> SUFFICES ASSUME NEW t \in Tokens
               PROVE Cardinality(slots \cap Pool(t)) <= LimitOf(t)
    BY DEF SlotsWithinLimit
  <2>1. slots \cap Pool(t) = {}
    BY DEF Init
  <2>2. QED
    BY <2>1, FS_EmptySet, Sizes
<1>4. QED
  BY <1>1, <1>2, <1>3 DEF IInv

\* The step of a call that enters its body.
LEMMA EnterStep == ASSUME IInv, NEW t \in Tokens, Enter(t) PROVE IInv'
<1> USE TimingAssumption
<1>1. TypeOK'
  BY DEF IInv, TypeOK, Enter, AcquireScript
<1>2. RenewedInSlots'
  BY DEF IInv, TypeOK, RenewedInSlots, Enter, AcquireScript, Expired, Pool
<1>3. SlotsWithinLimit'
  BY EnterKeepsLimit DEF IInv, Enter
<1>4. QED
  BY <1>1, <1>2, <1>3 DEF IInv

\* The step of a call that finds the pool full.
LEMMA FullStep ==
    ASSUME IInv, NEW t \in Tokens, Reject(t) \/ PollFull(t) PROVE IInv'
<1> USE TimingAssumption
<1>0. AcquireScript(t) /\ ~CanAcquire(t)
  BY DEF Reject, PollFull
<1>1. TypeOK'
  BY <1>0 DEF IInv, TypeOK, Reject, PollFull, AcquireScript
<1>2. RenewedInSlots'
  BY <1>0 DEF IInv, TypeOK, RenewedInSlots, Reject, PollFull, AcquireScript, Expired
<1>3. SlotsWithinLimit'
  BY <1>0, ShrinkKeepsLimit DEF IInv, AcquireScript
<1>4. QED
  BY <1>1, <1>2, <1>3 DEF IInv

\* Every step keeps the invariant.
LEMMA StepIInv == IInv /\ [Next]_vars => IInv'
<1> SUFFICES ASSUME IInv, [Next]_vars PROVE IInv'
  OBVIOUS
<1> USE TimingAssumption
<1>1. CASE UNCHANGED vars
  BY <1>1 DEF vars, IInv, TypeOK, RenewedInSlots, SlotsWithinLimit
<1>2. CASE Tick
  <2>1. TypeOK' /\ RenewedInSlots'
    BY <1>2 DEF IInv, TypeOK, RenewedInSlots, Tick, AtLeast
  <2>2. SlotsWithinLimit'
    BY <1>2 DEF IInv, SlotsWithinLimit, Tick
  <2>3. QED
    BY <2>1, <2>2 DEF IInv
<1>3. ASSUME NEW t \in Tokens, Attempt(t) PROVE IInv'
  BY <1>3, EnterStep, FullStep DEF Attempt, Acquire, PollAcquire
<1>4. ASSUME NEW t \in Tokens, StartWaiting(t) PROVE IInv'
  BY <1>4 DEF StartWaiting, IInv, TypeOK, RenewedInSlots, SlotsWithinLimit, Fresh
<1>5. ASSUME NEW t \in Tokens, Renew(t) PROVE IInv'
  <2>1. slots' = slots
    BY <1>5 DEF Renew, IInv, RenewedInSlots
  <2>2. TypeOK' /\ RenewedInSlots'
    BY <1>5, <2>1 DEF IInv, TypeOK, RenewedInSlots, Renew
  <2>3. QED
    BY <2>1, <2>2 DEF IInv, SlotsWithinLimit
<1>6. ASSUME NEW t \in Tokens, RenewError(t) PROVE IInv'
  BY <1>6 DEF RenewError, IInv, TypeOK, RenewedInSlots, SlotsWithinLimit
<1>7. ASSUME NEW t \in Tokens, Leave(t) PROVE IInv'
  <2>1. TypeOK' /\ RenewedInSlots'
    BY <1>7 DEF IInv, TypeOK, RenewedInSlots, Leave
  <2>2. SlotsWithinLimit'
    BY <1>7, ShrinkKeepsLimit DEF IInv, Leave
  <2>3. QED
    BY <2>1, <2>2 DEF IInv
<1>8. ASSUME NEW t \in Tokens, Abandon(t) PROVE IInv'
  BY <1>8 DEF Abandon, IInv, TypeOK, RenewedInSlots, SlotsWithinLimit
<1>9. QED
  BY <1>1, <1>2, <1>3, <1>4, <1>5, <1>6, <1>7, <1>8 DEF Next

\* The invariant holds in every reachable state.
THEOREM Invariance == Spec => []IInv
BY InitIInv, StepIInv, PTL DEF Spec

\* The variables keep their types.
THEOREM TypeCorrect == Spec => []TypeOK
<1>1. IInv => TypeOK
  BY DEF IInv
<1>2. QED
  BY <1>1, Invariance, PTL

\* Neither sorted set ever outgrows its limit.
THEOREM SlotsBounded == Spec => []SlotsWithinLimit
<1>1. IInv => SlotsWithinLimit
  BY DEF IInv
<1>2. QED
  BY <1>1, Invariance, PTL

\* At most LimitOf bodies with a living renewal task run in a pool.
THEOREM RenewedBounded == Spec => []RenewedWithinLimit
<1>1. ASSUME IInv PROVE RenewedWithinLimit
  <2> SUFFICES ASSUME NEW t \in Tokens
               PROVE Cardinality(Renewed \cap Pool(t)) <= LimitOf(t)
    BY DEF RenewedWithinLimit
  <2>1. Renewed \cap Pool(t) \subseteq slots \cap Pool(t)
    BY <1>1 DEF IInv, RenewedInSlots, Renewed, Working
  <2>2. slots \cap Pool(t) \in SUBSET Tokens /\ Renewed \cap Pool(t) \in SUBSET Tokens
    BY <1>1 DEF IInv, TypeOK, Renewed, Working
  <2>3. Cardinality(Renewed \cap Pool(t)) <= Cardinality(slots \cap Pool(t))
    BY <2>1, <2>2, Sizes
  <2>4. Cardinality(slots \cap Pool(t)) <= LimitOf(t)
    BY <1>1 DEF IInv, SlotsWithinLimit
  <2>5. QED
    BY <2>2, <2>3, <2>4, Sizes
<1>2. QED
  BY <1>1, Invariance, PTL

\* The limit of each pool holds for its sorted set and for the bodies that are
\* renewed, for any number of callers and any limits.
THEOREM PoolsBounded == Spec => []PoolsWithinLimit
<1>1. SlotsWithinLimit /\ RenewedWithinLimit => PoolsWithinLimit
  BY DEF PoolsWithinLimit
<1>2. QED
  BY <1>1, SlotsBounded, RenewedBounded, PTL

-----------------------------------------------------------------------------
(* The memory budget.                                                      *)

\* The memory budget: when at least one query is allowed, there are never more
\* DuckDB engines at work, in bodies that are renewed, than memory_limit_per_run
\* counts shares.
THEOREM BudgetKept ==
    ASSUME MaxQueries >= 1 PROVE Spec => []EnginesWithinBudget
<1>1. ASSUME IInv PROVE EnginesWithinBudget
  <2> DEFINE R == Renewed \ QueryTokens
             Q == Renewed \cap QueryTokens
  <2>0. /\ Renewed \in SUBSET Tokens /\ R \in SUBSET Tokens /\ Q \in SUBSET Tokens
        /\ slots \in SUBSET Tokens /\ Renewed \subseteq slots
    BY <1>1 DEF IInv, TypeOK, RenewedInSlots, Renewed, Working
  <2>1. Cardinality(R) <= AtLeast(1, MaxRuns)
    <3>1. CASE R = {}
      BY <3>1, FS_EmptySet, LimitsAssumption DEF AtLeast
    <3>2. CASE R # {}
      <4>1. PICK t \in Tokens : t \in R
        BY <2>0, <3>2
      <4>2. t \notin QueryTokens
        BY <4>1
      <4>3. Pool(t) = HttpTokens \cup RunTokens /\ LimitOf(t) = MaxRuns
        BY <4>2 DEF Pool, LimitOf
      <4>4. R \subseteq slots \cap Pool(t)
        BY <2>0, <4>3 DEF Tokens
      <4>5. slots \cap Pool(t) \in SUBSET Tokens
        BY <2>0
      <4>6. Cardinality(R) <= Cardinality(slots \cap Pool(t))
        BY <2>0, <4>4, <4>5, Sizes
      <4>7. Cardinality(slots \cap Pool(t)) <= MaxRuns
        BY <1>1, <4>1, <4>3 DEF IInv, SlotsWithinLimit
      <4>8. QED
        BY <2>0, <4>5, <4>6, <4>7, Sizes, LimitsAssumption DEF AtLeast
    <3>3. QED
      BY <3>1, <3>2
  <2>2. Cardinality(Q) <= MaxQueries
    <3>1. CASE Q = {}
      BY <3>1, FS_EmptySet, LimitsAssumption
    <3>2. CASE Q # {}
      <4>1. PICK t \in Tokens : t \in Q
        BY <2>0, <3>2
      <4>2. Pool(t) = QueryTokens /\ LimitOf(t) = MaxQueries
        BY <4>1, LimitsAssumption DEF Pool, LimitOf, AtLeast
      <4>3. Q \subseteq slots \cap Pool(t) /\ slots \cap Pool(t) \in SUBSET Tokens
        BY <2>0, <4>2
      <4>4. Cardinality(Q) <= Cardinality(slots \cap Pool(t))
        BY <2>0, <4>3, Sizes
      <4>5. Cardinality(slots \cap Pool(t)) <= MaxQueries
        BY <1>1, <4>1, <4>2 DEF IInv, SlotsWithinLimit
      <4>6. QED
        BY <2>0, <4>3, <4>4, <4>5, Sizes, LimitsAssumption
    <3>3. QED
      BY <3>1, <3>2
  <2>3. Cardinality(Renewed) = Cardinality(R) + Cardinality(Q)
    <3>1. Renewed = R \cup Q /\ R \cap Q = {}
      OBVIOUS
    <3>2. IsFiniteSet(R) /\ IsFiniteSet(Q)
      BY <2>0, Sizes
    <3>3. Cardinality(R \cup Q)
            = Cardinality(R) + Cardinality(Q) - Cardinality(R \cap Q)
      BY <3>2, FS_Union
    <3>4. Cardinality(R \cap Q) = 0
      BY <3>1, FS_EmptySet
    <3>5. Cardinality(R) \in Nat /\ Cardinality(Q) \in Nat
      BY <2>0, Sizes
    <3>6. Cardinality(Renewed) = Cardinality(R \cup Q)
      BY <3>1
    <3> HIDE DEF R, Q
    <3>7. QED
      BY <3>3, <3>4, <3>5, <3>6
  <2>4. AtLeast(1, MaxRuns) \in Nat /\ AtLeast(0, MaxQueries) = MaxQueries
    BY LimitsAssumption DEF AtLeast
  <2>5. Cardinality(R) \in Nat /\ Cardinality(Q) \in Nat
    BY <2>0, Sizes
  <2> HIDE DEF R, Q
  <2>6. QED
    BY <2>1, <2>2, <2>3, <2>4, <2>5, LimitsAssumption
       DEF EnginesWithinBudget, EngineSlots
<1>2. QED
  BY <1>1, Invariance, PTL

-----------------------------------------------------------------------------
(* Without Redis errors every body has its renewal task.                   *)

AllRenewed == \A t \in Tokens : pc[t] = "holding" => renewing[t]

\* Only a Redis error separates a body from its renewal task.
LEMMA NoFaultAllRenewed ==
    ASSUME ~RedisFaults PROVE Spec => []AllRenewed
<1>1. Init => AllRenewed
  BY DEF Init, AllRenewed
<1>2. TypeOK /\ AllRenewed /\ [Next]_vars => AllRenewed'
  <2> SUFFICES ASSUME TypeOK, AllRenewed, [Next]_vars PROVE AllRenewed'
    OBVIOUS
  <2> USE DEF AllRenewed, TypeOK
  <2>1. CASE UNCHANGED vars
    BY <2>1 DEF vars
  <2>2. CASE Tick
    BY <2>2 DEF Tick
  <2>3. ASSUME NEW t \in Tokens, Attempt(t) PROVE AllRenewed'
    <3>1. CASE Enter(t)
      BY <3>1 DEF Enter
    <3>2. CASE Reject(t) \/ PollFull(t)
      BY <3>2 DEF Reject, PollFull
    <3>3. QED
      BY <2>3, <3>1, <3>2 DEF Attempt, Acquire, PollAcquire
  <2>4. ASSUME NEW t \in Tokens, StartWaiting(t) \/ Renew(t) PROVE AllRenewed'
    BY <2>4 DEF StartWaiting, Renew
  <2>5. ASSUME NEW t \in Tokens, Leave(t) \/ Abandon(t) PROVE AllRenewed'
    BY <2>5 DEF Leave, Abandon
  <2>6. QED
    BY <2>1, <2>2, <2>3, <2>4, <2>5 DEF Next, RenewError
<1>3. QED
  BY <1>1, <1>2, TypeCorrect, PTL DEF Spec

\* When Redis answers, no body is left out of the budget.
THEOREM BudgetKeptByAll ==
    ASSUME ~RedisFaults, MaxQueries >= 1
    PROVE  Spec => [](Cardinality(Working) <= EngineSlots)
<1>1. AllRenewed /\ EnginesWithinBudget => Cardinality(Working) <= EngineSlots
  <2>1. AllRenewed => Working = Renewed
    BY DEF AllRenewed, Working, Renewed
  <2>. QED
    BY <2>1 DEF EnginesWithinBudget
<1>. QED
  BY <1>1, BudgetKept, NoFaultAllRenewed, PTL

-----------------------------------------------------------------------------
(* The two pools implement LeasePool.                                      *)

\* A step changes the set of renewed bodies by one call at most, and a call
\* that joins it found room in its pool.
LEMMA RenewedStep ==
    ASSUME IInv, IInv', [Next]_vars
    PROVE \/ Renewed' = Renewed
          \/ \E t \in Tokens : t \in Renewed /\ Renewed' = Renewed \ {t}
          \/ \E t \in Tokens : /\ t \notin Renewed
                               /\ Renewed' = Renewed \cup {t}
                               /\ Cardinality(Renewed \cap Pool(t)) < LimitOf(t)
<1> USE DEF Renewed, Working
<1>1. CASE UNCHANGED vars
  BY <1>1 DEF vars
<1>2. CASE Tick
  BY <1>2 DEF Tick
<1>3. ASSUME NEW t \in Tokens, Enter(t), t \notin Renewed
      PROVE /\ Renewed' = Renewed \cup {t}
            /\ Cardinality(Renewed \cap Pool(t)) < LimitOf(t)
  <2>1. Renewed' = Renewed \cup {t}
    BY <1>3 DEF Enter, IInv, TypeOK
  <2>2. Renewed \cap Pool(t) \subseteq Kept(t)
    BY TimingAssumption DEF IInv, TypeOK, RenewedInSlots, Kept, Expired
  <2>3. Renewed \cap Pool(t) \in SUBSET Tokens /\ Kept(t) \in SUBSET Tokens
    BY DEF IInv, TypeOK, Kept
  <2> HIDE DEF Renewed
  <2>4. Cardinality(Renewed \cap Pool(t)) <= Cardinality(Kept(t))
    BY <2>2, <2>3, Sizes
  <2>5. QED
    BY <1>3, <2>1, <2>3, <2>4, Sizes DEF Enter, CanAcquire
<1>4. ASSUME NEW t \in Tokens, Acquire(t) \/ PollAcquire(t)
      PROVE Enter(t) /\ t \notin Renewed
  BY <1>4 DEF Acquire, PollAcquire, Fresh
<1>5. ASSUME NEW t \in Tokens,
             Reject(t) \/ PollFull(t) \/ StartWaiting(t) \/ Renew(t)
      PROVE Renewed' = Renewed
  BY <1>5 DEF Reject, PollFull, StartWaiting, Renew, Fresh, IInv, TypeOK
<1>6. ASSUME NEW t \in Tokens, RenewError(t) \/ Leave(t) \/ Abandon(t)
      PROVE Renewed' = Renewed \ {t}
  BY <1>6 DEF RenewError, Leave, Abandon, IInv, TypeOK
<1>7. ASSUME NEW t \in Tokens, Renewed' = Renewed \ {t}
      PROVE Renewed' = Renewed \/ (t \in Renewed /\ Renewed' = Renewed \ {t})
  BY <1>7
<1> HIDE DEF Renewed
<1>8. QED
  BY <1>1, <1>2, <1>3, <1>4, <1>5, <1>6, <1>7 DEF Next, Attempt

\* GlobalSemaphore implements a LeasePool of runs and a LeasePool of queries.
THEOREM Refinement == Spec => PoolsSpec
<1> DEFINE R == Renewed \ QueryTokens
           Q == Renewed \cap QueryTokens
<1>1. Init => RunPool!Init /\ QueryPool!Init
  BY DEF Init, RunPool!Init, QueryPool!Init, Renewed, Working
<1>2. \A S : RunPool!Cardinality(S) = Cardinality(S)
  BY DEF RunPool!Cardinality, Cardinality
<1>3. \A S : QueryPool!Cardinality(S) = Cardinality(S)
  BY DEF QueryPool!Cardinality, Cardinality
<1>4. ASSUME IInv, IInv', [Next]_vars PROVE [RunPool!Next]_R /\ [QueryPool!Next]_Q
  <2>0. Renewed \subseteq Tokens
    BY DEF Renewed, Working
  <2>1. CASE Renewed' = Renewed
    BY <2>1
  <2>2. ASSUME NEW t \in Tokens, t \in Renewed, Renewed' = Renewed \ {t}
        PROVE [RunPool!Next]_R /\ [QueryPool!Next]_Q
    BY <2>2, TokensAssumption
       DEF RunPool!Next, RunPool!Leave, QueryPool!Next, QueryPool!Leave, Tokens
  <2>3. ASSUME NEW t \in Tokens, t \notin Renewed, Renewed' = Renewed \cup {t},
               Cardinality(Renewed \cap Pool(t)) < LimitOf(t)
        PROVE [RunPool!Next]_R /\ [QueryPool!Next]_Q
    <3>1. CASE t \in QueryTokens
      <4>1. Pool(t) = QueryTokens /\ LimitOf(t) = AtLeast(1, MaxQueries)
        BY <3>1 DEF Pool, LimitOf
      <4>2. R' = R /\ Q' = Q \cup {t} /\ t \notin Q
        BY <2>3, <3>1
      <4>3. QueryPool!Cardinality(Q) < AtLeast(1, MaxQueries)
        BY <1>3, <2>3, <4>1
      <4>4. QED
        BY <3>1, <4>2, <4>3 DEF QueryPool!Next, QueryPool!Enter
    <3>2. CASE t \notin QueryTokens
      <4>1. Pool(t) = HttpTokens \cup RunTokens /\ LimitOf(t) = MaxRuns
        BY <3>2 DEF Pool, LimitOf
      <4>2. Q' = Q /\ R' = R \cup {t} /\ t \notin R
        BY <2>3, <3>2
      <4>3. R = Renewed \cap Pool(t)
        BY <2>0, <4>1, TokensAssumption DEF Tokens
      <4>4. RunPool!Cardinality(R) < MaxRuns
        BY <1>2, <2>3, <4>1, <4>3
      <4>5. t \in HttpTokens \cup RunTokens
        BY <3>2 DEF Tokens
      <4>6. QED
        BY <4>2, <4>4, <4>5 DEF RunPool!Next, RunPool!Enter
    <3>3. QED
      BY <3>1, <3>2
  <2>4. QED
    BY <1>4, <2>1, <2>2, <2>3, RenewedStep
<1>5. QED
  BY <1>1, <1>4, Invariance, PTL
     DEF Spec, PoolsSpec, RunPool!Spec, QueryPool!Spec
=============================================================================
