------------------------ MODULE SchedulerLeaderProofs ------------------------
(***************************************************************************)
(* One process at a time acts as the scheduler, for any number of them     *)
(* and any number of outages of Redis.                                     *)
(***************************************************************************)
EXTENDS SchedulerLeader, TLAPS

\* Two processes maintain together only after the key failed to keep them apart:
\* while somebody maintains on the word of the key, the key is there.
KeyHeld ==
    ~overrun => \A w \in Processes : stage[w] = "maintain" => maintained

LeaderInv == LeaderTypeOK /\ LeaseOwned /\ KeyHeld /\ OneMaintainer

\* At first nobody leads.
LEMMA InitLeader == LeaderInit => LeaderInv
<1> SUFFICES ASSUME LeaderInit PROVE LeaderInv
  OBVIOUS
<1>1. LeaderTypeOK
  <2>1. stage \in [Processes -> Stages]
    BY DEF LeaderInit, Stages
  <2>2. lease \in Processes \cup {NoProcess} /\ leaders \subseteq Processes
        /\ remembered \subseteq Processes
    BY DEF LeaderInit
  <2>3. outages \in 0 .. MaxOutages
    BY OutageAssumption DEF LeaderInit
  <2>4. maintained \in BOOLEAN /\ redisUp \in BOOLEAN /\ late \in BOOLEAN /\ overrun \in BOOLEAN
    BY DEF LeaderInit
  <2>. QED
    BY <2>1, <2>2, <2>3, <2>4 DEF LeaderTypeOK
<1>2. \A w \in Processes : stage[w] = "new"
  BY DEF LeaderInit
<1>3. LeaseOwned /\ KeyHeld /\ OneMaintainer
  BY <1>2 DEF LeaseOwned, KeyHeld, OneMaintainer, Ticking
<1>. QED
  BY <1>1, <1>3 DEF LeaderInv

\* The variables keep their types.
LEMMA StepTypes == LeaderInv /\ [LeaderNext]_leaderVars => LeaderTypeOK'
<1> SUFFICES ASSUME LeaderInv, [LeaderNext]_leaderVars PROVE LeaderTypeOK'
  OBVIOUS
<1> USE OutageAssumption DEF LeaderInv, LeaderTypeOK, GoesTo, Keys, History, Outside, Stages,
                            Looping, Acquiring, Ticking
<1>1. ASSUME NEW w \in Processes, ProcessStep(w) PROVE LeaderTypeOK'
  <2>1. CASE TakeLease(w) \/ LeaseTaken(w) \/ OwnLease(w) \/ Follow(w) \/ Refresh(w)
             \/ CommandFails(w)
    BY <2>1 DEF TakeLease, LeaseTaken, OwnLease, Follow, Refresh, CommandFails
  <2>2. CASE \E ok \in BOOLEAN : FireDueSchedules(w, ok)
    BY <2>2 DEF FireDueSchedules
  <2>3. CASE MaintenanceDue(w) \/ MaintenanceUnasked(w) \/ MaintenanceEnds(w) \/ Wake(w)
    BY <2>3 DEF MaintenanceDue, MaintenanceUnasked, MaintenanceEnds, Wake
  <2>4. CASE ReleaseRead(w) \/ ReleaseDelete(w) \/ ReleaseFails(w)
    BY <2>4 DEF ReleaseRead, ReleaseDelete, ReleaseFails
  <2>. QED
    BY <1>1, <2>1, <2>2, <2>3, <2>4 DEF ProcessStep
<1>2. ASSUME NEW w \in Processes, StartScheduler(w) PROVE LeaderTypeOK'
  BY <1>2 DEF StartScheduler
<1>3. ASSUME NEW w \in Processes, NEW sent \in BOOLEAN, StopScheduler(w, sent)
      PROVE LeaderTypeOK'
  BY <1>3 DEF StopScheduler
<1>4. ASSUME NEW w \in Processes, ProcessDies(w) \/ Forget(w) PROVE LeaderTypeOK'
  BY <1>4 DEF ProcessDies, Forget
<1>5. CASE LeaseExpires \/ MaintenanceExpires \/ RedisFails \/ RedisBack
  <2>1. CASE LeaseExpires
    <3>1. late' \in BOOLEAN
      BY <2>1, Zenon DEF LeaseExpires
    <3>. QED
      BY <2>1, <3>1 DEF LeaseExpires
  <2>2. CASE MaintenanceExpires
    <3>1. overrun' \in BOOLEAN
      BY <2>2, Zenon DEF MaintenanceExpires
    <3>. QED
      BY <2>2, <3>1 DEF MaintenanceExpires
  <2>3. CASE RedisFails
    <3>1. outages \in 0 .. MaxOutages /\ outages < MaxOutages /\ outages' = outages + 1
      BY <2>3 DEF RedisFails
    <3>2. outages' \in 0 .. MaxOutages
      BY <3>1
    <3>3. redisUp' \in BOOLEAN
      BY <2>3, Zenon DEF RedisFails
    <3>. QED
      BY <2>3, <3>2, <3>3 DEF RedisFails
  <2>4. CASE RedisBack
    BY <2>4 DEF RedisBack
  <2> HIDE DEF LeaderTypeOK
  <2>. QED
    BY <1>5, <2>1, <2>2, <2>3, <2>4
<1>6. CASE UNCHANGED leaderVars
  BY <1>6 DEF leaderVars
<1>. QED
  BY <1>1, <1>2, <1>3, <1>4, <1>5, <1>6 DEF LeaderNext

\* Whoever acts as the leader owns the lease: it is given to one process when it is
\* nobody's, deleted by its owner, and otherwise only ends under him, which is `late`.
LEMMA StepLease == LeaderInv /\ [LeaderNext]_leaderVars => LeaseOwned'
<1> SUFFICES ASSUME LeaderInv, [LeaderNext]_leaderVars PROVE LeaseOwned'
  OBVIOUS
<1> USE ProcessAssumption DEF LeaderInv, LeaderTypeOK, LeaseOwned, GoesTo, Keys, History,
                             Outside, Looping, Acquiring, Ticking
<1>1. ASSUME NEW w \in Processes, ProcessStep(w) PROVE LeaseOwned'
  <2>1. CASE TakeLease(w)
    BY <2>1 DEF TakeLease
  <2>2. CASE LeaseTaken(w) \/ OwnLease(w) \/ Follow(w) \/ Refresh(w) \/ CommandFails(w)
    BY <2>2 DEF LeaseTaken, OwnLease, Follow, Refresh, CommandFails
  <2>3. CASE \E ok \in BOOLEAN : FireDueSchedules(w, ok)
    BY <2>3 DEF FireDueSchedules
  <2>4. CASE MaintenanceDue(w) \/ MaintenanceUnasked(w) \/ MaintenanceEnds(w) \/ Wake(w)
    BY <2>4 DEF MaintenanceDue, MaintenanceUnasked, MaintenanceEnds, Wake
  <2>5. CASE ReleaseRead(w) \/ ReleaseFails(w)
    BY <2>5 DEF ReleaseRead, ReleaseFails
  <2>6. CASE ReleaseDelete(w)
    BY <2>6 DEF ReleaseDelete
  <2>. QED
    BY <1>1, <2>1, <2>2, <2>3, <2>4, <2>5, <2>6 DEF ProcessStep
<1>2. ASSUME NEW w \in Processes, StartScheduler(w) PROVE LeaseOwned'
  BY <1>2 DEF StartScheduler
<1>3. ASSUME NEW w \in Processes, NEW sent \in BOOLEAN, StopScheduler(w, sent)
      PROVE LeaseOwned'
  BY <1>3 DEF StopScheduler
<1>4. ASSUME NEW w \in Processes, ProcessDies(w) \/ Forget(w) PROVE LeaseOwned'
  BY <1>4 DEF ProcessDies, Forget
<1>5. CASE LeaseExpires
  BY <1>5 DEF LeaseExpires
<1>6. CASE MaintenanceExpires \/ RedisFails \/ RedisBack
  BY <1>6 DEF MaintenanceExpires, RedisFails, RedisBack
<1>7. CASE UNCHANGED leaderVars
  BY <1>7 DEF leaderVars
<1>. QED
  BY <1>1, <1>2, <1>3, <1>4, <1>5, <1>6, <1>7 DEF LeaderNext

\* Maintenance begins only when the key was not there, that is when nobody maintains
\* on its word.
LEMMA StepMaintenance ==
    LeaderInv /\ [LeaderNext]_leaderVars => KeyHeld' /\ OneMaintainer'
<1> SUFFICES ASSUME LeaderInv, [LeaderNext]_leaderVars PROVE KeyHeld' /\ OneMaintainer'
  OBVIOUS
<1> USE DEF LeaderInv, LeaderTypeOK, KeyHeld, OneMaintainer, GoesTo, Keys, History, Outside
<1>1. ASSUME NEW w \in Processes, ProcessStep(w) PROVE KeyHeld' /\ OneMaintainer'
  <2>1. CASE TakeLease(w) \/ LeaseTaken(w) \/ OwnLease(w) \/ Follow(w) \/ Refresh(w)
             \/ CommandFails(w)
    BY <2>1 DEF TakeLease, LeaseTaken, OwnLease, Follow, Refresh, CommandFails
  <2>2. CASE \E ok \in BOOLEAN : FireDueSchedules(w, ok)
    BY <2>2 DEF FireDueSchedules
  <2>3. CASE MaintenanceDue(w)
    BY <2>3 DEF MaintenanceDue
  <2>4. CASE MaintenanceUnasked(w) \/ MaintenanceEnds(w) \/ Wake(w)
    BY <2>4 DEF MaintenanceUnasked, MaintenanceEnds, Wake
  <2>5. CASE ReleaseRead(w) \/ ReleaseDelete(w) \/ ReleaseFails(w)
    BY <2>5 DEF ReleaseRead, ReleaseDelete, ReleaseFails
  <2>. QED
    BY <1>1, <2>1, <2>2, <2>3, <2>4, <2>5 DEF ProcessStep
<1>2. ASSUME NEW w \in Processes, StartScheduler(w) PROVE KeyHeld' /\ OneMaintainer'
  BY <1>2 DEF StartScheduler
<1>3. ASSUME NEW w \in Processes, NEW sent \in BOOLEAN, StopScheduler(w, sent)
      PROVE KeyHeld' /\ OneMaintainer'
  BY <1>3 DEF StopScheduler
<1>4. ASSUME NEW w \in Processes, ProcessDies(w) \/ Forget(w) PROVE KeyHeld' /\ OneMaintainer'
  BY <1>4 DEF ProcessDies, Forget
<1>5. CASE LeaseExpires \/ RedisFails \/ RedisBack
  BY <1>5 DEF LeaseExpires, RedisFails, RedisBack
<1>6. CASE MaintenanceExpires
  BY <1>6 DEF MaintenanceExpires
<1>7. CASE UNCHANGED leaderVars
  BY <1>7 DEF leaderVars
<1>. QED
  BY <1>1, <1>2, <1>3, <1>4, <1>5, <1>6, <1>7 DEF LeaderNext

\* One process at a time fires schedules and maintains the lakehouses, with the two
\* exceptions the property names, for any number of processes, stops, crashes and outages.
THEOREM SchedulerAlone == LeaderSpec => []OneScheduler
<1>1. LeaderInv /\ [LeaderNext]_leaderVars => LeaderInv'
  BY StepTypes, StepLease, StepMaintenance DEF LeaderInv
<1>2. LeaderInv => OneScheduler
  BY DEF LeaderInv, OneScheduler, OneTicker, LeaseOwned
<1>3. QED
  BY InitLeader, <1>1, <1>2, PTL DEF LeaderSpec
=============================================================================
