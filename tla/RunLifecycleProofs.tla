------------------------- MODULE RunLifecycleProofs --------------------------
(***************************************************************************)
(* What RunLifecycle guarantees for any number of runs, uvicorn workers    *)
(* and cancel requests, whichever run came through whichever entry point.  *)
(***************************************************************************)
EXTENDS RunLifecycle, TLAPS

\* Between its submission and the last action that serves it, the row of a run
\* is running; before, there is none.
Lived(r) ==
    /\ loc[r] = "new" => row[r] = "none"
    /\ loc[r] \notin {"new", "done"} => row[r] = "running"

\* dbt executes in a warm worker only for a call that waits for it.
WarmCalls == \A r \in warm : loc[r] = "warm"

\* Where dbt as a subprocess can be, the leaked ones included.
ProcCalls ==
    \A r \in Runs : proc[r] # "none" =>
        loc[r] \in {"spawned", "proc", "saved", "unlocked", "done", "lost"}

\* A run whose dbt was killed is on its way out: the call that still waits for
\* the warm worker will see the epoch, the one that waits for the subprocess has
\* no exit status but the signal's, and a killed run has nothing to retry.
Down(r) ==
    /\ r \notin warm /\ proc[r] # "alive"
    /\ loc[r] \in {"warm", "spawned", "proc", "ended", "saved", "unlocked", "done",
                   "lost"}
    /\ loc[r] = "warm" => r \in epoch
    /\ loc[r] \in {"spawned", "proc"} => proc[r] = "killed"
    /\ loc[r] = "ended" => rc[r] # "conflict"

Inv ==
    /\ TypeOK
    /\ \A r \in Runs : Lived(r)
    /\ WarmCalls
    /\ ProcCalls
    /\ \A r \in killed : Down(r)

\* Initially no run exists.
LEMMA Initially == Init => Inv
<1> SUFFICES ASSUME Init PROVE Inv
    OBVIOUS
<1>1. stop \in [at : {"idle", "untrack", "unlock"}, on : Workers \cup {Nobody},
                signal : BOOLEAN, hit : BOOLEAN, pool : BOOLEAN]
    BY DEF Init, Idle
<1>2. snapshot \in [by : Runs \cup {Nobody}, of : Runs \cup {Nobody}]
    BY DEF Init
<1>3. registered \in BOOLEAN /\ flag \in BOOLEAN
    BY DEF Init
<1>4. /\ attempt \in [Runs -> 0 .. MaxAttempts]
      /\ requests \in 0 .. MaxRequests
    BY ConstantsAssumption DEF Init
<1>5. TypeOK
    BY <1>1, <1>2, <1>3, <1>4 DEF Init, TypeOK, Terminal
<1>. QED
    BY <1>5 DEF Init, Inv, Lived, WarmCalls, ProcCalls, Down

\* The tables keep their types when a process leaves them.
LEMMA UntrackTyped ==
    ASSUME TypeOK, NEW r \in Runs, Untrack(r)
    PROVE  local' \in [Workers -> Runs \cup {Nobody}] /\ registered' \in BOOLEAN
BY ConstantsAssumption DEF TypeOK, Untrack

\* No step of a run, of dbt or of a cancel handler breaks it.
LEMMA Inductive == Inv /\ [Next]_vars => Inv'
<1> SUFFICES ASSUME Inv, [Next]_vars PROVE Inv'
    OBVIOUS
<1> USE ConstantsAssumption
    DEF Inv, TypeOK, Terminal, Lived, WarmCalls, ProcCalls, Down, Goto, SetRow,
        leases, files, workers, processes, history
<1>1. ASSUME NEW r \in Runs, Submit(r) PROVE Inv'
    BY <1>1 DEF Submit, Regenerate, ReleasePool, InPool
<1>1a. ASSUME NEW r \in Runs, SubmitStream(r) PROVE Inv'
    BY <1>1a DEF SubmitStream, Regenerate, ReleasePool, InPool
<1>2. ASSUME NEW r \in Runs, Launch(r) PROVE Inv'
    BY <1>2 DEF Launch
<1>3. ASSUME NEW r \in Runs, Prepare(r) PROVE Inv'
    BY <1>3 DEF Prepare, Regenerate, ReleasePool, InPool
<1>4. ASSUME NEW r \in Runs, PrepareFails(r) PROVE Inv'
    BY <1>4 DEF PrepareFails
<1>5. ASSUME NEW r \in Runs, EnterSlot(r) PROVE Inv'
    BY <1>5 DEF EnterSlot
<1>6. ASSUME NEW r \in Runs, Refused(r) PROVE Inv'
    BY <1>6 DEF Refused, RecordUnstarted, ReadResults
<1>7. ASSUME NEW r \in Runs, TakeLock(r) PROVE Inv'
    BY <1>7 DEF TakeLock
<1>8. ASSUME NEW r \in Runs, LockTimeout(r) PROVE Inv'
    BY <1>8 DEF LockTimeout, RecordUnstarted, ReadResults
<1>9. ASSUME NEW r \in Runs, WriteResults(r) PROVE Inv'
    BY <1>9 DEF WriteResults
<1>10. ASSUME NEW r \in Runs, EnterPool(r) PROVE Inv'
    BY <1>10 DEF EnterPool
<1>11. ASSUME NEW r \in Runs, WarmStart(r) PROVE Inv'
    BY <1>11 DEF WarmStart
<1>12. ASSUME NEW r \in Runs, WarmDone(r) PROVE Inv'
    BY <1>12 DEF WarmDone
<1>13. ASSUME NEW r \in Runs, WarmFails(r) PROVE Inv'
    BY <1>13 DEF WarmFails
<1>14. ASSUME NEW r \in Runs, Spawn(r) PROVE Inv'
    BY <1>14 DEF Spawn
<1>15. ASSUME NEW r \in Runs, Register(r) PROVE Inv'
    BY <1>15 DEF Register
<1>16. ASSUME NEW r \in Runs, ProcExits(r) PROVE Inv'
    BY <1>16 DEF ProcExits
<1>17. ASSUME NEW r \in Runs, LeakedExits(r) PROVE Inv'
    BY <1>17 DEF LeakedExits
<1>18. ASSUME NEW r \in Runs, Collect(r) PROVE Inv'
  <2>1. TypeOK'
    BY <1>18, UntrackTyped DEF Collect
  <2>2. \A q \in Runs : Lived(q)'
    BY <1>18 DEF Collect, Untrack
  <2>3. WarmCalls' /\ ProcCalls'
    BY <1>18 DEF Collect, Untrack
  <2>4. \A q \in killed' : Down(q)'
    BY <1>18 DEF Collect, Untrack
  <2>. QED
    BY <2>1, <2>2, <2>3, <2>4
<1>19. ASSUME NEW r \in Runs, ProcTimesOut(r) PROVE Inv'
  <2>1. TypeOK'
    BY <1>19, UntrackTyped DEF ProcTimesOut
  <2>2. \A q \in Runs : Lived(q)'
    BY <1>19 DEF ProcTimesOut, Untrack
  <2>3. WarmCalls' /\ ProcCalls'
    BY <1>19 DEF ProcTimesOut, Untrack
  <2>4. \A q \in killed' : Down(q)'
    BY <1>19 DEF ProcTimesOut, Untrack
  <2>. QED
    BY <2>1, <2>2, <2>3, <2>4
<1>20. ASSUME NEW r \in Runs, Retry(r) PROVE Inv'
    BY <1>20 DEF Retry, MayRetry
<1>21. ASSUME NEW r \in Runs, Save(r) PROVE Inv'
    BY <1>21 DEF Save
<1>22. ASSUME NEW r \in Runs, Unlock(r) PROVE Inv'
    BY <1>22 DEF Unlock
<1>23. ASSUME NEW r \in Runs, Persist(r) PROVE Inv'
    BY <1>23 DEF Persist, ReadResults, FinalStatus
<1>24. ASSUME NEW w \in Workers, Stop(w) PROVE Inv'
  <2>1. TypeOK'
    <3>1. stop' \in [at : {"idle", "untrack", "unlock"}, on : Workers \cup {Nobody},
                     signal : BOOLEAN, hit : BOOLEAN, pool : BOOLEAN]
      BY <1>24 DEF Stop
    <3>2. /\ flag' \in BOOLEAN
          /\ proc' \in [Runs -> {"none", "alive", "exited", "killed"}]
          /\ killed' \subseteq Runs
      <4>1. CASE CancelCommand(w)
        BY <4>1 DEF CancelCommand
      <4>2. CASE UNCHANGED <<flag, proc, killed>>
        BY <4>2
      <4>3. CancelCommand(w) \/ UNCHANGED <<flag, proc, killed>>
        BY <1>24, Zenon DEF Stop
      <4>. QED
        BY <4>1, <4>2, <4>3
    <3>3. requests' \in 0 .. MaxRequests
      BY <1>24 DEF Stop, Request
    <3>. QED
      BY <1>24, <3>1, <3>2, <3>3 DEF Stop, Executing
  <2>2. \A q \in Runs : Lived(q)'
    BY <1>24 DEF Stop, Request, CancelCommand, Executing, Idle
  <2>3. WarmCalls' /\ ProcCalls'
    BY <1>24 DEF Stop, Request, CancelCommand, Executing, Idle
  <2>4. \A q \in killed' : Down(q)'
    BY <1>24 DEF Stop, Request, CancelCommand, Executing, Idle
  <2>. QED
    BY <2>1, <2>2, <2>3, <2>4
<1>25. ASSUME NEW r \in Runs, NEW w \in Workers, CancelRun(r, w) PROVE Inv'
    BY <1>25 DEF CancelRun, Request, CancelCommand, Idle
<1>26. CASE StopUntracks
  <2>1. TypeOK'
    <3>1. stop' \in [at : {"idle", "untrack", "unlock"}, on : Workers \cup {Nobody},
                     signal : BOOLEAN, hit : BOOLEAN, pool : BOOLEAN]
      BY <1>26 DEF StopUntracks
    <3>2. local' \in [Workers -> Runs \cup {Nobody}] /\ registered' \in BOOLEAN
      BY <1>26 DEF StopUntracks
    <3>3. /\ warm' \subseteq Runs /\ orphan' \subseteq Runs /\ epoch' \subseteq Runs
          /\ killed' \subseteq Runs
      BY <1>26 DEF StopUntracks, ReleasePool, InPool
    <3>. QED
      BY <1>26, <3>1, <3>2, <3>3 DEF StopUntracks
  <2>2. \A q \in Runs : Lived(q)'
    BY <1>26 DEF StopUntracks, ReleasePool, InPool
  <2>3. WarmCalls' /\ ProcCalls'
    BY <1>26 DEF StopUntracks, ReleasePool, InPool
  <2>4. \A q \in killed' : Down(q)'
    BY <1>26 DEF StopUntracks, ReleasePool, InPool
  <2>. QED
    BY <2>1, <2>2, <2>3, <2>4
<1>27. CASE StopUnlocks
    BY <1>27 DEF StopUnlocks, Idle
<1>28. ASSUME NEW r \in Runs, Disconnect(r) PROVE Inv'
  <2>1. TypeOK'
    BY <1>28, UntrackTyped DEF Disconnect
  <2>2. \A q \in Runs : Lived(q)'
    BY <1>28 DEF Disconnect, Untrack
  <2>3. WarmCalls' /\ ProcCalls'
    BY <1>28 DEF Disconnect, Untrack
  <2>4. \A q \in killed' : Down(q)'
    BY <1>28 DEF Disconnect, Untrack
  <2>. QED
    BY <2>1, <2>2, <2>3, <2>4
<1>29. ASSUME NEW r \in Runs, TaskCancelled(r) PROVE Inv'
  <2>1. TypeOK'
    BY <1>29, UntrackTyped DEF TaskCancelled
  <2>2. \A q \in Runs : Lived(q)'
    BY <1>29 DEF TaskCancelled, Untrack
  <2>3. WarmCalls' /\ ProcCalls'
    BY <1>29 DEF TaskCancelled, Untrack
  <2>4. \A q \in killed' : Down(q)'
    BY <1>29 DEF TaskCancelled, Untrack
  <2>. QED
    BY <2>1, <2>2, <2>3, <2>4
<1>30. CASE FlagExpires
  <2>1. TypeOK'
    BY ZenonT(60), <1>30 DEF FlagExpires
  <2>2. \A q \in Runs : Lived(q)'
    BY <1>30 DEF FlagExpires
  <2>3. WarmCalls' /\ ProcCalls'
    BY <1>30 DEF FlagExpires
  <2>4. \A q \in killed' : Down(q)'
    BY <1>30 DEF FlagExpires
  <2>. QED
    BY <2>1, <2>2, <2>3, <2>4
<1>31. CASE RegistrationExpires
  <2>1. TypeOK'
    BY ZenonT(60), <1>31 DEF RegistrationExpires
  <2>2. \A q \in Runs : Lived(q)'
    BY <1>31 DEF RegistrationExpires
  <2>3. WarmCalls' /\ ProcCalls'
    BY <1>31 DEF RegistrationExpires
  <2>4. \A q \in killed' : Down(q)'
    BY <1>31 DEF RegistrationExpires
  <2>. QED
    BY <2>1, <2>2, <2>3, <2>4
<1>32. CASE UNCHANGED vars
    BY <1>32 DEF vars
<1>. QED
    BY <1>1, <1>2, <1>3, <1>4, <1>5, <1>6, <1>7, <1>8, <1>9, <1>10, <1>11, <1>12,
       <1>13, <1>14, <1>15, <1>16, <1>17, <1>18, <1>19, <1>20, <1>21, <1>22, <1>23,
       <1>24, <1>25, <1>26, <1>27, <1>28, <1>29, <1>30, <1>31, <1>32,
       <1>1a
    DEF Next, RunStep, Quiet

\* Every reachable state of the runs satisfies Inv.
LEMMA Invariance == Spec => []Inv
BY Initially, Inductive, PTL DEF Spec

\* The variables keep their types; the retries of run_command stay in their bound.
THEOREM TypeCorrect == Spec => []TypeOK
<1>1. Inv => TypeOK
    BY DEF Inv
<1>. QED
    BY <1>1, Invariance, PTL

\* dbt that a cancel handler killed is not executed again, by the subprocess
\* fallback or by a retry, whatever else fails or is cancelled meanwhile.
THEOREM KilledForGood == Spec => []KilledStaysDown
<1>1. Inv => KilledStaysDown
    BY DEF Inv, TypeOK, Down, KilledStaysDown, Executing
<1>. QED
    BY <1>1, Invariance, PTL

-----------------------------------------------------------------------------
(* The row.                                                                *)

\* The end of a run, seen from its row: it is written once, by the last action
\* that serves the run.  That action leaves a terminal status, unless the run came
\* through POST /dbt/command.
RowStep(r) ==
    /\ loc[r] = "done" => loc'[r] = "done" /\ row'[r] = row[r]
    /\ /\ loc[r] # "done" /\ loc'[r] = "done"
       /\ Mode[r] # "sync"
       => row'[r] \in Terminal

\* No step writes the row of a run that has ended, and the last one settles it.
LEMMA EveryStepIsRowStep ==
    ASSUME Inv, [Next]_vars, NEW r \in Runs
    PROVE  RowStep(r)
<1> USE ConstantsAssumption
    DEF Inv, TypeOK, Terminal, RowStep, Goto, SetRow
<1>1. ASSUME NEW q \in Runs,
             \/ Submit(q) \/ SubmitStream(q) \/ Launch(q) \/ Prepare(q)
             \/ PrepareFails(q) \/ EnterSlot(q)
      PROVE  RowStep(r)
    BY <1>1 DEF Submit, SubmitStream, Launch, Prepare, PrepareFails, EnterSlot
<1>2. ASSUME NEW q \in Runs, Refused(q) \/ TakeLock(q) \/ LockTimeout(q)
      PROVE  RowStep(r)
    BY <1>2 DEF Refused, TakeLock, LockTimeout, RecordUnstarted
<1>3. ASSUME NEW q \in Runs,
             EnterPool(q) \/ WarmStart(q) \/ WarmDone(q) \/ WarmFails(q) \/ WriteResults(q)
      PROVE  RowStep(r)
    BY <1>3 DEF EnterPool, WarmStart, WarmDone, WarmFails, WriteResults
<1>4. ASSUME NEW q \in Runs,
             \/ Spawn(q) \/ Register(q) \/ ProcExits(q) \/ LeakedExits(q)
             \/ Collect(q) \/ ProcTimesOut(q)
      PROVE  RowStep(r)
    BY <1>4 DEF Spawn, Register, ProcExits, LeakedExits, Collect, ProcTimesOut
<1>5. ASSUME NEW q \in Runs, Retry(q) \/ Save(q) \/ Unlock(q) \/ Persist(q)
      PROVE  RowStep(r)
    BY <1>5 DEF Retry, Save, Unlock, Persist, FinalStatus
<1>6. ASSUME NEW q \in Runs, Disconnect(q) \/ TaskCancelled(q) PROVE RowStep(r)
    BY <1>6 DEF Disconnect, TaskCancelled
<1>7. ASSUME NEW w \in Workers, Stop(w) \/ \E q \in Runs : CancelRun(q, w)
      PROVE  RowStep(r)
    BY <1>7 DEF Stop, CancelRun
<1>8. ASSUME StopUntracks \/ StopUnlocks \/ FlagExpires \/ RegistrationExpires
      PROVE  RowStep(r)
    BY <1>8 DEF StopUntracks, StopUnlocks, FlagExpires, RegistrationExpires
<1>9. CASE UNCHANGED vars
    BY <1>9 DEF vars
<1>. QED
    BY <1>1, <1>2, <1>3, <1>4, <1>5, <1>6, <1>7, <1>8, <1>9 DEF Next, RunStep, Quiet

\* A terminal status is final, for every combination of entry points and cancels.
THEOREM TerminalStays == Spec => TerminalIsFinal
<1>1. Inv /\ [Next]_vars
        => [\A r \in Runs : row[r] \in Terminal => row'[r] = row[r]]_vars
    BY EveryStepIsRowStep DEF Inv, RowStep, Lived, Terminal
<1>. QED
    BY <1>1, Invariance, PTL DEF Spec, TerminalIsFinal

\* A run that came through launch_dbt_run or dbt_sse and was served to its end has
\* a terminal row.
THEOREM ServedSettle == Spec => []ServedRunsSettle
<1>1. Init => ServedRunsSettle
    BY DEF Init, ServedRunsSettle
<1>2. Inv /\ ServedRunsSettle /\ [Next]_vars => ServedRunsSettle'
    BY EveryStepIsRowStep DEF Inv, TypeOK, RowStep, ServedRunsSettle
<1>. QED
    BY <1>1, <1>2, Invariance, PTL DEF Spec

-----------------------------------------------------------------------------
(* Serialisation, as long as nobody cancels anything: every cancellation   *)
(* that is modelled breaks it (see the runs RunLifecycleForced and         *)
(* RunLifecycleLostClient).                                                *)

\* From the lock to its release.
Locked(r) == loc[r] \in {"asking", "queued", "warm", "spawn", "spawned", "proc",
                         "ended", "saved"}

\* dbt runs as a subprocess only for a coroutine that waits for it.
NoLeak == \A r \in Runs : proc[r] # "none" => loc[r] \in {"spawned", "proc"}

\* The key is that of the run between lock and release, and what was written
\* since that run sampled the mtime is its own.
Serial ==
    /\ stop = Idle
    /\ NoLeak
    /\ \A r \in Runs : Locked(r) => key = r
    /\ \A r \in fresh : Locked(r) => target = r
    /\ SnapshotIsOwn

\* Without cancellations every step keeps the order of the runs.
LEMMA SerialInductive ==
    ASSUME Cancels = {}, Inv, Serial, [Next]_vars
    PROVE  Serial'
<1> USE ConstantsAssumption
    DEF Inv, TypeOK, WarmCalls, ProcCalls, Serial, NoLeak, Locked, SnapshotIsOwn,
        Goto, SetRow, leases, files, workers, processes, history
<1>1. ASSUME NEW q \in Runs,
             \/ Submit(q) \/ SubmitStream(q) \/ Launch(q) \/ Prepare(q)
             \/ PrepareFails(q) \/ EnterSlot(q)
      PROVE  Serial'
    BY <1>1 DEF Submit, SubmitStream, Launch, Prepare, PrepareFails, EnterSlot
<1>2. ASSUME NEW q \in Runs, Refused(q) \/ LockTimeout(q) PROVE Serial'
    BY <1>2 DEF Refused, LockTimeout
<1>3. ASSUME NEW q \in Runs, TakeLock(q) PROVE Serial'
    BY <1>3 DEF TakeLock
<1>4. ASSUME NEW q \in Runs, WriteResults(q) PROVE Serial'
    BY <1>4 DEF WriteResults, Executing
<1>5. ASSUME NEW q \in Runs, EnterPool(q) \/ WarmStart(q) \/ WarmDone(q) \/ WarmFails(q)
      PROVE  Serial'
    BY <1>5 DEF EnterPool, WarmStart, WarmDone, WarmFails
<1>6. ASSUME NEW q \in Runs, Spawn(q) \/ Register(q) \/ ProcExits(q) \/ LeakedExits(q)
      PROVE  Serial'
    BY <1>6 DEF Spawn, Register, ProcExits, LeakedExits
<1>7. ASSUME NEW q \in Runs, Collect(q) \/ ProcTimesOut(q) PROVE Serial'
    BY <1>7 DEF Collect, ProcTimesOut
<1>8. ASSUME NEW q \in Runs, Save(q) PROVE Serial'
    BY <1>8 DEF Save
<1>9. ASSUME NEW q \in Runs, Retry(q) \/ Unlock(q) \/ Persist(q) PROVE Serial'
    BY <1>9 DEF Retry, Unlock, Persist
<1>10. ASSUME NEW q \in Runs, Disconnect(q) \/ TaskCancelled(q) PROVE Serial'
    BY <1>10 DEF Disconnect, TaskCancelled
<1>10a. ASSUME NEW w \in Workers, Stop(w) PROVE Serial'
    BY <1>10a DEF Stop
<1>10b. ASSUME NEW q \in Runs, NEW w \in Workers, CancelRun(q, w) PROVE Serial'
    BY <1>10b DEF CancelRun
<1>11. CASE StopUntracks \/ StopUnlocks
    BY <1>11 DEF StopUntracks, StopUnlocks, Idle
<1>12. CASE FlagExpires \/ RegistrationExpires
    BY <1>12 DEF FlagExpires, RegistrationExpires
<1>13. CASE UNCHANGED vars
    BY <1>13 DEF vars
<1>. QED
    BY <1>1, <1>2, <1>3, <1>4, <1>5, <1>6, <1>7, <1>8, <1>9, <1>10, <1>10a,
       <1>10b, <1>11, <1>12, <1>13 DEF Next, RunStep, Quiet

\* Without cancellations every reachable state is serial.
LEMMA Serialised ==
    ASSUME Cancels = {}
    PROVE  Spec => []Serial
<1>1. Init => Serial
    BY DEF Init, Serial, NoLeak, Locked, SnapshotIsOwn
<1>2. Inv /\ Serial /\ [Next]_vars => Serial'
    BY SerialInductive
<1>. QED
    BY <1>1, <1>2, Invariance, PTL DEF Spec

\* The project lock does serialise dbt, whatever is refused, times out, falls back
\* to a subprocess or is retried, as long as nobody cancels anything.
THEOREM DbtSerialised ==
    ASSUME Cancels = {}
    PROVE  Spec => []OneDbtAtATime
<1>1. Inv /\ Serial => OneDbtAtATime
    BY DEF Inv, TypeOK, WarmCalls, Serial, NoLeak, Locked, OneDbtAtATime, Executing
<1>. QED
    BY <1>1, Invariance, Serialised, PTL

\* The state that is saved under the lock holds the artifacts of its own run.
THEOREM SnapshotsOwned ==
    ASSUME Cancels = {}
    PROVE  Spec => []SnapshotIsOwn
<1>1. Serial => SnapshotIsOwn
    BY DEF Serial
<1>. QED
    BY <1>1, Serialised, PTL
=============================================================================
