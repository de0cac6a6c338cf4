-------------------------- MODULE ProjectLockProofs --------------------------
(***************************************************************************)
(* Proofs about ProjectLock, for any set of callers and any timing that    *)
(* satisfies TimingAssumption.                                             *)
(***************************************************************************)
EXTENDS ProjectLock, FiniteSetTheorems, TLAPS

\* A call whose lock is in order owns the key, and the age of the key and the
\* time since the renewal add up: with TimingAssumption the key cannot expire.
SoundOwnsKey ==
    \A c \in Callers : Sound(c) => key = c /\ ttl + since[c] >= LockTTL

\* Only a call that is in its body has a renewal task.
OnlyHoldersRenew == \A c \in Callers : renewing[c] => pc[c] = "holding"

\* A call sleeps only after an attempt made before its timeout.
SleepersInTime ==
    \A c \in Callers : pc[c] = "sleeping" => waitTime[c] < Timeout

\* The inductive invariant.
IInv == TypeOK /\ SleepersInTime /\ OnlyHoldersRenew /\ SoundOwnsKey

\* The type invariant is inductive with what bounds the waiting.
LEMMA TypeStep ==
    TypeOK /\ SleepersInTime /\ [Next]_vars => TypeOK' /\ SleepersInTime'
<1> SUFFICES ASSUME TypeOK, SleepersInTime, [Next]_vars
             PROVE TypeOK' /\ SleepersInTime'
  OBVIOUS
<1> USE TimingAssumption, CallersAssumption DEF TypeOK, SleepersInTime
<1>1. CASE UNCHANGED vars
  BY <1>1 DEF vars
<1>2. CASE Tick
  BY <1>2 DEF Tick
<1>3. CASE ForceRelease
  BY <1>3 DEF ForceRelease
<1>4. ASSUME NEW c \in Callers, Call(c) PROVE TypeOK' /\ SleepersInTime'
  BY <1>4 DEF Call
<1>5. ASSUME NEW c \in Callers, Acquire(c) PROVE TypeOK' /\ SleepersInTime'
  BY <1>5 DEF Acquire, SetNX
<1>6. ASSUME NEW c \in Callers, Retry(c) PROVE TypeOK' /\ SleepersInTime'
  BY <1>6 DEF Retry
<1>7. ASSUME NEW c \in Callers, GiveUp(c) PROVE TypeOK' /\ SleepersInTime'
  BY <1>7 DEF GiveUp
<1>8. ASSUME NEW c \in Callers, Renew(c) PROVE TypeOK' /\ SleepersInTime'
  BY <1>8 DEF Renew, RenewalDue
<1>9. ASSUME NEW c \in Callers, StopRenewing(c) PROVE TypeOK' /\ SleepersInTime'
  BY <1>9 DEF StopRenewing, RenewalDue
<1>10. ASSUME NEW c \in Callers, Release(c) PROVE TypeOK' /\ SleepersInTime'
  BY <1>10 DEF Release, DeleteOwn, Over
<1>11. ASSUME NEW c \in Callers, Abandon(c) PROVE TypeOK' /\ SleepersInTime'
  BY <1>11 DEF Abandon, Over
<1>12. QED
  BY <1>1, <1>2, <1>3, <1>4, <1>5, <1>6, <1>7, <1>8, <1>9, <1>10, <1>11
     DEF Next, Try, RenewStep

\* Init establishes the invariant.
LEMMA InitIInv == Init => IInv
BY TimingAssumption, CallersAssumption
   DEF Init, IInv, TypeOK, SleepersInTime, OnlyHoldersRenew, SoundOwnsKey, Sound, Holding

\* Every step keeps it.
LEMMA StepIInv == IInv /\ [Next]_vars => IInv'
<1> SUFFICES ASSUME IInv, [Next]_vars PROVE OnlyHoldersRenew' /\ SoundOwnsKey'
  BY TypeStep DEF IInv
<1> USE TimingAssumption, CallersAssumption
    DEF IInv, TypeOK, OnlyHoldersRenew, SoundOwnsKey, Sound, Holding
<1>1. CASE UNCHANGED vars
  BY <1>1 DEF vars
<1>2. CASE Tick
  BY <1>2 DEF Tick
<1>3. CASE ForceRelease
  BY <1>3 DEF ForceRelease
<1>4. ASSUME NEW c \in Callers, Call(c) PROVE OnlyHoldersRenew' /\ SoundOwnsKey'
  BY <1>4 DEF Call
<1>5. ASSUME NEW c \in Callers, Acquire(c) PROVE OnlyHoldersRenew' /\ SoundOwnsKey'
  BY <1>5 DEF Acquire, SetNX
<1>6. ASSUME NEW c \in Callers, Retry(c) PROVE OnlyHoldersRenew' /\ SoundOwnsKey'
  BY <1>6 DEF Retry
<1>7. ASSUME NEW c \in Callers, GiveUp(c) PROVE OnlyHoldersRenew' /\ SoundOwnsKey'
  BY <1>7 DEF GiveUp
<1>8. ASSUME NEW c \in Callers, Renew(c) PROVE OnlyHoldersRenew' /\ SoundOwnsKey'
  BY <1>8 DEF Renew, RenewalDue
<1>9. ASSUME NEW c \in Callers, StopRenewing(c)
      PROVE OnlyHoldersRenew' /\ SoundOwnsKey'
  BY <1>9 DEF StopRenewing, RenewalDue
<1>10. ASSUME NEW c \in Callers, Release(c) PROVE OnlyHoldersRenew' /\ SoundOwnsKey'
  BY <1>10 DEF Release, DeleteOwn, Over
<1>11. ASSUME NEW c \in Callers, Abandon(c) PROVE OnlyHoldersRenew' /\ SoundOwnsKey'
  BY <1>11 DEF Abandon, Over
<1>12. QED
  BY <1>1, <1>2, <1>3, <1>4, <1>5, <1>6, <1>7, <1>8, <1>9, <1>10, <1>11
     DEF Next, Try, RenewStep

\* The invariant holds in every reachable state.
THEOREM Invariance == Spec => []IInv
BY InitIInv, StepIInv, PTL DEF Spec

\* The variables keep their types.
THEOREM TypeCorrect == Spec => []TypeOK
<1>1. IInv => TypeOK
  BY DEF IInv
<1>2. QED
  BY <1>1, Invariance, PTL

\* Bodies whose AsyncFileLock is in order exclude each other.
THEOREM MutualExclusion == Spec => []SoundHoldersExclude
<1>1. IInv => SoundHoldersExclude
  BY DEF IInv, SoundOwnsKey, SoundHoldersExclude
<1>2. QED
  BY <1>1, Invariance, PTL

\* A renewed key is lost only by the end of the body or by force_release.
THEOREM NoTheft == Spec => KeyOnlyLostByForce
<1>1. ASSUME IInv, IInv', [Next]_vars
      PROVE [\A c \in Callers :
               Sound(c) /\ key' # c => pc'[c] = "idle" \/ c \in forced']_vars
  <2> SUFFICES ASSUME Next, NEW c \in Callers, Sound(c), key' # c
               PROVE pc'[c] = "idle" \/ c \in forced'
    BY <1>1
  <2>1. ~Sound(c)'
    BY <1>1 DEF IInv, SoundOwnsKey
  <2> USE TimingAssumption, CallersAssumption, <1>1, <2>1
      DEF IInv, TypeOK, OnlyHoldersRenew, SoundOwnsKey, Sound, Holding
  <2>2. CASE Tick
    BY <2>2 DEF Tick
  <2>3. CASE ForceRelease
    BY <2>3 DEF ForceRelease
  <2>4. ASSUME NEW d \in Callers, Call(d) \/ Try(d)
        PROVE pc'[c] = "idle" \/ c \in forced'
    BY <2>4 DEF Call, Try, Acquire, SetNX, Retry, GiveUp
  <2>5. ASSUME NEW d \in Callers, RenewStep(d)
        PROVE pc'[c] = "idle" \/ c \in forced'
    BY <2>5 DEF RenewStep, Renew, StopRenewing, RenewalDue
  <2>6. ASSUME NEW d \in Callers, Release(d) \/ Abandon(d)
        PROVE pc'[c] = "idle" \/ c \in forced'
    BY <2>6 DEF Release, DeleteOwn, Abandon, Over
  <2>7. QED
    BY <2>2, <2>3, <2>4, <2>5, <2>6 DEF Next
<1>2. QED
  BY <1>1, Invariance, PTL DEF Spec, KeyOnlyLostByForce

\* ProjectLock implements LeasePool with one place.
THEOREM Refinement == Spec => PromiseSpec
<1> DEFINE H == {c \in Callers : Sound(c)}
<1>1. Init => Promise!Init
  BY DEF Init, Promise!Init, Sound, Holding
<1>2. ASSUME IInv, IInv', [Next]_vars PROVE [Promise!Next]_H
  <2>0. \A c, d \in Callers : (Sound(c) /\ Sound(d) => c = d)
                              /\ (Sound(c)' /\ Sound(d)' => c = d)
    BY <1>2 DEF IInv, SoundOwnsKey
  <2>1. ASSUME NEW c \in Callers, Acquire(c) PROVE [Promise!Next]_H
    <3>1. H = {}
      BY <1>2, <2>1, CallersAssumption DEF IInv, SoundOwnsKey, Acquire, SetNX
    <3>2. H' = H \/ H' = H \cup {c}
      BY <1>2, <2>0, <2>1, <3>1
         DEF Acquire, SetNX, Sound, Holding, IInv, TypeOK
    <3>3. Promise!Cardinality(H) < 1
      <4>1. Promise!Cardinality(H) = Cardinality(H)
        BY DEF Promise!Cardinality, Cardinality
      <4>2. QED
        BY <3>1, <4>1, FS_EmptySet
    <3>4. QED
      BY <3>1, <3>2, <3>3 DEF Promise!Next, Promise!Enter
  <2>2. ASSUME \A d \in Callers : Sound(d)' => Sound(d) PROVE [Promise!Next]_H
    <3>1. H' \subseteq H
      BY <2>2
    <3>2. CASE H' = H
      BY <3>2
    <3>3. CASE H' # H
      <4>1. PICK c \in Callers : c \in H /\ c \notin H'
        BY <3>1, <3>3
      <4>2. H' = H \ {c}
        BY <2>0, <3>1, <4>1
      <4>3. QED
        BY <4>1, <4>2 DEF Promise!Next, Promise!Leave
    <3>4. QED
      BY <3>2, <3>3
  <2> USE <1>2 DEF Sound, Holding, IInv, TypeOK
  <2>3. CASE UNCHANGED vars
    BY <2>2, <2>3 DEF vars
  <2>4. CASE Tick \/ ForceRelease
    <3>1. \A d \in Callers : Sound(d)' => Sound(d)
      BY <2>4 DEF Tick, ForceRelease
    <3>2. QED
      BY <2>2, <3>1
  <2>5. ASSUME NEW c \in Callers, Call(c) \/ Retry(c) \/ GiveUp(c)
        PROVE \A d \in Callers : Sound(d)' => Sound(d)
    BY <2>5 DEF Call, Retry, GiveUp
  <2>6. ASSUME NEW c \in Callers, RenewStep(c)
        PROVE \A d \in Callers : Sound(d)' => Sound(d)
    BY <2>6 DEF RenewStep, Renew, StopRenewing, RenewalDue
  <2>7. ASSUME NEW c \in Callers, Release(c) \/ Abandon(c)
        PROVE \A d \in Callers : Sound(d)' => Sound(d)
    BY <2>7 DEF Release, Abandon, Over
  <2>8. QED
    BY <2>1, <2>2, <2>3, <2>4, <2>5, <2>6, <2>7 DEF Next, Try
<1>3. QED
  BY <1>1, <1>2, Invariance, PTL DEF Spec, PromiseSpec, Promise!Spec
=============================================================================
