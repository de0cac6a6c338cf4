-------------------------- MODULE MCRunnerStartup ----------------------------
(***************************************************************************)
(* The workers of the runner for TLC: what they do when they start, and    *)
(* the scheduler each of them then runs.  The two share no state, so each  *)
(* behaviour exercises one of them, chosen at the start.                   *)
(***************************************************************************)
EXTENDS RunnerStartup, SchedulerLeader, TLC

VARIABLE focus

MCInit ==
    /\ focus \in {"start", "leader"}
    /\ Init
    /\ LeaderInit /\ (focus = "start" => redisUp)

MCNext ==
    /\ UNCHANGED focus
    /\ IF focus = "start" THEN Next ELSE UNCHANGED vars
    /\ IF focus = "leader" THEN LeaderNext ELSE UNCHANGED leaderVars

MCSpec == MCInit /\ [][MCNext]_<<focus, vars, leaderVars>> /\ LeaderFairness

Symmetry == Permutations(Workers) \cup Permutations(Runs)
=============================================================================
