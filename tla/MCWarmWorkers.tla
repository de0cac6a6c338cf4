--------------------------- MODULE MCWarmWorkers -----------------------------
(* WarmWorkers for TLC: three jobs of two projects.                         *)
EXTENDS WarmWorkers

CONSTANTS j1, j2, j3, x, y

ThreeJobs == {j1, j2, j3}
TwoProjects == {x, y}
LastApart == [j \in Jobs |-> IF j = j3 THEN y ELSE x]
=============================================================================
