--------------------------- MODULE MCRunLifecycle ----------------------------
(* RunLifecycle for TLC: which run came through which entry point, and which *)
(* worker serves it.                                                         *)
EXTENDS RunLifecycle

CONSTANTS a, b, c, w1, w2

TwoRuns == {a, b}
ThreeRuns == {a, b, c}
OneWorker == {w1}
TwoWorkers == {w1, w2}

AllOnOne == [r \in Runs |-> w1]
Apart == [r \in Runs |-> IF r = a THEN w1 ELSE w2]

AllBackground == [r \in Runs |-> "background"]
AllStream == [r \in Runs |-> "stream"]
Mixed == [r \in Runs |-> CASE r = a -> "background"
                           [] r = b -> "stream"
                           [] OTHER -> "sync"]
SyncAndStream == [r \in Runs |-> IF r = a THEN "sync" ELSE "stream"]
Served == [r \in Runs |-> IF r = a THEN "background" ELSE "stream"]

NoCancel == {}
ByProcess == {"process"}
ByRun == {"run"}
AnyCancel == {"process", "run", "task", "disconnect"}
=============================================================================
