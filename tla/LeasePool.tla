------------------------------ MODULE LeasePool ------------------------------
(***************************************************************************)
(* What a lease-backed lock or semaphore promises: of the callers whose    *)
(* lease is in order, at most Limit are in their body at any time.  A      *)
(* caller leaves when its body ends, when its process dies and when its    *)
(* lease is taken from it or no longer renewed.                            *)
(***************************************************************************)
EXTENDS Naturals, FiniteSets

CONSTANTS Callers, Limit

VARIABLE holders

Init == holders = {}

Enter(c) ==
    /\ c \notin holders
    /\ Cardinality(holders) < Limit
    /\ holders' = holders \cup {c}

Leave(c) ==
    /\ c \in holders
    /\ holders' = holders \ {c}

Next == \E c \in Callers : Enter(c) \/ Leave(c)

Spec == Init /\ [][Next]_holders
=============================================================================
