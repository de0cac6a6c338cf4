-------------------------- MODULE MCGlobalSemaphore --------------------------
(* GlobalSemaphore for TLC: model values for the tokens.                    *)
EXTENDS GlobalSemaphore

CONSTANTS h1, h2, r1, q1

MCHttp == {h1, h2}
MCRun == {r1}
MCQuery == {q1}
=============================================================================
