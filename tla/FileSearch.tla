------------------------------ MODULE FileSearch ------------------------------
(***************************************************************************)
(* The search box of FileExplorer/index.tsx: one effect per query, whose   *)
(* clean-up sets "cancelled" and clears the 250 ms timer.  The requests of *)
(* cancelled effects are still answered, in any order.                     *)
(***************************************************************************)
EXTENDS Naturals

CONSTANTS
    Queries,        \* what the user may type; the empty box is ""
    MaxTyped        \* how often the user changes the box

ASSUME SearchAssumption == "" \notin Queries /\ MaxTyped \in Nat

VARIABLES
    query,          \* the box
    effects,        \* effects whose timer or request is under way
    results,        \* the query whose results are shown, "" when none are
    searchLoading,
    typed

searchVars == <<query, effects, results, searchLoading, typed>>

SearchInit ==
    query = "" /\ effects = {} /\ results = "" /\ searchLoading = FALSE /\ typed = 0

\* The clean-up of the last effect, then the new one.
TypeQuery(q) ==
    /\ q # query /\ typed < MaxTyped
    /\ typed' = typed + 1
    /\ query' = q
    /\ LET old == {[e EXCEPT !.cancelled = TRUE] : e \in {f \in effects : f.at = "sent"}}
       IN  IF q = "" THEN effects' = old /\ results' = "" /\ searchLoading' = FALSE
           ELSE /\ effects' = old \cup {[q |-> q, n |-> typed, at |-> "timer", cancelled |-> FALSE]}
                /\ UNCHANGED <<results, searchLoading>>

SearchStart(e) ==
    /\ e.at = "timer"
    /\ effects' = (effects \ {e}) \cup {[e EXCEPT !.at = "sent"]}
    /\ searchLoading' = TRUE
    /\ UNCHANGED <<query, results, typed>>

\* The answer, or the failure, of any request: a cancelled effect returns.
SearchAnswerLate(e, ok) ==
    /\ e.at = "sent"
    /\ effects' = effects \ {e}
    /\ results' = (IF ok THEN e.q ELSE "") /\ searchLoading' = FALSE
    /\ UNCHANGED <<query, typed>>
SearchAnswer(e, ok) ==
    /\ e.at = "sent"
    /\ effects' = effects \ {e}
    /\ IF e.cancelled THEN UNCHANGED <<results, searchLoading>>
       ELSE results' = (IF ok THEN e.q ELSE "") /\ searchLoading' = FALSE
    /\ UNCHANGED <<query, typed>>

SearchNext ==
    \/ \E q \in Queries \cup {""} : TypeQuery(q)
    \/ \E e \in effects : SearchStart(e)
    \/ \E e \in effects, ok \in BOOLEAN : SearchAnswer(e, ok)

\* The timer fires and every request is answered or fails.
SearchFairness ==
    /\ WF_searchVars(\E e \in effects : SearchStart(e))
    /\ WF_searchVars(\E e \in effects, ok \in BOOLEAN : SearchAnswer(e, ok))

SearchSpec == SearchInit /\ [][SearchNext]_searchVars /\ SearchFairness
-----------------------------------------------------------------------------
\* The results on screen only ever change to those of the query in the box,
\* or to nothing: the late answer of an abandoned query is dropped.
LateResultsDropped == [][results' # results => results' \in {query', ""}]_searchVars

\* The spinner of the search box stops, also when the box was cleared or the
\* query changed while a request was under way.
SearchSettled == ~searchLoading
=============================================================================
