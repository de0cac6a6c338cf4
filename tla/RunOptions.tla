------------------------------ MODULE RunOptions ------------------------------
(***************************************************************************)
(* The run options of the IDE: RunOptionsDialog.tsx, the pure helpers of   *)
(* run-options.ts and dbt-command-args.ts, and the part of DevelopLayout   *)
(* that stores the options and puts them into a request.                   *)
(*                                                                         *)
(* A free text is one of "none", "good" (its validator accepts it) and     *)
(* "bad"; an event time is a number, 0 for none.  A command is its name    *)
(* and whether it carries --select.                                        *)
(***************************************************************************)
EXTENDS Naturals, Sequences, FiniteSets, SequencesExt

CONSTANTS
    AllTargets,     \* the targets other than dev, those of the project first
    ProjectTargets, \* those the project declares
    NoTarget,
    MaxEdits        \* fields changed, commands run and reloads

ASSUME OptionsAssumption ==
    /\ ProjectTargets \subseteq ToSet(AllTargets)
    /\ NoTarget \notin ToSet(AllTargets) /\ MaxEdits \in Nat

Given == {"none", "good", "bad"}
EMPTY_COMMANDS == {"run", "build", "compile", "snapshot"}
SAMPLE_COMMANDS == {"run", "build"}
FULL_REFRESH_COMMANDS == {"run", "build", "clone", "compile", "retry", "seed", "show"}
SELECTOR_COMMANDS == {"run", "build", "test", "seed", "snapshot", "compile", "show", "ls",
                      "clone", "docs", "source"}

NoOptions == [vars |-> "none", empty |-> FALSE, sample |-> "none", start |-> 0, end |-> 0,
              full |-> "unset", selector |-> "none", state |-> NoTarget,
              defer |-> FALSE, favor |-> FALSE]

VARIABLES
    runOptions, dbtFullRefresh,
    stored,         \* both, in localStorage
    dialogOpen, localOptions, validationError,
    stateTargets,   \* the dialog's list: targets with a manifest
    listing,        \* listState calls under way: of the open dialog, of its button
    serverState,    \* external: targets whose state the runner has saved
    request,        \* the last request sent, {} before the first
    touched,        \* ghost: the dialog was edited since it opened
    edits

optionsVars == <<runOptions, dbtFullRefresh, stored, dialogOpen, localOptions, validationError,
                 stateTargets, listing, serverState, request, touched, edits>>

OptionsInit ==
    /\ runOptions = NoOptions /\ dbtFullRefresh = FALSE
    /\ stored = [options |-> NoOptions, full |-> FALSE]
    /\ dialogOpen = FALSE /\ localOptions = NoOptions /\ validationError = FALSE
    /\ stateTargets = {} /\ listing = {} /\ serverState \in SUBSET ToSet(AllTargets)
    /\ request = {} /\ touched = FALSE /\ edits = 0

\* resolveStateTargets: the candidates in order, the chosen one, and whether it has state.
Candidates == ToSet(AllTargets) \cap (ProjectTargets \cup stateTargets)
FirstOf(S) == IF S = {} THEN NoTarget
              ELSE AllTargets[CHOOSE i \in DOMAIN AllTargets :
                      AllTargets[i] \in S /\ \A j \in 1 .. i - 1 : AllTargets[j] \notin S]
selectedTarget(current) ==
    IF current \in Candidates THEN current
    ELSE IF Candidates \cap stateTargets # {} THEN FirstOf(Candidates \cap stateTargets)
    ELSE FirstOf(Candidates)
hasState(current) == selectedTarget(current) \in stateTargets

\* validateEventTime: both or neither, and in order.
EventTimeValid(o) == (o.start = 0 /\ o.end = 0) \/ (o.start # 0 /\ o.end # 0 /\ o.start < o.end)
\* validateVars, validateSample and validateSelectorName of what was typed.
validateVars(o) == o.vars # "bad"
validateSample(o) == o.sample # "bad"
validateSelectorName(o) == o.selector # "bad"
Valid(o) == validateVars(o) /\ validateSample(o) /\ validateSelectorName(o) /\ EventTimeValid(o)

User == edits < MaxEdits /\ edits' = edits + 1

\* The effects that run when the dialog opens: its own copy, its own listing.
OpenDialog ==
    /\ ~dialogOpen
    /\ dialogOpen' = TRUE /\ localOptions' = runOptions /\ validationError' = FALSE
    /\ listing' = listing \cup {"open"} /\ touched' = FALSE
    /\ UNCHANGED <<runOptions, dbtFullRefresh, stored, stateTargets, serverState, request, edits>>

CloseDialog ==
    /\ dialogOpen
    /\ dialogOpen' = FALSE /\ listing' = listing \ {"open"}
    /\ UNCHANGED <<runOptions, dbtFullRefresh, stored, localOptions, validationError,
                   stateTargets, serverState, request, touched, edits>>

\* loadState empties the list when it fails, and is ignored once the dialog
\* has closed; handleManualRefreshState keeps the list, and its answer counts
\* even then.
StateListed(by, ok) ==
    /\ by \in listing /\ listing' = listing \ {by}
    /\ stateTargets' = IF ok THEN serverState
                       ELSE IF by = "open" THEN {} ELSE stateTargets
    /\ UNCHANGED <<runOptions, dbtFullRefresh, stored, dialogOpen, localOptions,
                   validationError, serverState, request, touched, edits>>

RefreshState ==
    /\ dialogOpen /\ listing = {}
    /\ listing' = {"refresh"}
    /\ UNCHANGED <<runOptions, dbtFullRefresh, stored, dialogOpen, localOptions,
                   validationError, stateTargets, serverState, request, touched, edits>>

ChangeLocal(o) ==
    /\ User /\ dialogOpen
    /\ localOptions' = o /\ touched' = TRUE
    /\ UNCHANGED <<runOptions, dbtFullRefresh, stored, dialogOpen, validationError,
                   stateTargets, listing, serverState, request>>

\* The controls of the tabs "flags" and "vars".
EditVars == \E v \in Given : ChangeLocal([localOptions EXCEPT !.vars = v])
ToggleFullRefresh == ChangeLocal([localOptions EXCEPT !.full = IF @ = "on" THEN "off" ELSE "on"])
ToggleEmpty == ChangeLocal([localOptions EXCEPT !.empty = ~@])
EditSample == \E v \in Given : ChangeLocal([localOptions EXCEPT !.sample = v])
EditEventTime ==
    \E t \in 0 .. 2 : \/ ChangeLocal([localOptions EXCEPT !.start = t])
                      \/ ChangeLocal([localOptions EXCEPT !.end = t])
EditSelector == \E v \in Given : ChangeLocal([localOptions EXCEPT !.selector = v])

\* The tab "state": defer needs a target with state, favor needs defer, and
\* unticking defer unticks favor.
ChooseState == \E t \in Candidates : ChangeLocal([localOptions EXCEPT !.state = t])
TickDefer ==
    /\ hasState(localOptions.state)
    /\ \E b \in BOOLEAN : ChangeLocal([localOptions EXCEPT !.defer = b, !.favor = b /\ @])
TickFavor ==
    /\ hasState(localOptions.state) /\ localOptions.defer
    /\ ChangeLocal([localOptions EXCEPT !.favor = ~@])

\* handleClearAll
ClearAll ==
    ChangeLocal([NoOptions EXCEPT !.full = "off", !.state = FirstOf(Candidates)])

\* handleApply: the final options, and onOptionsChange with the effects that
\* store what it sets.
Final(o) == [o EXCEPT !.state = selectedTarget(o.state),
                      !.defer = hasState(o.state) /\ @,
                      !.favor = hasState(o.state) /\ o.defer /\ @]
Commit(o) == /\ runOptions' = o
             /\ dbtFullRefresh' = IF o.full = "unset" THEN dbtFullRefresh ELSE o.full = "on"
             /\ stored' = [options |-> o, full |-> dbtFullRefresh']
Apply ==
    /\ dialogOpen
    /\ \/ /\ ~Valid(localOptions)
          /\ validationError' = TRUE
          /\ UNCHANGED <<runOptions, dbtFullRefresh, stored, dialogOpen, listing>>
       \/ /\ Valid(localOptions)
          /\ Commit(Final(localOptions))
          /\ dialogOpen' = FALSE /\ listing' = listing \ {"open"}
          /\ UNCHANGED validationError
    /\ UNCHANGED <<localOptions, stateTargets, serverState, request, touched, edits>>

\* buildRunOptionsPayload: each option only for the commands that take it.
buildRunOptionsPayload(o, name) ==
    [vars |-> o.vars = "good",
     empty |-> o.empty /\ name \in EMPTY_COMMANDS,
     sample |-> o.sample = "good" /\ name \in SAMPLE_COMMANDS,
     times |-> IF o.start # 0 /\ o.end # 0 /\ name \in SAMPLE_COMMANDS /\ EventTimeValid(o)
               THEN {o.start, o.end} ELSE {},
     full |-> o.full = "on" /\ name \in FULL_REFRESH_COMMANDS,
     selector |-> o.selector # "none" /\ name \in SELECTOR_COMMANDS,
     state |-> o.state,
     defer |-> o.state # NoTarget /\ o.defer,
     favor |-> o.state # NoTarget /\ o.defer /\ o.favor]

\* stripModelSelection, called when the payload names a selector.
SelectionKept(select, payload) == select
stripModelSelection(select, payload) == select /\ ~payload.selector

\* handleRunDbt: the toolbar's flag or the dialog's, then the caller's own options.
Request(name, select, o) ==
    LET payload == buildRunOptionsPayload(
                       [o EXCEPT !.full = IF dbtFullRefresh THEN "on" ELSE @], name)
    IN  [name |-> name, select |-> stripModelSelection(select, payload),
         options |-> payload]

SendRequest(r) == /\ request' = {r}
           /\ UNCHANGED <<runOptions, dbtFullRefresh, stored, localOptions, validationError,
                          stateTargets, serverState, touched>>

RunDbtCommand(name, select) ==
    /\ User /\ ~dialogOpen
    /\ SendRequest(Request(name, select, runOptions))
    /\ UNCHANGED <<dialogOpen, listing>>

\* handleRunBuildModified, from the dialog, for a target with state.
RunBuildModified ==
    /\ User /\ dialogOpen /\ hasState(localOptions.state)
    /\ SendRequest(Request("build", TRUE,
                    [runOptions EXCEPT !.state = selectedTarget(localOptions.state),
                                       !.defer = TRUE]))
    /\ dialogOpen' = FALSE /\ listing' = listing \ {"open"}

\* The IDE is opened again: the effects that restore what was stored.
ReloadOptions ==
    /\ User
    /\ runOptions' = stored.options
    /\ dbtFullRefresh' = IF stored.options.full = "unset" THEN stored.full
                         ELSE stored.options.full = "on"
    /\ dialogOpen' = FALSE /\ listing' = {} /\ stateTargets' = {}
    /\ localOptions' = stored.options /\ validationError' = FALSE /\ touched' = FALSE
    /\ UNCHANGED <<stored, serverState, request>>

\* External: a run on another target succeeds, and the runner keeps its state.
StateSaved ==
    /\ \E t \in ProjectTargets \ serverState : serverState' = serverState \cup {t}
    /\ UNCHANGED <<runOptions, dbtFullRefresh, stored, dialogOpen, localOptions,
                   validationError, stateTargets, listing, request, touched, edits>>

OptionsNext ==
    \/ OpenDialog
    \/ CloseDialog
    \/ \E by \in listing, ok \in BOOLEAN : StateListed(by, ok)
    \/ RefreshState
    \/ EditVars \/ ToggleFullRefresh \/ ToggleEmpty \/ EditSample \/ EditEventTime \/ EditSelector
    \/ ChooseState \/ TickDefer \/ TickFavor
    \/ ClearAll
    \/ Apply
    \/ \E name \in {"run", "test", "compile"}, select \in BOOLEAN : RunDbtCommand(name, select)
    \/ RunBuildModified
    \/ ReloadOptions
    \/ StateSaved
-----------------------------------------------------------------------------
\* DevelopLayout and stripModelSelection: the runner refuses a request with
\* both --select and a named selector, an incomplete or empty time window,
\* and deferral without a state target.  No sequence of edits, applies,
\* reloads and runs produces such a request.
RequestConsistent ==
    \A r \in request :
        /\ ~(r.select /\ r.options.selector)
        /\ Cardinality(r.options.times) # 1
        /\ r.options.favor => r.options.defer
        /\ r.options.defer => r.options.state # NoTarget

\* A full refresh drops tables, so it happens only while the options dialog
\* would show it ticked: the toolbar's flag, which is stored under its own
\* key, never outlives the option.
FullRefreshShown == dbtFullRefresh => runOptions.full = "on"

\* Opening the dialog and applying it without an edit, once its target has
\* been listed with state, changes no option that an earlier Apply made.
UntouchedApply ==
    [][Apply /\ ~touched /\ ~dialogOpen' /\ runOptions.state \in stateTargets
       => runOptions' = runOptions]_optionsVars
=============================================================================
