--------------------------- MODULE ResourceDialogs ----------------------------
(***************************************************************************)
(* ListResourcesDialog.tsx (dbt ls) and RunOperationDialog.tsx (macros),   *)
(* with the helpers of resources.ts and macros.ts.  Both stay mounted      *)
(* while closed, and neither orders the answers of its requests.           *)
(***************************************************************************)
EXTENDS Naturals, Sequences, FiniteSets

CONSTANTS
    LsTargets,      \* targets, also what the rows of an answer belong to
    Macros,         \* the macros of the manifest
    Arguments(_),   \* the signature of a macro
    Internal,       \* macros listed only with includeInternal
    Custom,         \* a macro name the user types
    NoMacro,
    MaxDialogSteps

ASSUME DialogsAssumption ==
    Internal \subseteq Macros /\ NoMacro \notin Macros \cup {Custom} /\ MaxDialogSteps \in Nat

VARIABLES
    lsOpen, lsTarget, lsRows, lsCalls,
    lsOverlap,      \* ghost: two requests have been under way at once
    opOpen, macros, includeInternal, selectedMacroId, isCustomMacro, argValues,
    macroCalls, running, operation, dialogSteps

lsVars == <<lsOpen, lsTarget, lsRows, lsCalls, lsOverlap>>
opVars == <<opOpen, macros, includeInternal, selectedMacroId, isCustomMacro, argValues,
            macroCalls, running, operation>>
dialogVars == <<lsVars, opVars, dialogSteps>>

DialogsInit ==
    /\ lsOpen = FALSE /\ lsTarget \in LsTargets /\ lsRows = {} /\ lsCalls = {}
    /\ lsOverlap = FALSE
    /\ opOpen = FALSE /\ macros = {} /\ includeInternal = FALSE /\ selectedMacroId = NoMacro
    /\ isCustomMacro = FALSE /\ argValues = {} /\ macroCalls = {} /\ running = FALSE
    /\ operation = {} /\ dialogSteps = 0

Click == dialogSteps < MaxDialogSteps /\ dialogSteps' = dialogSteps + 1

\* fetchResources for target t.
Fetch(t) == /\ lsCalls' = lsCalls \cup {[target |-> t, n |-> dialogSteps]}
            /\ lsOverlap' = (lsOverlap \/ lsCalls # {})
            /\ UNCHANGED lsRows

\* The effect on [open, fetchResources]: opening and every change of the
\* request refetch; the button refetches too, unless one is under way.
OpenLs == /\ Click /\ ~lsOpen
          /\ lsOpen' = TRUE /\ Fetch(lsTarget) /\ UNCHANGED <<lsTarget, opVars>>
CloseLs == /\ Click /\ lsOpen /\ lsOpen' = FALSE
           /\ UNCHANGED <<lsTarget, lsRows, lsCalls, lsOverlap, opVars>>
SetTarget(t) == /\ Click /\ lsOpen /\ t # lsTarget
                /\ lsTarget' = t /\ Fetch(t) /\ UNCHANGED <<lsOpen, opVars>>
RefreshLs == /\ Click /\ lsOpen /\ lsCalls = {}
             /\ Fetch(lsTarget) /\ UNCHANGED <<lsOpen, lsTarget, opVars>>

\* A failure keeps the rows of before and shows the error; loading ends.
LsAnswer(c, ok) ==
    /\ c \in lsCalls
    /\ lsCalls' = lsCalls \ {c}
    /\ lsRows' = IF ok THEN {c.target} ELSE lsRows
    /\ lsOverlap' = (lsOverlap \/ ~ok)
    /\ UNCHANGED <<lsOpen, lsTarget, opVars, dialogSteps>>

\* The macro list of a request and what it does to the form: the effect on
\* selectedMacro resets the arguments whenever the object changes.
selectedMacro(id, list) == IF id \in list THEN id ELSE NoMacro
DefaultArgs(m) == IF m \in Macros THEN Arguments(m) ELSE {}

OpenOperation ==
    /\ Click /\ ~opOpen
    /\ opOpen' = TRUE /\ operation' = {}
    /\ macroCalls' = macroCalls \cup {[internal |-> includeInternal, n |-> dialogSteps]}
    /\ UNCHANGED <<macros, includeInternal, selectedMacroId, isCustomMacro, argValues, running,
                   lsVars>>
CloseOperation ==
    /\ Click /\ opOpen /\ ~running /\ opOpen' = FALSE
    /\ UNCHANGED <<macros, includeInternal, selectedMacroId, isCustomMacro, argValues,
                   macroCalls, running, operation, lsVars>>
ToggleInternal ==
    /\ Click /\ opOpen /\ ~isCustomMacro
    /\ includeInternal' = ~includeInternal
    /\ macroCalls' = macroCalls \cup {[internal |-> ~includeInternal, n |-> dialogSteps]}
    /\ operation' = {}
    /\ UNCHANGED <<opOpen, macros, selectedMacroId, isCustomMacro, argValues, running, lsVars>>

\* listMacros: a failure empties the list, and with it the form.
MacrosAnswer(c, ok) ==
    /\ c \in macroCalls
    /\ macroCalls' = macroCalls \ {c}
    /\ macros' = IF ~ok THEN {} ELSE IF c.internal THEN Macros ELSE Macros \ Internal
    /\ argValues' = DefaultArgs(selectedMacro(selectedMacroId, macros'))
    /\ UNCHANGED <<opOpen, includeInternal, selectedMacroId, isCustomMacro, running, operation,
                   lsVars, dialogSteps>>

SelectMacro(m) ==
    /\ Click /\ opOpen /\ ~isCustomMacro /\ macroCalls = {} /\ m \in macros
    /\ selectedMacroId' = m /\ argValues' = DefaultArgs(m)
    /\ UNCHANGED <<opOpen, macros, includeInternal, isCustomMacro, macroCalls, running,
                   operation, lsVars>>

\* The switch between the list and a typed name clears the selection.
ToggleCustom ==
    /\ Click /\ opOpen
    /\ isCustomMacro' = ~isCustomMacro
    /\ selectedMacroId' = NoMacro /\ argValues' = {}
    /\ UNCHANGED <<opOpen, macros, includeInternal, macroCalls, running, operation, lsVars>>

\* handleRun: a typed name or the selected macro, with the arguments of the
\* form; without either it only shows an error.
macroName == IF isCustomMacro THEN Custom ELSE selectedMacro(selectedMacroId, macros)
RunOperation ==
    /\ Click /\ opOpen /\ ~running /\ macroName # NoMacro
    /\ running' = TRUE
    /\ operation' = {[macro |-> macroName, args |-> argValues]}
    /\ UNCHANGED <<opOpen, macros, includeInternal, selectedMacroId, isCustomMacro, argValues,
                   macroCalls, lsVars>>
OperationAnswer ==
    /\ running /\ running' = FALSE
    /\ UNCHANGED <<opOpen, macros, includeInternal, selectedMacroId, isCustomMacro, argValues,
                   macroCalls, operation, lsVars, dialogSteps>>

DialogsNext ==
    \/ OpenLs
    \/ CloseLs
    \/ \E t \in LsTargets : SetTarget(t)
    \/ RefreshLs
    \/ \E c \in lsCalls, ok \in BOOLEAN : LsAnswer(c, ok)
    \/ OpenOperation
    \/ CloseOperation
    \/ ToggleInternal
    \/ \E c \in macroCalls, ok \in BOOLEAN : MacrosAnswer(c, ok)
    \/ \E m \in Macros : SelectMacro(m)
    \/ ToggleCustom
    \/ RunOperation
    \/ OperationAnswer
-----------------------------------------------------------------------------
\* RunOperationDialog says of a typed macro that it runs without arguments:
\* an operation never carries the arguments of another macro, whatever lists
\* arrive while the form is filled in.
ArgsBelong == \A o \in operation : o.args \subseteq DefaultArgs(o.macro)

\* As long as no two listings overlap and none fails, the rows of the settled
\* dialog are those of the target it shows.
RowsOfTarget == lsOpen /\ lsCalls = {} /\ ~lsOverlap => lsRows = {lsTarget}
=============================================================================
