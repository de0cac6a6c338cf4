---------------------------- MODULE ProjectTargets ----------------------------
(***************************************************************************)
(* The targets of a project: TargetsPanel.tsx on the Environments tab of   *)
(* ProjectSettingsDialog.tsx, projects/server.ts behind it, the target     *)
(* every command carries (dbtTarget of DevelopLayout.tsx), and the state   *)
(* artifacts the runner keeps under a target's name.  "dev" is the         *)
(* project's own connection and no row.  The handlers of a panel that is   *)
(* left go on, but what they show is lost with it.                         *)
(***************************************************************************)
EXTENDS Naturals, FiniteSets

CONSTANTS TargetNames, DEFAULT_DBT_TARGET, MaxTargets, MaxTargetSteps

ASSUME TargetAssumption ==
    DEFAULT_DBT_TARGET \notin TargetNames /\ {MaxTargets, MaxTargetSteps} \subseteq Nat

VARIABLES
    targetRows,     \* project_targets: [id, name]
    lastTarget,     \* ids are given in order
    panelOpen, targets,     \* the panel and the rows it shows
    dbtTarget,
    targetEdit,     \* the mutation under way (busy), or NoTargetEdit
    listing,        \* reads of the rows under way
    artifacts,      \* state kept under a name: the id of the row whose run saved it, 0 if none
    dbtRuns,        \* runs under way on a row
    connecting,     \* the targets that were selected when a change of dev's connection began
    crossed,        \* history: a change went on while a panel that opened read the rows
    kept,           \* history: artifacts outlived their row
    targetSteps

targetVars == <<targetRows, lastTarget, panelOpen, targets, dbtTarget, targetEdit, listing,
                artifacts, dbtRuns, connecting, crossed, kept, targetSteps>>

NoTargetEdit == [kind |-> "none", row |-> [id |-> 0, name |-> DEFAULT_DBT_TARGET],
                 name |-> DEFAULT_DBT_TARGET, wasActive |-> FALSE, here |-> FALSE, phase |-> "none"]
Names(rows) == {r.name : r \in rows}

TargetInit ==
    /\ targetRows = {} /\ lastTarget = 0
    /\ panelOpen = FALSE /\ targets = {} /\ dbtTarget = DEFAULT_DBT_TARGET
    /\ targetEdit = NoTargetEdit /\ listing = {} /\ dbtRuns = {}
    /\ artifacts = [n \in TargetNames |-> 0]
    /\ connecting = {} /\ crossed = FALSE /\ kept = FALSE /\ targetSteps = 0

TargetStep == targetSteps < MaxTargetSteps /\ targetSteps' = targetSteps + 1
\* The effect: a target that is not among the rows shown gives way to dev.
NoFallback(t, rows) == t
Settled(t, rows) ==
    IF t \in Names(rows) \cup {DEFAULT_DBT_TARGET} THEN t ELSE DEFAULT_DBT_TARGET
-----------------------------------------------------------------------------
\* The tab is shown: an empty list, the effect on it, and load.
OpenPanel ==
    /\ ~panelOpen /\ TargetStep
    /\ panelOpen' = TRUE /\ targets' = {} /\ dbtTarget' = Settled(dbtTarget, {})
    /\ listing' = listing \cup {[of |-> "mount", read |-> FALSE, rows |-> {}]}
    /\ UNCHANGED <<targetRows, lastTarget, targetEdit, artifacts, dbtRuns, connecting, crossed, kept>>
\* Another tab, or the dialog closed.
LeavePanel ==
    /\ panelOpen /\ panelOpen' = FALSE /\ crossed' = (crossed \/ targetEdit # NoTargetEdit)
    /\ listing' = {l \in listing : l.of # "mount"}
    /\ targetEdit' = [targetEdit EXCEPT !.here = FALSE]
    /\ UNCHANGED <<targetRows, lastTarget, targets, dbtTarget, artifacts, dbtRuns, connecting,
                   kept, targetSteps>>

\* The radio buttons, which a mutation under way does not disable.
SelectTarget(t) ==
    /\ panelOpen /\ TargetStep /\ t \in Names(targets) \cup {DEFAULT_DBT_TARGET}
    /\ dbtTarget' = t
    /\ UNCHANGED <<targetRows, lastTarget, panelOpen, targets, targetEdit, listing, artifacts, dbtRuns,
                   connecting, crossed, kept>>
\* updateProjectConnection: another connection for dev.  When it is saved dev is
\* selected too, unless it was when the change began.
SelectConnection ==
    /\ panelOpen /\ TargetStep /\ connecting' = connecting \cup {dbtTarget}
    /\ UNCHANGED <<targetRows, lastTarget, panelOpen, targets, dbtTarget, targetEdit, listing,
                   artifacts, dbtRuns, crossed, kept>>
ConnectionSaved(was, ok) ==
    /\ connecting' = connecting \ {was}
    /\ dbtTarget' = IF ok /\ was # DEFAULT_DBT_TARGET THEN DEFAULT_DBT_TARGET ELSE dbtTarget
    /\ UNCHANGED <<targetRows, lastTarget, panelOpen, targets, targetEdit, listing, artifacts,
                   dbtRuns, crossed, kept, targetSteps>>

\* A mutation begins: the buttons are disabled until it ends.  Bound: one of a
\* panel that was left ends before the next one begins.
Busy(kind, row, name) ==
    /\ panelOpen /\ TargetStep /\ targetEdit = NoTargetEdit
    /\ targetEdit' = [kind |-> kind, row |-> row, name |-> name,
                      wasActive |-> dbtTarget = row.name, here |-> TRUE, phase |-> "sent"]
    /\ crossed' = (crossed \/ \E l \in listing : l.of = "mount")
    /\ UNCHANGED <<targetRows, lastTarget, panelOpen, targets, dbtTarget, listing, artifacts,
                   dbtRuns, connecting, kept>>
addTarget == \E n \in TargetNames : lastTarget < MaxTargets /\ Busy("add", NoTargetEdit.row, n)
retarget == \E r \in targets : Busy("retarget", r, r.name)
removeTarget == \E r \in targets : Busy("remove", r, r.name)
handleRenameTarget ==
    \E r \in targets : \E n \in TargetNames \ {r.name} : Busy("rename", r, n)
-----------------------------------------------------------------------------
\* createProjectTarget, updateProjectTarget, deleteProjectTarget: names are
\* unique in a project, and a row that is gone is refused.
Free(n, id) == \A r \in targetRows : r.name = n => r.id = id
Written ==
    CASE targetEdit.kind = "add" ->
            targetRows \cup {[id |-> lastTarget + 1, name |-> targetEdit.name]}
      [] targetEdit.kind = "remove" -> targetRows \ {targetEdit.row}
      [] OTHER ->
            (targetRows \ {targetEdit.row})
                \cup {[targetEdit.row EXCEPT !.name = targetEdit.name]}
Possible ==
    IF targetEdit.kind = "add" THEN Free(targetEdit.name, 0)
    ELSE targetEdit.row \in targetRows /\ Free(targetEdit.name, targetEdit.row.id)
CleansUp == targetEdit.kind \in {"remove", "rename"}
WriteTarget ==
    /\ targetEdit.phase = "sent" /\ Possible
    /\ targetRows' = Written
    /\ lastTarget' = IF targetEdit.kind = "add" THEN lastTarget + 1 ELSE lastTarget
    /\ targetEdit' = [targetEdit EXCEPT !.phase = IF CleansUp THEN "written" ELSE "load"]
    /\ listing' = IF CleansUp THEN listing
                  ELSE listing \cup {[of |-> "edit", read |-> FALSE, rows |-> {}]}
    /\ UNCHANGED <<panelOpen, targets, dbtTarget, artifacts, dbtRuns, connecting, crossed, kept,
                   targetSteps>>
\* catch and finally.
RefuseTarget ==
    /\ targetEdit.phase = "sent" /\ targetEdit' = NoTargetEdit
    /\ UNCHANGED <<targetRows, lastTarget, panelOpen, targets, dbtTarget, listing, artifacts,
                   dbtRuns, connecting, crossed, kept, targetSteps>>
\* deleteTargetState of the former name; a failure is only logged.  A renamed
\* target is selected if it was when the rename began.
AfterCleanUp(ok) == IF ok THEN [artifacts EXCEPT ![targetEdit.row.name] = 0] ELSE artifacts
Follows == targetEdit.kind = "rename" /\ targetEdit.wasActive
CleanUp(ok) ==
    /\ targetEdit.phase = "written"
    /\ artifacts' = AfterCleanUp(ok)
    /\ kept' = (kept \/ (~ok /\ artifacts[targetEdit.row.name] # 0))
    /\ dbtTarget' = IF ~Follows THEN dbtTarget
                    ELSE IF panelOpen THEN Settled(targetEdit.name, targets) ELSE targetEdit.name
    /\ targetEdit' = [targetEdit EXCEPT !.phase = "load"]
    /\ listing' = listing \cup {[of |-> "edit", read |-> FALSE, rows |-> {}]}
    /\ UNCHANGED <<targetRows, lastTarget, panelOpen, targets, dbtRuns, connecting, crossed, targetSteps>>

\* load: getProjectTargets reads, the answer is shown (no rows after a failure);
\* the one a mutation waits for ends it.
ReadTargets(l) ==
    /\ ~l.read /\ listing' = (listing \ {l}) \cup {[l EXCEPT !.read = TRUE, !.rows = targetRows]}
    /\ UNCHANGED <<targetRows, lastTarget, panelOpen, targets, dbtTarget, targetEdit, artifacts,
                   dbtRuns, connecting, crossed, kept, targetSteps>>
EndsEdit(l, ok) == l.of = "edit"
ShowTargets(l, ok) ==
    /\ l.read /\ listing' = listing \ {l}
    /\ targetEdit' = IF EndsEdit(l, ok) THEN NoTargetEdit ELSE targetEdit
    /\ IF panelOpen /\ (l.of = "mount" \/ targetEdit.here)
       THEN /\ targets' = IF ok THEN l.rows ELSE {}
            /\ dbtTarget' = Settled(dbtTarget, targets')
       ELSE UNCHANGED <<targets, dbtTarget>>
    /\ UNCHANGED <<targetRows, lastTarget, panelOpen, artifacts, dbtRuns, connecting, crossed, kept,
                   targetSteps>>
-----------------------------------------------------------------------------
\* A command runs on the selected target; its artifacts are saved when it ends.
RunOnTarget ==
    /\ TargetStep /\ \E r \in targetRows : r.name = dbtTarget /\ dbtRuns' = dbtRuns \cup {r}
    /\ UNCHANGED <<targetRows, lastTarget, panelOpen, targets, dbtTarget, targetEdit, listing,
                   artifacts, connecting, crossed, kept>>
SaveArtifacts(r) ==
    /\ dbtRuns' = dbtRuns \ {r} /\ artifacts' = [artifacts EXCEPT ![r.name] = r.id]
    /\ kept' = (kept \/ r \notin targetRows)
    /\ UNCHANGED <<targetRows, lastTarget, panelOpen, targets, dbtTarget, targetEdit, listing, connecting,
                   crossed, targetSteps>>

TargetNext ==
    \/ OpenPanel
    \/ LeavePanel
    \/ \E t \in TargetNames \cup {DEFAULT_DBT_TARGET} : SelectTarget(t)
    \/ SelectConnection
    \/ \E was \in connecting, ok \in BOOLEAN : ConnectionSaved(was, ok)
    \/ addTarget
    \/ retarget
    \/ removeTarget
    \/ handleRenameTarget
    \/ WriteTarget
    \/ RefuseTarget
    \/ \E ok \in BOOLEAN : CleanUp(ok)
    \/ \E l \in listing : ReadTargets(l)
    \/ \E l \in listing, ok \in BOOLEAN : ShowTargets(l, ok)
    \/ RunOnTarget
    \/ \E r \in dbtRuns : SaveArtifacts(r)

\* Requests are answered, one way or the other.
TargetFairness ==
    /\ WF_targetVars(WriteTarget \/ RefuseTarget)
    /\ WF_targetVars(\E ok \in BOOLEAN : CleanUp(ok))
    /\ WF_targetVars(\E l \in listing : ReadTargets(l))
    /\ WF_targetVars(\E l \in listing, ok \in BOOLEAN : ShowTargets(l, ok))
-----------------------------------------------------------------------------
\* "Removing the selected target would otherwise leave every command carrying a
\* --target dbt rejects": with the panel open and nothing under way, the selected
\* target exists, unless a panel read the rows in the middle of a change (its list,
\* shown late, may undo the fallback).
SelectedExists ==
    panelOpen /\ targetEdit = NoTargetEdit /\ listing = {} /\ ~crossed
        => dbtTarget \in Names(targetRows) \cup {DEFAULT_DBT_TARGET}

\* A target that takes the name of a removed or renamed one does not take over
\* its state artifacts, unless deleting them failed or a run saved them late.
NoInheritedState ==
    ~kept /\ targetEdit.phase # "written" =>
        \A r \in targetRows : artifacts[r.name] \in {0, r.id}

\* A target that is gone leaves neither a selection nor artifacts behind.
RemovedTargetsGone == SelectedExists /\ NoInheritedState

\* What every edit comes to: the panel does not stay disabled.
TargetEditOver == targetEdit = NoTargetEdit

\* The effect is there for a target that was removed ("the toolbar keeps its target
\* across reloads"): to open the panel does not change the target of every command.
ChoiceKept ==
    [][(~panelOpen /\ panelOpen' /\ dbtTarget \in Names(targetRows))
            => dbtTarget' = dbtTarget]_targetVars
=============================================================================
