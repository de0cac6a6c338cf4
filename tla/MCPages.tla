------------------------------- MODULE MCPages -------------------------------
(***************************************************************************)
(* The pages beside the IDE for TLC: runs, schedules, connections, the     *)
(* assistant and its model connections, data loads, the SQL console, the   *)
(* boards and the targets of a project.  They share no state, so each      *)
(* behaviour exercises one of them, chosen at the start.                   *)
(***************************************************************************)
EXTENDS LiveRuns, Schedules, ConnectionSecrets, AgentChat, IngestSources, IngestStream,
        SqlConsole, Boards, ProjectTargets, AiProviders

VARIABLE page

Kinds == [snowflake |-> {"password", "keypair"}, databricks |-> {"pat", "oauth_m2m"},
          dremio |-> {"password", "pat"}, rest |-> {"none", "bearer"},
          spark |-> {"none", "token"}, duckdb |-> {"none"},
          ducklake |-> {"managed", "external"}]
Every == [h |-> 1, d |-> 2]

Pages == {"runs", "schedules", "connections", "chat", "sources", "load", "sql", "boards",
          "targets", "providers"}

\* A page that is not chosen rests in one of its initial states.
Resting(p, state) == page # p => state

Init ==
    /\ page \in Pages
    /\ LiveInit /\ Resting("runs", filter = "f")
    /\ ScheduleInit /\ SecretInit /\ ChatInit
    /\ WizardInit /\ Resting("sources", hasLake)
    /\ IngestInit
    /\ ConsoleInit
    /\ Resting("sql", /\ drafts[0].sql = "x" /\ runTarget = "dev"
                      /\ queryFiles = [p \in QueryPaths |-> NoText])
    /\ BoardInit /\ TargetInit /\ AiInit
    /\ Resting("boards", /\ boardPath = NoBoard /\ ~onScreen
                         /\ boardFiles = [p \in BoardPaths |-> EmptyYaml])

Turn(p, next, vars) == IF page = p THEN next ELSE UNCHANGED vars

Next ==
    /\ UNCHANGED page
    /\ Turn("runs", LiveNext, liveVars) /\ Turn("schedules", ScheduleNext, scheduleVars)
    /\ Turn("connections", SecretNext, secretVars) /\ Turn("chat", ChatNext, chatVars)
    /\ Turn("sources", WizardNext, wizardVars) /\ Turn("load", IngestNext, ingestVars)
    /\ Turn("sql", ConsoleNext, consoleVars) /\ Turn("boards", BoardNext, boardVars)
    /\ Turn("targets", TargetNext, targetVars) /\ Turn("providers", AiNext, aiVars)

vars == <<page, liveVars, scheduleVars, secretVars, chatVars, wizardVars, ingestVars,
          consoleVars, boardVars, targetVars, aiVars>>

\* A page at rest has none of these steps to take.
Fairness == ScheduleFairness /\ IngestFairness /\ BoardFairness /\ TargetFairness

Spec == Init /\ [][Next]_vars /\ Fairness

\* The answer of a request that was superseded changes nothing on screen: of a
\* poll or a selection of runs, of a preview of a cron, of a conversation left.
LateAnswersDropped ==
    DashboardNeverGoesBack /\ DetailOfSelected /\ PreviewCurrent /\ LeftForGood

\* What a stopped or abandoned stream still sends lands nowhere: pieces of an
\* answer stand below their prompt, one load is read, the log is the latest's.
StreamsInPlace == PromptFirst /\ OneLoadRead /\ LogOfLatest

\* What must happen happens: whenever a schedule waits to be armed, a load or an
\* edit of targets is under way or a board is not rendered, it comes to its end.
\* The pages at rest are settled, so this is []<> of each of them.
PagesSettle == []<>(Armed /\ IngestSettled /\ TargetEditOver /\ ViewRendered)
=============================================================================
