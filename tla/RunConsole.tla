----------------------------- MODULE RunConsole ------------------------------
(***************************************************************************)
(* The dbt commands of DevelopLayout.tsx: the slot that gates them         *)
(* (claimCommandSlot), the save they begin with (ensureSavedSqlFile), the  *)
(* ones that go over HTTP (preview, explain, compile, parse, clone, the    *)
(* fallback) and the ones that go over the stream of RunStream.            *)
(*                                                                         *)
(* An await of a promise that is already resolved (connect) lets no other  *)
(* event in; the await of a save does.                                     *)
(***************************************************************************)
EXTENDS RunStream

CONSTANTS
    Sql,            \* what the editor may hold
    MaxKeys         \* how often the user acts

ASSUME ConsoleAssumption == Sql # {} /\ MaxKeys \in Nat

Saving == {"preview", "explain", "compile", "runModel"}

VARIABLES
    content, original,  \* the active tab
    acked,              \* texts the runner has acknowledged, the first one included
    jobs,               \* handlers between two awaits
    keys

consoleVars == <<content, original, acked, jobs, keys, streamVars>>
editorVars == <<content, original, acked>>

ConsoleInit ==
    /\ StreamInit
    /\ \E t \in Sql : content = t /\ original = t /\ acked = {t}
    /\ jobs = {} /\ keys = 0

Key == keys < MaxKeys /\ keys' = keys + 1
Slot(v) == /\ commandInFlight' = v
           /\ UNCHANGED <<mounted, me, attached, listeners, conn, background, received, first,
                          shown>>

Type(t) ==
    /\ Key /\ mounted /\ t # content
    /\ content' = t
    /\ UNCHANGED <<original, acked, jobs, streamVars>>

Job(kind, at, t) == [kind |-> kind, at |-> at, text |-> t, n |-> keys, by |-> me]
\* Its instance is still mounted; a handler outlives the one that started it.
Mine(j) == mounted /\ j.by = me

\* What each handler does once its file is saved: compile sends its request
\* without taking the slot, and Run goes through handleRunDbt, which claims
\* only now (the slot of an instance that is gone may be free or not).
Launch(j, rest) ==
    \/ /\ j.kind \in {"preview", "explain"}
       /\ jobs' = rest \cup {[j EXCEPT !.at = "sent"]}
       /\ IF Mine(j) THEN Slot(TRUE) ELSE UNCHANGED streamVars
    \/ /\ j.kind = "compile"
       /\ jobs' = rest \cup {[j EXCEPT !.at = "sent"]} /\ UNCHANGED streamVars
    \/ /\ j.kind = "runModel" /\ Mine(j) /\ ~commandInFlight
       /\ jobs' = rest /\ SendCommand
    \/ /\ j.kind = "runModel" /\ ~Mine(j)
       /\ jobs' = rest /\ SendUnheard
    \/ /\ j.kind = "runModel" /\ (commandInFlight \/ ~Mine(j))
       /\ jobs' = rest /\ UNCHANGED streamVars

\* How the commands on the open model begin: claimCommandSlot, but for Run,
\* then ensureSavedSqlFile, which saves a dirty tab first.
Start(kind) ==
    /\ Key /\ mounted /\ kind \in Saving
    /\ kind # "runModel" => ~commandInFlight
    /\ IF content = original THEN Launch(Job(kind, "sent", content), jobs)
       ELSE /\ jobs' = jobs \cup {Job(kind, "saving", content)}
            /\ UNCHANGED streamVars
    /\ UNCHANGED editorVars

handlePreviewModel == Start("preview")
handleExplainModel == Start("explain")
handleCompileModel == Start("compile")
handleRunCurrentModel == Start("runModel")

\* The tab takes the text that was saved, and drops what was typed meanwhile.
TabSaved(j) ==
    /\ acked' = acked \cup {j.text}
    /\ IF Mine(j) THEN content' = j.text /\ original' = j.text
       ELSE UNCHANGED <<content, original>>
SaveAnswerIgnored(j, ok) ==
    /\ j.at = "saving"
    /\ IF ok THEN TabSaved(j) ELSE UNCHANGED editorVars
    /\ Launch(j, jobs \ {j})
    /\ UNCHANGED keys
\* The save is answered: a failure ends the handler.
SaveAnswer(j, ok) ==
    /\ j.at = "saving"
    /\ IF ok THEN TabSaved(j) /\ Launch(j, jobs \ {j})
       ELSE jobs' = jobs \ {j} /\ UNCHANGED <<editorVars, streamVars>>
    /\ UNCHANGED keys

\* handleRunDbt from the menu or the terminal: connect() always resolves true.
RunDbt ==
    /\ Key /\ mounted /\ ~commandInFlight
    /\ SendCommand
    /\ UNCHANGED <<editorVars, jobs>>

\* handleRunParse takes the slot without asking for it.
RunParse ==
    /\ Key /\ mounted
    /\ jobs' = jobs \cup {Job("parse", "sent", content)}
    /\ Slot(TRUE)
    /\ UNCHANGED editorVars

CloneState ==
    /\ Key /\ mounted /\ ~commandInFlight
    /\ jobs' = jobs \cup {Job("clone", "sent", content)}
    /\ Slot(TRUE)
    /\ UNCHANGED editorVars

\* The answer or the failure of a request: each handler frees the slot on
\* both paths, compile excepted, which never took it.
Answer(j, ok) ==
    /\ j.at = "sent"
    /\ jobs' = jobs \ {j}
    /\ IF j.kind = "compile" \/ ~Mine(j) THEN UNCHANGED streamVars ELSE Slot(FALSE)
    /\ UNCHANGED <<editorVars, keys>>

\* cancelCommand: the slot is freed when the request has been answered.
Cancel(ok) ==
    /\ Key /\ mounted /\ commandInFlight
    /\ IF ok THEN Slot(FALSE) ELSE UNCHANGED streamVars
    /\ UNCHANGED <<editorVars, jobs>>

\* The buttons above the editor, and the menu of dbt commands.
ModelButtons ==
    \/ handlePreviewModel
    \/ handleExplainModel
    \/ handleCompileModel
    \/ handleRunCurrentModel
    \/ RunParse
CommandMenu ==
    \/ RunDbt
    \/ CloneState

ConsoleNext ==
    \/ \E t \in Sql : Type(t)
    \/ ModelButtons
    \/ CommandMenu
    \/ \E j \in jobs, ok \in BOOLEAN : SaveAnswer(j, ok)
    \/ \E j \in jobs, ok \in BOOLEAN : Answer(j, ok)
    \/ \E ok \in BOOLEAN : Cancel(ok)
    \/ StreamStep /\ UNCHANGED <<editorVars, jobs, keys>>

ConsoleSpec == ConsoleInit /\ [][ConsoleNext]_consoleVars
-----------------------------------------------------------------------------
\* docs/develop: no command runs on text that is not on disk.  Every preview,
\* explain and compile request was preceded by a save of its text that the
\* runner acknowledged; a save that fails stops the command.
RunsOnSavedText ==
    \A j \in jobs : j.at = "sent" /\ j.kind \in Saving => j.text \in acked

\* The slot does not leak: while no request of a command is under way and no
\* stream has been opened, the next command may start.
SlotFreed == mounted /\ jobs = {} /\ conn = "none" => ~commandInFlight

\* Commands run on saved text and give their slot back, whichever of their
\* requests fails.
CommandsSound == RunsOnSavedText /\ SlotFreed

\* DevelopLayout.tsx: the ref gates a second command, without it a held
\* Cmd+Enter queues one dbt job per keypress.
OneCommand ==
    Cardinality({j \in jobs : j.at = "sent"}) + (IF Running THEN 1 ELSE 0) <= 1
=============================================================================
