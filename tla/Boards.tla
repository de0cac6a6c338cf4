-------------------------------- MODULE Boards --------------------------------
(***************************************************************************)
(* The dashboard workspace of Explore: DashboardWorkspace.tsx and          *)
(* model/board.ts.  A board is a project file (the published version) and  *)
(* the editor's buffer is its draft; view mode renders the file, edit mode *)
(* the draft.  The toolbar is disabled and the editor read-only while busy,*)
(* but the editor's shortcuts and the assistant's open requests are not.   *)
(***************************************************************************)
EXTENDS Naturals, FiniteSets

CONSTANTS Yamls, EmptyYaml, BoardPaths, NoBoard, MaxBoardSteps

ASSUME BoardAssumption ==
    EmptyYaml \notin Yamls /\ NoBoard \notin BoardPaths /\ MaxBoardSteps \in Nat

VARIABLES
    yaml, baseline, boardPath, mode, html, stale, renderedYaml, attempted, busy, onScreen,
    boardFailed,    \* the last render, validation or publication failed
    boardFiles,     \* the project's charts/: path -> text, EmptyYaml if there is none
    boardCalls,     \* requests that await an answer
    boardSteps,
    boardOverlap         \* history: a request was sent while another was under way

boardVars == <<yaml, baseline, boardPath, mode, html, stale, renderedYaml, attempted, busy,
               onScreen, boardFailed, boardFiles, boardCalls, boardSteps, boardOverlap>>

AnyYaml == Yamls \cup {EmptyYaml}
boardEmpty(y) == y = EmptyYaml
boardSource == IF mode = "view" THEN baseline ELSE yaml
boardNeedsRender == mode = "view" /\ ~boardEmpty(baseline) /\ renderedYaml # baseline
dirtyBoard == yaml # baseline

\* A first visit, or the buffer localStorage kept: a clean board opens in view mode.
Restored(y, b, p) ==
    /\ yaml = y /\ baseline = b /\ boardPath = p
    /\ mode = IF y = b /\ p # NoBoard THEN "view" ELSE "edit"
BoardInit ==
    /\ boardFiles \in [BoardPaths -> AnyYaml]
    /\ \/ Restored(EmptyYaml, EmptyYaml, NoBoard)
       \/ \E p \in BoardPaths, y \in Yamls : boardFiles[p] # EmptyYaml /\ Restored(y, boardFiles[p], p)
    /\ html = FALSE /\ stale = FALSE /\ renderedYaml = EmptyYaml /\ attempted = EmptyYaml
    /\ busy = FALSE /\ onScreen \in BOOLEAN /\ boardCalls = {} /\ boardSteps = 0
    /\ boardOverlap = FALSE /\ boardFailed = FALSE

Step == boardSteps < MaxBoardSteps /\ boardSteps' = boardSteps + 1
SendBoard(c) ==
    /\ boardFailed' = (boardFailed /\ c.kind \in {"open", "compose"})
    /\ busy' = TRUE /\ boardCalls' = boardCalls \cup {c}
    /\ boardOverlap' = (boardOverlap \/ boardCalls # {})
Done(c) == c \in boardCalls /\ boardCalls' = boardCalls \ {c} /\ busy' = FALSE
UnchangedBuffer == UNCHANGED <<yaml, baseline, boardPath, mode>>
UnchangedPreview == UNCHANGED <<html, stale, renderedYaml, attempted>>
Quiet == UNCHANGED <<busy, boardCalls, boardOverlap, boardFailed>>
-----------------------------------------------------------------------------
\* load: a pristine board opens as its readers see it.
load(content, file, pristine) ==
    /\ yaml' = content /\ boardPath' = file
    /\ baseline' = IF pristine THEN content ELSE EmptyYaml
    /\ mode' = IF pristine /\ ~boardEmpty(content) THEN "view" ELSE "edit"
    /\ html' = FALSE /\ stale' = FALSE /\ renderedYaml' = EmptyYaml /\ attempted' = EmptyYaml
    /\ boardFailed' = FALSE

\* Typing, or a chart that Add chart wrote into the text.
edit(y) ==
    /\ Step /\ mode = "edit" /\ ~busy
    /\ yaml' = y /\ stale' = (stale \/ html)
    /\ UNCHANGED <<baseline, boardPath, mode, html, renderedYaml, attempted, onScreen, boardFiles>>
    /\ Quiet
\* Another target or another filter value.
ChangeInputs ==
    /\ Step /\ ~busy /\ stale' = html
    /\ UNCHANGED <<html, renderedYaml, attempted, onScreen, boardFiles>>
    /\ UnchangedBuffer /\ Quiet
DiscardDraft ==
    /\ Step /\ ~busy /\ mode = "edit" /\ dirtyBoard /\ ~boardEmpty(baseline)
    /\ yaml' = baseline
    /\ UNCHANGED <<baseline, boardPath, mode, onScreen, boardFiles>> /\ UnchangedPreview /\ Quiet
EditMode ==
    /\ Step /\ mode = "view" /\ (~busy \/ dirtyBoard) /\ mode' = "edit"
    /\ UNCHANGED <<yaml, baseline, boardPath, onScreen, boardFiles>> /\ UnchangedPreview /\ Quiet
ShowSection ==
    /\ Step /\ onScreen' = ~onScreen
    /\ UNCHANGED boardFiles /\ UnchangedBuffer /\ UnchangedPreview /\ Quiet

\* open, once the loss of a dirty draft was confirmed; "" is a new board.  The
\* assistant may ask for it at any time, the toolbar only when not busy.
open(p) ==
    /\ Step /\ SendBoard([kind |-> "open", path |-> p, text |-> EmptyYaml])
    /\ UNCHANGED <<onScreen, boardFiles>> /\ UnchangedBuffer /\ UnchangedPreview
OpenAnswer(c, ok) ==
    /\ c.kind = "open" /\ Done(c)
    /\ IF ok /\ (c.path = NoBoard \/ boardFiles[c.path] # EmptyYaml)
       THEN load(IF c.path = NoBoard THEN EmptyYaml ELSE boardFiles[c.path], c.path, TRUE)
       ELSE UnchangedBuffer /\ UnchangedPreview /\ UNCHANGED boardFailed
    /\ UNCHANGED <<onScreen, boardFiles, boardSteps, boardOverlap>>
UseTemplate(y) ==
    /\ Step /\ ~busy /\ load(y, NoBoard, FALSE)
    /\ UNCHANGED <<onScreen, boardFiles, busy, boardCalls, boardOverlap>>

\* A chart from the SQL console: read the board, compose, and open the result as a draft.
Compose(p) ==
    /\ Step /\ SendBoard([kind |-> "compose", path |-> p, text |-> EmptyYaml])
    /\ UNCHANGED <<onScreen, boardFiles>> /\ UnchangedBuffer /\ UnchangedPreview
ComposeAnswer(c, y, ok) ==
    /\ c.kind = "compose" /\ Done(c)
    /\ IF ok
       THEN /\ yaml' = y /\ boardPath' = c.path /\ mode' = "edit" /\ stale' = TRUE
            /\ baseline' = IF c.path = NoBoard THEN EmptyYaml ELSE boardFiles[c.path]
            /\ UNCHANGED <<html, renderedYaml, attempted>>
       ELSE UnchangedBuffer /\ UnchangedPreview
    /\ UNCHANGED <<onScreen, boardFailed, boardFiles, boardSteps, boardOverlap>>

\* validate reports and changes nothing else.
validate ==
    /\ Step /\ ~busy /\ mode = "edit" /\ ~boardEmpty(yaml)
    /\ SendBoard([kind |-> "validate", path |-> boardPath, text |-> yaml])
    /\ UNCHANGED <<onScreen, boardFiles>> /\ UnchangedBuffer /\ UnchangedPreview
ValidateAnswer(c, ok) ==
    /\ c.kind = "validate" /\ Done(c) /\ boardFailed' = (boardFailed \/ ~ok)
    /\ UNCHANGED <<onScreen, boardFiles, boardSteps, boardOverlap>> /\ UnchangedBuffer
    /\ UnchangedPreview

\* render: by the button when not busy, by the editor's shortcut in edit mode.
Render(version) == SendBoard([kind |-> "render", path |-> boardPath, text |-> version])
refresh ==
    /\ Step /\ ~boardEmpty(boardSource) /\ (~busy \/ mode = "edit") /\ Render(boardSource)
    /\ UNCHANGED <<onScreen, boardFiles>> /\ UnchangedBuffer /\ UnchangedPreview
\* The effect: a published board renders itself once.
RendersItself == onScreen /\ ~busy /\ boardNeedsRender /\ attempted # baseline
AutoRender ==
    /\ RendersItself /\ attempted' = baseline /\ Render(baseline)
    /\ UNCHANGED <<html, stale, renderedYaml, onScreen, boardFiles, boardSteps>>
    /\ UnchangedBuffer
RenderAnswer(c, ok) ==
    /\ c.kind = "render" /\ Done(c) /\ boardFailed' = (boardFailed \/ ~ok)
    /\ IF ok THEN html' = TRUE /\ stale' = FALSE /\ renderedYaml' = c.text
       ELSE UNCHANGED <<html, stale, renderedYaml>>
    /\ UNCHANGED <<attempted, onScreen, boardFiles, boardSteps, boardOverlap>> /\ UnchangedBuffer

\* publish (the button, the shortcut, or Save as under a path): writeTo.
publish(p) ==
    /\ Step /\ (~busy \/ mode = "edit")
    /\ boardPath # NoBoard => p = boardPath \/ ~busy
    /\ SendBoard([kind |-> "save", path |-> p, text |-> yaml])
    /\ UNCHANGED <<onScreen, boardFiles>> /\ UnchangedBuffer /\ UnchangedPreview
PublishedAnyway(c, ok) ==
    boardPath' = c.path /\ baseline' = c.text /\ mode' = "view" /\ UNCHANGED yaml
Published(c, ok) ==
    IF ok THEN boardPath' = c.path /\ baseline' = c.text /\ mode' = "view" /\ UNCHANGED yaml
    ELSE UnchangedBuffer
SaveAnswered(c, ok) ==
    /\ c.kind = "save" /\ Done(c) /\ boardFailed' = (boardFailed \/ ~ok)
    /\ boardFiles' = IF ok THEN [boardFiles EXCEPT ![c.path] = c.text] ELSE boardFiles
    /\ Published(c, ok)
    /\ UNCHANGED <<onScreen, boardSteps, boardOverlap>> /\ UnchangedPreview

\* The page is loaded again, from the buffer in localStorage.
ReloadBoard ==
    /\ Step /\ boardCalls' = {} /\ busy' = FALSE /\ boardFailed' = FALSE
    /\ mode' = IF ~dirtyBoard /\ boardPath # NoBoard THEN "view" ELSE "edit"
    /\ html' = FALSE /\ stale' = FALSE /\ renderedYaml' = EmptyYaml /\ attempted' = EmptyYaml
    /\ UNCHANGED <<yaml, baseline, boardPath, onScreen, boardFiles, boardOverlap>>

BoardNext ==
    \/ \E y \in AnyYaml : edit(y)
    \/ ChangeInputs \/ DiscardDraft \/ EditMode \/ ShowSection \/ validate \/ refresh
    \/ \E p \in BoardPaths \cup {NoBoard} : open(p)
    \/ \E c \in boardCalls, ok \in BOOLEAN : OpenAnswer(c, ok)
    \/ \E y \in Yamls : UseTemplate(y)
    \/ \E p \in BoardPaths \cup {NoBoard} : Compose(p)
    \/ \E c \in boardCalls, y \in Yamls, ok \in BOOLEAN : ComposeAnswer(c, y, ok)
    \/ \E c \in boardCalls, ok \in BOOLEAN : ValidateAnswer(c, ok)
    \/ AutoRender
    \/ \E c \in boardCalls, ok \in BOOLEAN : RenderAnswer(c, ok)
    \/ \E p \in BoardPaths : publish(p)
    \/ \E c \in boardCalls, ok \in BOOLEAN : SaveAnswered(c, ok)
    \/ ReloadBoard

\* Effects run and requests are answered.
BoardFairness ==
    /\ WF_boardVars(AutoRender)
    /\ WF_boardVars(\E c \in boardCalls, ok \in BOOLEAN :
          \/ OpenAnswer(c, ok) \/ RenderAnswer(c, ok) \/ SaveAnswered(c, ok) \/ ValidateAnswer(c, ok)
          \/ \E y \in Yamls : ComposeAnswer(c, y, ok))
-----------------------------------------------------------------------------
\* What the workspace calls the published version is what the file holds, so
\* "dirty" and "Published" tell the truth: unless two requests overlapped.
PublishedIsFile ==
    boardPath # NoBoard /\ ~boardOverlap => baseline = boardFiles[boardPath]

\* "View renders the saved file (what a reader opens)": in view mode, with nothing
\* under way and no render due, an up-to-date preview shows the published text.
ViewShowsPublished ==
    /\ mode = "view" /\ html /\ ~stale /\ onScreen
    /\ boardCalls = {} /\ ~boardOverlap /\ ~boardFailed /\ ~RendersItself
    => renderedYaml = baseline

\* "Opening a published board renders it": a board in view mode gets its render
\* without a click, as long as it stays on screen in view mode.
ViewRendered ==
    mode = "view" /\ onScreen /\ baseline # EmptyYaml => baseline \in {attempted, renderedYaml}
=============================================================================
