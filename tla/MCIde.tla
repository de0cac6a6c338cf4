-------------------------------- MODULE MCIde --------------------------------
(***************************************************************************)
(* The parts of the IDE page for TLC, side by side.  They share no state,  *)
(* so each behaviour exercises one of them, chosen at the start, and the   *)
(* state spaces add up instead of multiplying.                             *)
(***************************************************************************)
EXTENDS EditorBuffers, FileTree, FileSearch, FileWatcher, RunConsole, RunOptions,
        ResourceDialogs, GitPanel

VARIABLE focus

Paths == {<<"d", "a">>, <<"e", "a">>}
Draft == <<"__draft__">>
FolderMove == {<<<<"d">>, <<"e">>>>}
Saved == [p \in Paths |-> IF p = <<"d", "a">> THEN "x" ELSE Nil]

TreeFolders == {<<"d">>, <<"e">>, <<"e", "d">>}
TreeEntries == TreeFolders \cup {<<"d", "a">>, <<"d", "b">>, <<"e", "d", "a">>}
AtFirst == {<<"d">>, <<"e">>, <<"d", "a">>}
OpenAtFirst == {<<"d">>}
Escaping == {<<"..", "b">>}

Targets == <<"p", "q">>
Args(m) == IF m = "m" THEN {"a"} ELSE {"b"}

\* A part that is not chosen rests in one of its initial states.
Resting(part, state) == focus # part => state

Init ==
    /\ focus \in {"buffers", "tree", "search", "watcher", "console", "options", "dialogs", "git"}
    /\ BufferInit
    /\ TreeInit /\ SearchInit /\ WatcherInit
    /\ ConsoleInit /\ Resting("console", content = "x")
    /\ OptionsInit /\ Resting("options", serverState = {})
    /\ DialogsInit /\ Resting("dialogs", lsTarget = "p")
    /\ GitInit /\ Resting("git", ~behind /\ head = [f \in GitFiles |-> 0])

Turn(part, next, vars) == IF focus = part THEN next ELSE UNCHANGED vars

Next ==
    /\ UNCHANGED focus
    /\ Turn("buffers", BufferNext, bufferVars) /\ Turn("tree", TreeNext, treeVars)
    /\ Turn("search", SearchNext, searchVars) /\ Turn("watcher", WatcherNext, watcherVars)
    /\ Turn("console", ConsoleNext, consoleVars) /\ Turn("options", OptionsNext, optionsVars)
    /\ Turn("dialogs", DialogsNext, dialogVars) /\ Turn("git", GitNext, gitVars)

vars == <<focus, bufferVars, treeVars, searchVars, watcherVars, consoleVars, optionsVars,
          dialogVars, gitVars>>

\* A part at rest has none of these steps to take.
Fairness == BufferFairness /\ SearchFairness /\ WatcherFairness /\ GitFairness

Spec == Init /\ [][Next]_vars /\ Fairness

\* The panels follow the disk: the explorer shows what is there and the changes
\* view hides none of them; an upload goes where it was dropped; the events come
\* from one source, that of the project on screen.
PanelsFaithful ==
    TreeTypeOK /\ TreeCurrent /\ NoChangeHidden /\ UploadStaysInside /\ OneSource

\* The dialogs send what they show: options that fit together, a full refresh
\* only while it is ticked, arguments of the macro named, rows of the target.
RequestsAsShown == RequestConsistent /\ FullRefreshShown /\ ArgsBelong /\ RowsOfTarget

\* Nothing the user made is lost by a step he did not ask for: unsaved text, the
\* work tree, the files of a drag, the options he applied.
UserWorkKept == UnsavedKept /\ WorkKept /\ MovesKeepSources /\ UntouchedApply

\* No part of the page hangs: whenever one is busy (saving, searching, a git
\* operation) or its watcher is cut off, it settles later.  The parts at rest are
\* settled, so this is []<> of each of them.
IdeSettles == []<>(SavingOver /\ SearchSettled /\ ConnectedOrLeft /\ GitSettled)
=============================================================================
