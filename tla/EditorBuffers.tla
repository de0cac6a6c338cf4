---------------------------- MODULE EditorBuffers ----------------------------
(***************************************************************************)
(* The open files of the Develop workspace: DevelopLayout.tsx, the part    *)
(* under "File operations", with the calls of entities/file/api.ts it      *)
(* awaits and the session it keeps in sessionStorage.                      *)
(*                                                                         *)
(* React handlers are closures: what runs after an await sees the state of *)
(* the render in which the handler started.  A pending call therefore      *)
(* carries what its handler captured (sel, act, text), and its             *)
(* continuation is an action of its own, which other handlers, other       *)
(* answers and watcher events may precede.                                 *)
(***************************************************************************)
EXTENDS Naturals, Sequences, FiniteSets, SequencesExt, Selection

CONSTANTS
    TreePaths,      \* the paths files may have, as sequences of names
    DraftPath,      \* the __draft__ path of the one draft
    Texts,          \* what a file can hold
    InitialFiles,   \* the files of the project
    Blank,          \* the empty text, and the notice shown when a file cannot be read
    Renames,        \* pairs <<from, to>> the user may ask for
    Nil,
    MaxTabs, MaxCalls, MaxEvents,
    MaxClicks       \* how often the user, or another writer, acts

ASSUME BufferAssumption ==
    /\ InitialFiles \in [TreePaths -> Texts \cup {Nil}]
    /\ Blank \in Texts /\ DraftPath \notin TreePaths
    /\ Nil \notin TreePaths \cup Texts
    /\ {MaxTabs, MaxCalls, MaxEvents, MaxClicks} \subseteq Nat /\ MaxTabs # 0

VARIABLES
    disk,           \* the files of the runner: a text, or Nil where there is none
    openTabs, activeTabPath, selectedFile, fileContent,
    isSaving,
    recentlySaved,  \* recentlySavedFilesRef
    calls,          \* requests whose answer has not been handled
    events,         \* "modified" events on their way to this browser
    clicks          \* their actions so far

bufferVars == <<disk, openTabs, activeTabPath, selectedFile, fileContent,
                isSaving, recentlySaved, calls, events, clicks>>
ShownText == <<activeTabPath, selectedFile, fileContent>>
AllPaths == TreePaths \cup {DraftPath}

Tab(p, text, draft) ==
    [path |-> p, content |-> text, original |-> text, dirty |-> FALSE, draft |-> draft]

TabsAt(p) == {i \in DOMAIN openTabs : openTabs[i].path = p}
TabAt(p) == openTabs[CHOOSE i \in TabsAt(p) : \A j \in TabsAt(p) : i <= j]

\* openTabs.map(t => t.path === p ? F(t) : t)
OnTabs(p, F(_)) ==
    [i \in DOMAIN openTabs |-> IF openTabs[i].path = p THEN F(openTabs[i]) ELSE openTabs[i]]

TypedDirty(t, text) == [t EXCEPT !.content = text, !.dirty = TRUE]
Typed(t, text) == [t EXCEPT !.content = text, !.dirty = (text # t.original)]
Stored(t, text) == [t EXCEPT !.content = text, !.original = text, !.dirty = FALSE]

renamePath(p, old, new) ==
    IF p # Nil /\ IsPrefix(old, p) THEN new \o SubSeq(p, Len(old) + 1, Len(p)) ELSE p

\* A renamed folder takes every file in it along; a draft is in no folder.
ASSUME RenamesAssumption ==
    \A r \in Renames : /\ \A p \in TreePaths : renamePath(p, r[1], r[2]) \in TreePaths
                       /\ renamePath(DraftPath, r[1], r[2]) = DraftPath

\* The answers to format and sync do not depend on this model's files.
Call(op, p, to, text) ==
    [op |-> op, path |-> p, to |-> to, text |-> text,
     sel |-> selectedFile, act |-> activeTabPath,
     at |-> IF op \in {"format", "sync"} THEN "ok" ELSE "sent"]

SendCall(c) == calls' = calls \cup {c}
CanSend(n) == Cardinality(calls) + n <= MaxCalls

\* A session with one file open.
BufferInit ==
    /\ disk = [p \in AllPaths |-> IF p \in TreePaths THEN InitialFiles[p] ELSE Nil]
    /\ \E p \in TreePaths :
          /\ disk[p] # Nil
          /\ openTabs = <<Tab(p, disk[p], FALSE)>> /\ fileContent = disk[p]
          /\ activeTabPath = p /\ selectedFile = p
    /\ isSaving = FALSE /\ recentlySaved = {} /\ calls = {} /\ events = {}
    /\ clicks = 0
-----------------------------------------------------------------------------
(* Opening, switching and closing tabs. *)

\* handleFileSelect up to its await: an open tab is shown from memory.
FileSelect(p) ==
    /\ selectedFile' = p /\ activeTabPath' = p
    /\ \/ /\ TabsAt(p) # {}
          /\ fileContent' = TabAt(p).content
          /\ UNCHANGED calls
       \/ /\ TabsAt(p) = {} /\ CanSend(1) /\ Len(openTabs) < MaxTabs
          /\ SendCall(Call("read", p, Nil, Nil))
          /\ UNCHANGED fileContent

OpenFile(p) ==
    /\ FileSelect(p)
    /\ UNCHANGED <<disk, openTabs, isSaving, recentlySaved, events>>

\* The rest of handleFileSelect: the text goes into the editor whatever tab
\* is active by now, and the new tab is appended without a look at the others.
ReadDone(c) ==
    /\ c.op = "read" /\ c.at \in {"ok", "failed"}
    /\ calls' = calls \ {c}
    /\ \/ /\ c.at = "ok" /\ Len(openTabs) < MaxTabs
          /\ fileContent' = c.text
          /\ openTabs' = Append(openTabs, Tab(c.path, c.text, FALSE))
       \/ /\ c.at = "failed"
          /\ fileContent' = Blank
          /\ UNCHANGED openTabs
    /\ UNCHANGED <<disk, activeTabPath, selectedFile, isSaving, recentlySaved, events>>

TabChange(p) ==
    /\ TabsAt(p) # {}
    /\ activeTabPath' = p /\ selectedFile' = p
    /\ fileContent' = TabAt(p).content
    /\ UNCHANGED <<disk, openTabs, isSaving, recentlySaved, calls, events>>

\* A dirty tab is closed only after a confirmation, which the user gives.
CloseTab(p) ==
    /\ TabsAt(p) # {}
    /\ \E rest \in Selected(openTabs, DOMAIN openTabs \ TabsAt(p)) :
       LET last == IF rest = <<>> THEN Nil ELSE rest[Len(rest)].path
       IN  /\ openTabs' = rest
           /\ IF activeTabPath # p THEN UNCHANGED ShownText
              ELSE /\ activeTabPath' = last /\ selectedFile' = last
                   /\ fileContent' = IF rest = <<>> THEN Blank
                                     ELSE rest[Len(rest)].content
    /\ UNCHANGED <<disk, isSaving, recentlySaved, calls, events>>

createDraftSqlFile ==
    /\ Len(openTabs) < MaxTabs /\ TabsAt(DraftPath) = {}
    /\ openTabs' = Append(openTabs, Tab(DraftPath, Blank, TRUE))
    /\ activeTabPath' = DraftPath /\ selectedFile' = DraftPath /\ fileContent' = Blank
    /\ UNCHANGED <<disk, isSaving, recentlySaved, calls, events>>
-----------------------------------------------------------------------------
(* Typing and formatting. *)

\* handleEditorChange, and the editor of EditorTabs that calls it: it is
\* there only while a file is selected.
EditorChange(text) ==
    /\ selectedFile # Nil
    /\ fileContent' = text
    /\ openTabs' = OnTabs(activeTabPath, LAMBDA t : Typed(t, text))
    /\ UNCHANGED <<disk, activeTabPath, selectedFile, isSaving, recentlySaved, calls, events>>

\* handleFormatSql asks the runner to format the text it captured.
FormatSql ==
    /\ activeTabPath # Nil /\ CanSend(1)
    /\ SendCall(Call("format", activeTabPath, Nil, fileContent))
    /\ UNCHANGED <<disk, openTabs, activeTabPath, selectedFile, fileContent, isSaving,
                   recentlySaved, events>>

\* formatSQL and formatFile: their layout is not modelled, any text may come out.
formatFile == Texts

\* handleFormatContent, with the formatted text of the runner or, when it
\* declines or cannot be reached, that of the local formatter.
FormatDone(c, text) ==
    /\ c.op = "format" /\ c.at \in {"ok", "failed"}
    /\ calls' = calls \ {c}
    /\ fileContent' = text
    /\ openTabs' = OnTabs(c.act, LAMBDA t : Typed(t, text))
    /\ UNCHANGED <<disk, activeTabPath, selectedFile, isSaving, recentlySaved, events>>
-----------------------------------------------------------------------------
(* Saving. *)

\* handleSaveFile of a file that has a path.
SaveFile ==
    /\ TabsAt(activeTabPath) # {} /\ selectedFile # Nil
    /\ ~TabAt(activeTabPath).draft /\ CanSend(1)
    /\ isSaving' = TRUE
    /\ recentlySaved' = recentlySaved \cup {selectedFile}
    /\ SendCall(Call("save", selectedFile, Nil, fileContent))
    /\ UNCHANGED <<disk, openTabs, activeTabPath, selectedFile, fileContent, events>>

SaveDone(c) ==
    /\ c.op = "save" /\ c.at \in {"ok", "failed"}
    /\ calls' = calls \ {c}
    /\ isSaving' = FALSE
    /\ IF c.at = "ok"
       THEN /\ openTabs' = OnTabs(c.path, LAMBDA t : Stored(t, c.text))
            /\ UNCHANGED recentlySaved
       ELSE /\ recentlySaved' = recentlySaved \ {c.path}
            /\ UNCHANGED openTabs
    /\ UNCHANGED <<disk, activeTabPath, selectedFile, fileContent, events>>

\* saveDraftAs, reached from handleSaveFile: the user enters a path, which
\* normalizeSavePath completes.  Dismissing the prompt changes nothing.
SaveDraftAs(p) ==
    /\ TabsAt(activeTabPath) # {} /\ selectedFile # Nil
    /\ TabAt(activeTabPath).draft /\ CanSend(1)
    /\ isSaving' = TRUE
    /\ SendCall(Call("saveAs", p, activeTabPath, fileContent))
    /\ UNCHANGED <<disk, openTabs, activeTabPath, selectedFile, fileContent, recentlySaved,
                   events>>

\* The draft's tab becomes the file's tab; another tab of that file goes.
SaveDraftDone(c) ==
    /\ c.op = "saveAs" /\ c.at \in {"ok", "failed"}
    /\ calls' = calls \ {c}
    /\ isSaving' = FALSE
    /\ IF c.at = "ok"
       THEN /\ \E others \in Selected(openTabs, {i \in DOMAIN openTabs :
                                 openTabs[i].path = c.to \/ openTabs[i].path # c.path}) :
                   openTabs' = [i \in DOMAIN others |->
                                  IF others[i].path = c.to
                                  THEN [Stored(others[i], c.text) EXCEPT !.path = c.path,
                                                                         !.draft = FALSE]
                                  ELSE others[i]]
            /\ selectedFile' = c.path /\ activeTabPath' = c.path
       ELSE UNCHANGED <<openTabs, selectedFile, activeTabPath>>
    /\ UNCHANGED <<disk, fileContent, recentlySaved, events>>

\* The timer of handleSaveFile, three seconds after the click.
ForgetSaved(p) ==
    /\ p \in recentlySaved
    /\ recentlySaved' = recentlySaved \ {p}
    /\ UNCHANGED <<disk, openTabs, activeTabPath, selectedFile, fileContent, isSaving, calls,
                   events>>
-----------------------------------------------------------------------------
(* Renaming, moving and deleting. *)

\* handleRenameFile and handleMoveFile up to their await.
StartRelocation(op, from, to) ==
    /\ <<from, to>> \in Renames /\ CanSend(1)
    /\ SendCall(Call(op, from, to, Nil))
    /\ UNCHANGED <<disk, openTabs, activeTabPath, selectedFile, fileContent, isSaving,
                   recentlySaved, events>>

Relocated(c) ==
    [i \in DOMAIN openTabs |->
        [openTabs[i] EXCEPT !.path = renamePath(openTabs[i].path, c.path, c.to)]]

\* setSelectedFile and setActiveTabPath, decided on the captured values.
Follow(captured, now, c) ==
    IF captured # Nil /\ IsPrefix(c.path, captured)
    THEN renamePath(captured, c.path, c.to) ELSE now

RenameDone(c) ==
    /\ c.op = "rename" /\ c.at \in {"ok", "failed"}
    /\ calls' = calls \ {c}
    /\ IF c.at = "ok"
       THEN /\ openTabs' = Relocated(c)
            /\ selectedFile' = Follow(c.sel, selectedFile, c)
            /\ activeTabPath' = Follow(c.act, activeTabPath, c)
       ELSE UNCHANGED <<openTabs, selectedFile, activeTabPath>>
    /\ UNCHANGED <<disk, fileContent, isSaving, recentlySaved, events>>

\* handleMoveFile leaves activeTabPath behind.
MoveDone(c) ==
    /\ c.op = "move" /\ c.at \in {"ok", "failed"}
    /\ calls' = calls \ {c}
    /\ IF c.at = "ok"
       THEN /\ openTabs' = Relocated(c)
            /\ selectedFile' = Follow(c.sel, selectedFile, c)
       ELSE UNCHANGED <<openTabs, selectedFile>>
    /\ UNCHANGED <<disk, activeTabPath, fileContent, isSaving, recentlySaved, events>>

StartDelete(p) ==
    /\ CanSend(1)
    /\ SendCall(Call("delete", p, Nil, Nil))
    /\ UNCHANGED <<disk, openTabs, activeTabPath, selectedFile, fileContent, isSaving,
                   recentlySaved, events>>

\* handleDeleteFile: the tab of the deleted file stays open.
DeleteDone(c) ==
    /\ c.op = "delete" /\ c.at \in {"ok", "failed"}
    /\ calls' = calls \ {c}
    /\ IF c.at = "ok" /\ c.sel = c.path
       THEN selectedFile' = Nil /\ fileContent' = Blank
       ELSE UNCHANGED <<selectedFile, fileContent>>
    /\ UNCHANGED <<disk, openTabs, activeTabPath, isSaving, recentlySaved, events>>
\* handleSyncFromStorage: once the runner has synced, the active tab is
\* selected again, if it was clean, with the text it had at the click.
SyncFromStorage ==
    /\ CanSend(1)
    /\ LET clean == TabsAt(activeTabPath) # {} /\ ~TabAt(activeTabPath).dirty
       IN  SendCall(Call("sync", activeTabPath, Nil,
                     IF clean THEN TabAt(activeTabPath).content ELSE Nil))
    /\ UNCHANGED <<disk, openTabs, activeTabPath, selectedFile, fileContent, isSaving,
                   recentlySaved, events>>

SyncDone(c) ==
    /\ c.op = "sync" /\ c.at \in {"ok", "failed"}
    /\ calls' = calls \ {c}
    /\ IF c.at = "ok" /\ c.text # Nil
       THEN selectedFile' = c.act /\ activeTabPath' = c.act /\ fileContent' = c.text
       ELSE UNCHANGED ShownText
    /\ UNCHANGED <<disk, openTabs, isSaving, recentlySaved, events>>
-----------------------------------------------------------------------------
(* The project folder on the runner, as filesApi uses it. *)

Notify(p) == events' = IF Cardinality(events) < MaxEvents THEN events \cup {p} ELSE events

\* The runner serves a request.  A relocation is refused when its source is
\* gone or its destination is taken.
Serve(c) ==
    /\ c.at = "sent"
    /\ LET under(q) == {p \in TreePaths : IsPrefix(q, p) /\ disk[p] # Nil}
           legal == under(c.path) # {} /\ under(c.to) = {}
           answer(ok, text) == calls' = (calls \ {c}) \cup
                                 {[c EXCEPT !.at = IF ok THEN "ok" ELSE "failed", !.text = text]}
       IN \/ /\ c.op = "read"
             /\ answer(disk[c.path] # Nil, disk[c.path])
             /\ UNCHANGED <<disk, events>>
          \/ /\ c.op \in {"save", "saveAs"}
             /\ disk' = [disk EXCEPT ![c.path] = c.text]
             /\ Notify(c.path) /\ answer(TRUE, c.text)
          \/ /\ c.op \in {"rename", "move"} /\ legal
             /\ disk' = [p \in AllPaths |->
                           IF p \in under(c.path) THEN Nil
                           ELSE LET src == {q \in under(c.path) : renamePath(q, c.path, c.to) = p}
                                IN  IF src = {} THEN disk[p] ELSE disk[CHOOSE q \in src : TRUE]]
             /\ answer(TRUE, Nil) /\ UNCHANGED events
          \/ /\ c.op \in {"rename", "move"} /\ ~legal
             /\ answer(FALSE, Nil) /\ UNCHANGED <<disk, events>>
          \/ /\ c.op = "delete"
             /\ disk' = [p \in AllPaths |-> IF IsPrefix(c.path, p) THEN Nil ELSE disk[p]]
             /\ answer(under(c.path) # {}, Nil) /\ UNCHANGED events
    /\ UNCHANGED <<openTabs, activeTabPath, selectedFile, fileContent, isSaving, recentlySaved>>

\* The request does not reach the runner, or its answer is lost.
LoseCall(c) ==
    /\ c.at \in {"sent", "ok"}
    /\ calls' = (calls \ {c}) \cup {[c EXCEPT !.at = "failed"]}
    /\ UNCHANGED <<disk, openTabs, activeTabPath, selectedFile, fileContent, isSaving,
                   recentlySaved, events>>

\* git, the assistant, a dbt run: somebody else changes a file.
ExternalWrite(p, text) ==
    /\ Cardinality(events) < MaxEvents
    /\ disk[p] # Nil /\ disk[p] # text
    /\ disk' = [disk EXCEPT ![p] = text]
    /\ Notify(p)
    /\ UNCHANGED <<openTabs, activeTabPath, selectedFile, fileContent, isSaving, recentlySaved,
                   calls>>

\* handleFileWatcherEvent of a "modified" event: the browser's own save is
\* skipped once, a dirty tab is left alone, a clean one is selected again.
WatchModified(p) ==
    /\ p \in events /\ events' = events \ {p}
    /\ \/ /\ p \in recentlySaved
          /\ recentlySaved' = recentlySaved \ {p}
          /\ UNCHANGED <<activeTabPath, selectedFile, fileContent, calls>>
       \/ /\ p \notin recentlySaved
          /\ UNCHANGED recentlySaved
          /\ IF TabsAt(p) # {} /\ ~TabAt(p).dirty
             THEN FileSelect(p)
             ELSE UNCHANGED <<activeTabPath, selectedFile, fileContent, calls>>
    /\ UNCHANGED <<disk, openTabs, isSaving>>

\* The page is reloaded: the tabs, the selection and the text come back from
\* sessionStorage, which saveDevelopSession has kept up with every change; no
\* answer of an older call reaches the new page.
SessionOfFiles ==
    [openTabs |-> [i \in DOMAIN openTabs |-> Stored(openTabs[i], openTabs[i].original)],
     activeTabPath |-> activeTabPath, selectedFile |-> selectedFile, fileContent |-> fileContent]
Session ==
    [openTabs |-> openTabs, activeTabPath |-> activeTabPath,
     selectedFile |-> selectedFile, fileContent |-> fileContent]

Reload ==
    /\ openTabs' = Session.openTabs /\ activeTabPath' = Session.activeTabPath
    /\ selectedFile' = Session.selectedFile /\ fileContent' = Session.fileContent
    /\ calls' = {} /\ isSaving' = FALSE /\ recentlySaved' = {} /\ events' = {}
    /\ UNCHANGED disk
-----------------------------------------------------------------------------
UserStep ==
    /\ clicks < MaxClicks /\ clicks' = clicks + 1
    /\ \/ \E p \in TreePaths : OpenFile(p) \/ SaveDraftAs(p) \/ StartDelete(p)
       \/ \E p \in TreePaths \cup {DraftPath} : TabChange(p) \/ CloseTab(p)
       \/ createDraftSqlFile
       \/ \E text \in Texts : EditorChange(text)
       \/ FormatSql
       \/ SaveFile
       \/ \E r \in Renames, op \in {"rename", "move"} : StartRelocation(op, r[1], r[2])
       \/ SyncFromStorage
       \/ Reload
       \/ \E p \in TreePaths, text \in Texts : ExternalWrite(p, text)

Handled(c) ==
    \/ ReadDone(c)
    \/ SaveDone(c)
    \/ SaveDraftDone(c)
    \/ RenameDone(c)
    \/ MoveDone(c)
    \/ DeleteDone(c)
    \/ SyncDone(c)
    \/ \E text \in formatFile : FormatDone(c, text)

WorldStep ==
    \/ \E c \in calls : Serve(c)
    \/ \E c \in calls : LoseCall(c)
    \/ \E p \in events : WatchModified(p)
    \/ \E p \in recentlySaved : ForgetSaved(p)

BufferNext ==
    \/ UserStep
    \/ (\E c \in calls : Handled(c)) /\ UNCHANGED clicks
    \/ WorldStep /\ UNCHANGED clicks

\* The browser handles every answer, and every request is answered or fails.
BufferFairness ==
    /\ WF_bufferVars(\E c \in calls : Handled(c) /\ UNCHANGED clicks)
    /\ WF_bufferVars(\E c \in calls : (Serve(c) \/ LoseCall(c)) /\ UNCHANGED clicks)

BufferSpec == BufferInit /\ [][BufferNext]_bufferVars /\ BufferFairness
-----------------------------------------------------------------------------
TabRecords == [path : AllPaths, content : Texts, original : Texts,
               dirty : BOOLEAN, draft : BOOLEAN]

BufferTypeOK ==
    /\ disk \in [AllPaths -> Texts \cup {Nil}]
    /\ openTabs \in Seq(TabRecords) /\ Len(openTabs) <= MaxTabs
    /\ {activeTabPath, selectedFile} \subseteq AllPaths \cup {Nil}
    /\ fileContent \in Texts
    /\ isSaving \in BOOLEAN
    /\ recentlySaved \subseteq AllPaths /\ events \subseteq AllPaths

\* The "unsaved" mark of a tab tells the truth, through every order of edits,
\* saves, formats, renames and reloads: isDirty is content # originalContent.
DirtyExact ==
    \A i \in DOMAIN openTabs : openTabs[i].dirty <=> openTabs[i].content # openTabs[i].original

\* What the tabs say of their files is true: every tab has a file's path and
\* texts, and the marks of unsaved text are exact.
TabsHonest == BufferTypeOK /\ DirtyExact

\* docs/develop/01-workspace.md says of a draft that it is in memory only, until
\* saveDraftAs gives it a path.  It does not hold: after the deletion of the file
\* on screen activeTabPath is kept and selectedFile is not; a folder's rename that
\* captured them and is answered while a draft is on screen moves activeTabPath
\* alone, and handleSaveFile then writes the draft under its internal path.
DraftStaysPrivate ==
    \A c \in calls : c.op = "save" => c.path # DraftPath

Unsaved(tabs) == {tabs[i].content : i \in {j \in DOMAIN tabs : tabs[j].dirty}}

\* What the user may lose text by: typing over it, closing the tab, or
\* formatting or saving that file.
Disposed(p) ==
    \/ activeTabPath = p /\ \E text \in Texts : EditorChange(text)
    \/ CloseTab(p)
    \/ \E c \in calls : \/ c.act = p /\ \E text \in Texts : FormatDone(c, text)
                        \/ c.path = p /\ SaveDone(c)
                        \/ p \in {c.path, c.to} /\ SaveDraftDone(c)

\* Unsaved text survives everything but that: watcher events, late answers,
\* renames, moves, deletes, syncs and a reload of the page keep it.
UnsavedKept ==
    [][\A i \in DOMAIN openTabs :
          openTabs[i].dirty => \/ openTabs[i].content \in Unsaved(openTabs')
                              \/ Disposed(openTabs[i].path)]_bufferVars

\* What the saving indicator always comes back to: a save that fails ends like
\* one that succeeds.
SavingOver == ~isSaving

\* docs/develop/01-workspace.md: on "modified", an open file that is not dirty
\* is loaded again.  With every event handled and nothing under way, a clean
\* tab then holds what is on disk.
CleanTabCurrent ==
    events = {} /\ calls = {} =>
        \A i \in DOMAIN openTabs :
            LET t == openTabs[i]
            IN  ~t.dirty /\ ~t.draft /\ t.path \in TreePaths /\ disk[t.path] # Nil
                    => t.content = disk[t.path]
=============================================================================
