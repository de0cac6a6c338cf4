------------------------------- MODULE FileTree -------------------------------
(***************************************************************************)
(* The file explorer of the Develop workspace: FileExplorer/index.tsx with *)
(* FileTreeNode, InlineInput, osDrop and explorerUtils, and the tree       *)
(* handlers of DevelopLayout it calls (refreshAncestors, handleMoveFiles,  *)
(* handleDeleteFiles, handleFilesUploaded, ...).                           *)
(*                                                                         *)
(* A path is a sequence of names, the root is <<>>.                        *)
(***************************************************************************)
EXTENDS Naturals, Sequences, FiniteSets, SequencesExt, Selection

CONSTANTS
    Folders,        \* paths that are folders when they exist
    Entries,        \* every path that may exist, Folders included
    FirstEntries,   \* the ones that exist at first
    FirstExpanded,  \* the folders the session left open
    Names,          \* what the user types into the inline input
    Rels,           \* the paths of uploaded files on the user's machine
    MaxGestures     \* how often the user acts: one per click, two per change

ASSUME TreeAssumption ==
    /\ Folders \subseteq Entries /\ FirstEntries \subseteq Entries
    /\ FirstExpanded \subseteq Folders \cap FirstEntries
    /\ Entries \subseteq Seq(STRING) /\ Rels \subseteq Seq(STRING) /\ Names \subseteq STRING
    /\ MaxGestures \in Nat

VARIABLES
    exists,         \* the project folder on the runner
    listed,         \* fileTree and loadedChildren: folder -> the entries shown in it
    expanded,       \* expandedPaths
    selectedPaths, anchorPath,
    inlineEdit,     \* [type, path] or NoEdit
    lists,          \* listings under way
    overlapped,     \* ghost: a change began before the last one was seen through
    notices,        \* watcher events on their way: paths that came, went or moved
    task,           \* the handler that works through one or more paths
    gestures

selectVars == <<selectedPaths, anchorPath, inlineEdit>>
shownVars == <<listed, expanded, overlapped>>
treeVars == <<exists, notices, task, gestures, selectVars, lists, shownVars>>

Root == <<>>
NoEdit == [type |-> "none", path |-> Root]
NoPath == <<"(none)">>
Idle == [kind |-> "idle", todo |-> <<>>, dest |-> Root, done |-> {}]

parentOf(p) == IF p = Root THEN Root ELSE Front(p)
isInsideOrSelf(source, dest) == IsPrefix(source, dest)
canMoveInto(source, dest) == ~isInsideOrSelf(source, dest) /\ parentOf(source) # dest

\* Moving a folder moves what is in it.
filterRedundantPaths(paths) ==
    {p \in paths : ~\E other \in paths : other # p /\ IsPrefix(other, p)}

pathsForDrag(dragged, selected) ==
    IF dragged \in selected /\ Cardinality(selected) > 1
    THEN filterRedundantPaths(selected) ELSE {dragged}

createTargetPath(p) ==
    IF p = NoPath \/ p \notin exists THEN Root
    ELSE IF p \in Folders THEN p ELSE parentOf(p)

\* The one cleaned path, and the path joined to it: none when nothing is left.
normalizeRelativePath(p) == Selected(p, {i \in DOMAIN p : p[i] \notin {"", ".", ".."}})
joinPath(base, p) == {base \o clean : clean \in normalizeRelativePath(p) \ {Root}}

Children(f) == {p \in exists : p # Root /\ parentOf(p) = f}
Listing(f) == [loaded |-> TRUE, entries |-> Children(f)]
Unloaded == [loaded |-> FALSE, entries |-> {}]
Places == Folders \cup {Root}

\* What is in a folder has the folder's path as its parent; every folder of a path
\* exists with it; no name in a project is "..", and none is the explorer's own.
ASSUME PathAssumption ==
    /\ \A p \in Entries : parentOf(p) \in Places /\ ".." \notin ToSet(p)
    /\ \A p \in FirstEntries : \A n \in 1 .. Len(p) : SubSeq(p, 1, n) \in FirstEntries
    /\ Root \notin Entries /\ NoPath \notin Entries

\* Under the folder p, p itself included, after it became q.
Relocate(p, from, to) ==
    IF IsPrefix(from, p) THEN to \o SubSeq(p, Len(from) + 1, Len(p)) ELSE p

TreeInit ==
    /\ exists = FirstEntries
    /\ expanded = FirstExpanded
    /\ listed = [f \in Places |-> IF f = Root \/ f \in expanded THEN Listing(f) ELSE Unloaded]
    /\ /\ selectedPaths = {} /\ anchorPath = NoPath /\ inlineEdit = NoEdit
    /\ lists = {} /\ overlapped = FALSE
    /\ notices = {} /\ task = Idle
    /\ gestures = 0
-----------------------------------------------------------------------------
(* Listings: handleLoadChildren, loadFileTree, refreshFolder. *)

\* "toggle" is a click that waits for the answer; every other listing follows
\* a change, and makes the ones under way old.
List(fs, toggle) ==
    lists' = {[c EXCEPT !.old = @ \/ ~toggle] : c \in lists} \cup
             {[f |-> f, toggle |-> toggle, at |-> "sent", got |-> {},
               old |-> FALSE] : f \in fs}

ServeList(c) ==
    /\ c \in lists /\ c.at = "sent"
    /\ lists' = (lists \ {c}) \cup
          {[c EXCEPT !.at = IF c.f = Root \/ c.f \in exists THEN "ok" ELSE "failed",
                     !.got = Children(c.f)]}
    /\ UNCHANGED <<exists, notices, task, selectVars, shownVars>>

Toggled(f) == IF f \in expanded THEN expanded \ {f} ELSE expanded \cup {f}

ListDone(c) ==
    /\ c \in lists /\ c.at \in {"ok", "failed"}
    /\ lists' = lists \ {c}
    /\ expanded' = IF c.toggle THEN Toggled(c.f) ELSE expanded
    /\ IF c.at = "ok"
       THEN /\ listed' = [listed EXCEPT ![c.f] = [loaded |-> TRUE, entries |-> c.got]]
            /\ overlapped' = (overlapped \/ c.old)
       ELSE UNCHANGED <<listed, overlapped>>
    /\ UNCHANGED <<exists, notices, task, selectVars>>

\* The root and the loaded folders on the way to a path.
RootOnly(p) == {Root}
refreshAncestors(p) ==
    {Root} \cup {f \in Folders : listed[f].loaded /\ IsPrefix(f, p) /\ f # p}

\* handleFileWatcherEvent of "created", "deleted" and "moved".
Notice(p) ==
    /\ p \in notices /\ notices' = notices \ {p}
    /\ List(refreshAncestors(p), FALSE)
    /\ UNCHANGED <<exists, task, selectVars, shownVars>>

\* git, the assistant or a dbt run creates or removes a file.
OutsideChange(p) ==
    /\ p \notin Folders /\ parentOf(p) \in exists \cup {Root}
    /\ exists' = (exists \ {p}) \cup ({p} \ exists)
    /\ notices' = notices \cup {p}
    /\ overlapped' = (overlapped \/ task # Idle \/ lists # {} \/ notices # {})
    /\ UNCHANGED <<task, selectVars, lists, listed, expanded>>
-----------------------------------------------------------------------------
(* Selecting, expanding, and the inline input. *)

Visible == UNION {listed[f].entries : f \in Places}

\* handleNodeClick: ctrl toggles a node in the selection, a plain click
\* selects it alone.
NodeClick(p, multi) ==
    /\ p \in Visible
    /\ selectedPaths' = IF ~multi THEN {p}
                        ELSE IF p \in selectedPaths THEN selectedPaths \ {p}
                        ELSE selectedPaths \cup {p}
    /\ anchorPath' = p
    /\ UNCHANGED <<exists, notices, task, inlineEdit, lists, shownVars>>

\* FileTreeNode.handleClick of a folder: its children are loaded first.
ToggleFolder(f) ==
    /\ f \in Folders \cap Visible
    /\ ~\E c \in lists : c.f = f /\ c.toggle     \* one click at a time
    /\ IF f \notin expanded /\ ~listed[f].loaded
       THEN List({f}, TRUE) /\ UNCHANGED expanded
       ELSE expanded' = Toggled(f) /\ UNCHANGED lists
    /\ UNCHANGED <<exists, notices, task, selectVars, listed, overlapped>>

\* startCreate, the context menu's New File and New Folder, and F2.
StartEdit(type) ==
    /\ inlineEdit = NoEdit
    /\ \/ /\ type = "create"
          /\ LET parent == createTargetPath(anchorPath)
             IN  /\ inlineEdit' = [type |-> type, path |-> parent]
                 /\ expanded' = IF parent = Root THEN expanded ELSE expanded \cup {parent}
       \/ /\ type = "rename" /\ anchorPath \in Visible
          /\ inlineEdit' = [type |-> type, path |-> anchorPath]
          /\ UNCHANGED expanded
    /\ UNCHANGED <<exists, notices, task, selectedPaths, anchorPath, lists,
                   listed, overlapped>>

\* Escape, or a click elsewhere with nothing typed.
CancelEdit ==
    /\ inlineEdit # NoEdit
    /\ inlineEdit' = NoEdit
    /\ UNCHANGED <<exists, notices, task, selectedPaths, anchorPath, lists,
                   shownVars>>
-----------------------------------------------------------------------------
(* Handlers that await one call per path: create, rename, move, delete,      *)
(* upload.  Begin is the gesture, Step one call, Finish what follows them.   *)

Begin(kind, order, dest) ==
    /\ task = Idle
    /\ task' = [kind |-> kind, todo |-> order, dest |-> dest, done |-> {}]
    /\ overlapped' = (overlapped \/ lists # {} \/ notices # {})
    /\ UNCHANGED <<exists, notices, lists, listed, expanded>>

\* InlineInput confirms with a name: handleCreateFile or handleRenameFile.
ConfirmEdit(name) ==
    /\ inlineEdit # NoEdit
    /\ IF inlineEdit.type = "create"
       THEN Begin("create", <<Append(inlineEdit.path, name)>>, inlineEdit.path)
       ELSE Begin("rename", <<inlineEdit.path>>, Append(parentOf(inlineEdit.path), name))
    /\ inlineEdit' = NoEdit
    /\ UNCHANGED <<selectedPaths, anchorPath>>

\* handleDrop: one source is handleMoveFile, several are handleMoveFiles.
Drop(dragged, dest) ==
    /\ dragged \in Visible /\ dest \in (Visible \cap Folders) \cup {Root}
    /\ LET selected == IF dragged \in selectedPaths THEN selectedPaths ELSE {dragged}
           sources == {s \in pathsForDrag(dragged, selected) : canMoveInto(s, dest)}
       IN  /\ sources # {}
           /\ \E order \in SetToSeqs(sources) :
                 Begin(IF Len(order) = 1 THEN "move" ELSE "moveFiles", order, dest)
           /\ selectedPaths' = selected /\ anchorPath' = dragged
    /\ UNCHANGED inlineEdit

\* The Delete key: the whole selection, or the node clicked last.
DeleteKey ==
    /\ inlineEdit = NoEdit
    /\ LET paths == IF selectedPaths # {} THEN selectedPaths
                    ELSE IF anchorPath # NoPath THEN {anchorPath} ELSE {}
       IN  /\ paths # {}
           /\ \E order \in SetToSeqs(paths) :
                 Begin(IF Len(order) = 1 THEN "delete" ELSE "deleteFiles", order, Root)
    /\ UNCHANGED selectVars

\* handleOsFilesDrop and handleUploadSelection: a file of the user's machine,
\* with the path it has there, lands under the folder it was dropped on.
DropFile(dest, rel) ==
    /\ dest \in (Visible \cap Folders) \cup {Root}
    /\ \E file \in joinPath(dest, rel) : Begin("upload", <<file>>, dest)
    /\ UNCHANGED selectVars

\* Where the path that is being worked on goes.
Target(p) ==
    CASE task.kind = "rename" -> task.dest
      [] task.kind \in {"move", "moveFiles"} -> Append(task.dest, Last(p))
      [] OTHER -> p

SameKind(p, q) == (p \in Folders) = (q \in Folders)

\* What the runner makes of the call; unchanged when it refuses.  A path
\* outside Entries stands for one it refuses.
Served(p) ==
    LET legal == /\ p \in exists /\ Target(p) \notin exists /\ SameKind(p, Target(p))
                 /\ parentOf(Target(p)) \in exists \cup {Root}
        after == CASE task.kind \in {"create", "upload"} ->
                        IF parentOf(p) \in exists \cup {Root} THEN exists \cup {p} ELSE exists
                   [] task.kind \in {"rename", "move", "moveFiles"} ->
                        IF legal THEN {Relocate(q, p, Target(p)) : q \in exists} ELSE exists
                   [] OTHER -> {q \in exists : ~IsPrefix(p, q)}
    IN  IF after \subseteq Entries THEN after ELSE exists

Step ==
    /\ task.todo # <<>>
    /\ LET p == Head(task.todo)
       IN  /\ exists' = Served(p)
           /\ notices' = IF Served(p) = exists THEN notices ELSE notices \cup {p}
           /\ task' = [task EXCEPT !.todo = Tail(@),
                                   !.done = IF Served(p) = exists THEN @ ELSE @ \cup {p}]
    /\ UNCHANGED <<selectVars, lists, shownVars>>

\* Where a path is after from was renamed, moved or deleted.
Goes(p, from) ==
    IF ~IsPrefix(from, p) THEN p
    ELSE IF task.kind = "delete" THEN NoPath ELSE Relocate(p, from, Target(from))

\* renameNodes and renamePath over the tree, the loaded children and the
\* expanded folders; removeNodes is the same with nowhere to go.
Olds(f, from) == {g \in Folders : Goes(g, from) = f /\ listed[g].loaded}
ShownAt(f, from) ==
    LET src == IF f = Root THEN Root ELSE CHOOSE g \in Olds(f, from) : TRUE
    IN  IF f # Root /\ Olds(f, from) = {} THEN Unloaded
        ELSE [listed[src] EXCEPT !.entries = {Goes(p, from) : p \in @} \cap Entries]

FinishOne ==
    /\ task.kind \in {"rename", "move", "delete"} /\ task.todo = <<>>
    /\ task' = Idle
    /\ \/ task.done = {} /\ UNCHANGED <<listed, expanded, lists>>
       \/ \E from \in task.done :
             /\ listed' = [f \in Places |-> ShownAt(f, from)]
             /\ expanded' = {Goes(p, from) : p \in expanded} \ {NoPath}
             /\ List(IF task.kind = "move" THEN {parentOf(from), task.dest} ELSE {}, FALSE)
    /\ UNCHANGED <<exists, notices, selectVars, overlapped>>

\* handleCreateFile lists the parent again; handleMoveFiles, handleDeleteFiles
\* and handleFilesUploaded forget every loaded folder and list the root.  An
\* upload that failed ends without onFilesUploaded.
FinishAll ==
    /\ task.kind \in {"create", "moveFiles", "deleteFiles", "upload"} /\ task.todo = <<>>
    /\ task' = Idle
    /\ IF task.kind \in {"create", "upload"} /\ task.done = {}
       THEN UNCHANGED <<listed, lists>>
       ELSE /\ listed' = IF task.kind = "create" THEN listed
                         ELSE [f \in Places |-> IF f = Root THEN listed[f] ELSE Unloaded]
            /\ List({IF task.kind = "create" THEN task.dest ELSE Root}, FALSE)
    /\ UNCHANGED <<exists, notices, selectVars, expanded, overlapped>>
-----------------------------------------------------------------------------
\* The bound: a change of files counts for two clicks.
Spend(n) == gestures + n <= MaxGestures /\ gestures' = gestures + n

Gesture ==
    \/ /\ Spend(1)
       /\ \/ \E p \in Entries : NodeClick(p, TRUE)
          \/ \E p \in Entries : NodeClick(p, FALSE)
          \/ \E f \in Folders : ToggleFolder(f)
          \/ \E type \in {"create", "rename"} : StartEdit(type)
          \/ CancelEdit
    \/ /\ Spend(2)
       /\ \/ \E name \in Names : ConfirmEdit(name)
          \/ \E p \in Entries, d \in Places : Drop(p, d)
          \/ DeleteKey
          \/ \E d \in Places, rel \in Rels : DropFile(d, rel)
          \/ \E p \in Entries : OutsideChange(p)

TreeProgress ==
    \/ Step
    \/ FinishOne
    \/ FinishAll
    \/ \E c \in lists : ServeList(c)
    \/ \E c \in lists : ListDone(c)
    \/ \E p \in notices : Notice(p)

TreeNext == Gesture \/ (TreeProgress /\ UNCHANGED gestures)

\* Timers fire and the runner answers.
TreeFairness == WF_treeVars(TreeProgress /\ UNCHANGED gestures)
TreeSpec == TreeInit /\ [][TreeNext]_treeVars /\ TreeFairness
-----------------------------------------------------------------------------
TreeTypeOK ==
    /\ exists \subseteq Entries /\ notices \subseteq Entries
    /\ DOMAIN listed = Places /\ Visible \subseteq Entries

\* handleMoveFiles moves the dragged selection one path after the other; none
\* of its moves takes away the source of a later one (filterRedundantPaths).
MovesKeepSources ==
    [][task.kind = "moveFiles" /\ task' # task =>
          \A i \in DOMAIN task'.todo :
              task'.todo[i] \in exists => task'.todo[i] \in exists']_treeVars

\* explorerUtils: an upload can never escape the folder it was dropped on,
\* whatever "..", "." and empty names its path on the user's machine has.
UploadStaysInside ==
    task.kind = "upload" =>
        \A i \in DOMAIN task.todo : IsPrefix(task.dest, task.todo[i])
                                    /\ ".." \notin ToSet(task.todo[i])

\* Every change is seen: once nothing is under way, the root and every loaded
\* folder show exactly what is on the runner.  The exceptions are a listing
\* that was under way when a change was announced, whose answer nothing drops,
\* and two changes that overlap.
TreeCurrent ==
    lists = {} /\ notices = {} /\ task = Idle /\ ~overlapped =>
        \A f \in Places : listed[f].loaded => listed[f].entries = Children(f)
=============================================================================
