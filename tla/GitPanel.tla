------------------------------- MODULE GitPanel -------------------------------
(***************************************************************************)
(* SourceControlPanel.tsx with the requests of git/api.ts and              *)
(* GitCredentialDialog.tsx.  Every button sends a request, continues       *)
(* on its answer, and most of them then reload the status; nothing orders  *)
(* two of them.  The repository is external: for each file the text of     *)
(* HEAD, of the index and of the work tree, 0 where there is none.         *)
(***************************************************************************)
EXTENDS Naturals, Sequences, FiniteSets

CONSTANTS
    GitFiles,
    MaxText,        \* texts are 1 .. MaxText
    MaxGit,         \* buttons pressed
    MaxOps,         \* handlers under way at once
    MaxTyping       \* changes of the work tree from elsewhere

ASSUME GitAssumption == GitFiles # {} /\ {MaxText, MaxGit, MaxOps, MaxTyping} \subseteq Nat

LoadingKinds == {"commit", "push", "pull", "sync", "pushAuth", "pullAuth", "fetch"}
FileKinds == {"stage", "unstage", "discard"}
AllKinds == {"stageAll", "unstageAll", "discardAll"}

VARIABLES
    head, index, work,  \* external
    branchTexts,        \* external: what HEAD is on the other branch
    behind,             \* external: the remote has a commit of its own
    staged, unstaged,   \* the two lists of the panel
    ops,                \* handlers under way
    gitLoading, credDialog,
    typing, gitClicks,
    unsure              \* ghost: the lists may be out of date for a known reason

repo == <<head, index, work, branchTexts, behind>>
panel == <<staged, unstaged, gitLoading, credDialog>>
gitVars == <<repo, panel, ops, typing, gitClicks, unsure>>

NoStatus == [f \in GitFiles |-> <<" ", " ">>]

\* git status --porcelain: X compares HEAD and index, Y index and work tree.
Letter(a, b) == CASE a = b -> " "
                  [] a = 0 /\ b # 0 -> "A"
                  [] a # 0 /\ b = 0 -> "D"
                  [] OTHER -> "M"
StatusCode(f) == IF head[f] = 0 /\ index[f] = 0 /\ work[f] # 0 THEN <<"?", "?">>
                 ELSE <<Letter(head[f], index[f]), Letter(index[f], work[f])>>
Status == [f \in GitFiles |-> StatusCode(f)]

\* parseGitStatus: which lists a code belongs to.
parseGitStatus(code) ==
    IF code = <<"?", "?">> THEN [staged |-> FALSE, unstaged |-> TRUE]
    ELSE [staged |-> code[1] \notin {" ", "?"}, unstaged |-> code[2] \notin {" ", "?"}]

\* What loadStatus shows of a status.
Staged(status) == {f \in GitFiles : parseGitStatus(status[f]).staged}
Unstaged(status) == {f \in GitFiles : parseGitStatus(status[f]).unstaged}

\* The panel has loaded the status of a work tree with changes, none staged.
GitInit ==
    /\ head \in [GitFiles -> 0 .. 1] /\ index = head
    /\ work = [f \in GitFiles |-> MaxText]
    /\ branchTexts = [f \in GitFiles |-> 1]
    /\ behind \in BOOLEAN
    /\ staged = Staged(Status) /\ unstaged = Unstaged(Status)
    /\ gitLoading = FALSE /\ credDialog = "none"
    /\ ops = {}
    /\ typing = 0 /\ gitClicks = 0 /\ unsure = FALSE

\* The file of an editor is saved, a run writes an artifact: the panel does not know.
TypeFile(f, t) ==
    /\ typing < MaxTyping /\ typing' = typing + 1
    /\ t # work[f] /\ work' = [work EXCEPT ![f] = t]
    /\ unsure' = TRUE
    /\ UNCHANGED <<head, index, branchTexts, behind, panel, ops, gitClicks>>

-----------------------------------------------------------------------------
\* The buttons.  Stage, unstage and discard are not disabled while another
\* operation runs, and Ctrl+Enter commits while one does.
Press(kind, fs) ==
    /\ gitClicks < MaxGit /\ gitClicks' = gitClicks + 1 /\ Cardinality(ops) < MaxOps
    /\ ops' = ops \cup {[kind |-> kind, file |-> fs, snap |-> NoStatus, n |-> gitClicks + 1,
                         at |-> IF kind = "refresh" THEN "ask" ELSE "sent"]}
    /\ unsure' = IF kind = "refresh" /\ ops = {} THEN FALSE ELSE unsure \/ ops # {}
    /\ UNCHANGED <<repo, staged, unstaged, typing>>

PressFile(kind, f) ==
    /\ kind \in FileKinds /\ f \in IF kind = "unstage" THEN staged ELSE unstaged
    /\ Press(kind, {f}) /\ UNCHANGED <<gitLoading, credDialog>>
PressAll(kind) ==
    /\ kind \in AllKinds /\ (IF kind = "unstageAll" THEN staged ELSE unstaged) # {}
    /\ Press(kind, GitFiles) /\ UNCHANGED <<gitLoading, credDialog>>
stageFile(f) == PressFile("stage", f)
unstageFile(f) == PressFile("unstage", f)
discardFile(f) == PressFile("discard", f)
stageAll == PressAll("stageAll")
unstageAll == PressAll("unstageAll")
discardAll == PressAll("discardAll")
handleCommit ==
    /\ staged \cup unstaged # {}
    /\ Press("commit", GitFiles) /\ gitLoading' = TRUE /\ UNCHANGED credDialog
PressRemote(kind) ==
    /\ kind \in {"push", "pull", "sync", "fetch"} /\ ~gitLoading
    /\ Press(kind, {}) /\ gitLoading' = TRUE /\ UNCHANGED credDialog
handlePush == PressRemote("push")
handlePull == PressRemote("pull")
handleSync == PressRemote("sync")
handleFetch == PressRemote("fetch")
handleSwitchBranch == Press("switch", {}) /\ UNCHANGED <<gitLoading, credDialog>>
handleCreateBranch == Press("create", {}) /\ UNCHANGED <<gitLoading, credDialog>>
handleSaveRemote == Press("remote", {}) /\ UNCHANGED <<gitLoading, credDialog>>
Refresh == Press("refresh", {}) /\ UNCHANGED <<gitLoading, credDialog>>

\* handleCredentialSubmit: the dialog closes and its operation is tried again.
SubmitCredentials ==
    /\ credDialog # "none"
    /\ Press(IF credDialog = "push" THEN "pushAuth" ELSE "pullAuth", {})
    /\ credDialog' = "none" /\ gitLoading' = TRUE
CancelCredentials ==
    /\ credDialog # "none" /\ credDialog' = "none"
    /\ UNCHANGED <<repo, staged, unstaged, gitLoading, ops, typing, gitClicks, unsure>>

-----------------------------------------------------------------------------
\* External: git does what was asked.  reset is without --hard; a commit of
\* this panel always has stage_all; checkout and pull refuse a dirty tree.
Clean == index = head /\ work = index
ResetIndex(fs) == /\ index' = [f \in GitFiles |-> IF f \in fs THEN head[f] ELSE index[f]]
                  /\ UNCHANGED <<head, work, branchTexts, behind>>
reset(fs) == ResetIndex(fs)
add(fs) == /\ index' = [f \in GitFiles |-> IF f \in fs THEN work[f] ELSE index[f]]
           /\ UNCHANGED <<head, work, branchTexts, behind>>
commitAll == /\ head' = work /\ index' = work /\ UNCHANGED <<work, branchTexts, behind>>
checkoutFiles(fs) == /\ work' = [f \in GitFiles |-> IF f \in fs /\ index[f] # 0 THEN index[f]
                                                    ELSE work[f]]
                     /\ UNCHANGED <<head, index, branchTexts, behind>>
checkoutAndClean == work' = index /\ UNCHANGED <<head, index, branchTexts, behind>>
pullCommits == \E f \in GitFiles :
                   /\ head' = [head EXCEPT ![f] = MaxText] /\ index' = head' /\ work' = head'
                   /\ behind' = FALSE /\ UNCHANGED branchTexts
switchBranch == /\ head' = branchTexts /\ index' = branchTexts /\ work' = branchTexts
                /\ branchTexts' = head /\ UNCHANGED behind
\* The new branch takes the work tree along; the one that is left becomes the other.
createBranch == branchTexts' = head /\ UNCHANGED <<head, index, work, behind>>

Effect(kind, fs) ==
    \/ kind \in {"stage", "stageAll"} /\ add(fs)
    \/ kind \in {"unstage", "unstageAll"} /\ reset(fs)
    \/ kind = "discard" /\ checkoutFiles(fs)
    \/ kind = "discardAll" /\ checkoutAndClean
    \/ kind = "commit" /\ ~Clean /\ commitAll
    \/ kind \in {"pull", "sync", "pullAuth"} /\ behind /\ Clean /\ pullCommits
    \/ kind \in {"pull", "sync", "pullAuth"} /\ ~behind /\ UNCHANGED repo
    \/ kind \in {"push", "pushAuth"} /\ ~behind /\ UNCHANGED repo
    \/ kind = "fetch" /\ UNCHANGED repo
    \/ kind = "switch" /\ Clean /\ switchBranch
    \/ kind = "create" /\ createBranch
    \/ kind = "remote" /\ UNCHANGED repo

\* What a handler learns: success, a refusal (success is false), an
\* authentication error, or a rejected promise, which may come after git has
\* done its work.
Move(o, at) == ops' = (ops \ {o}) \cup {[o EXCEPT !.at = at]}
GitServed(o) ==
    /\ o.at = "sent"
    /\ \/ Effect(o.kind, o.file) /\ Move(o, "ok") /\ UNCHANGED unsure
       \/ Effect(o.kind, o.file) /\ Move(o, "lost") /\ unsure' = TRUE
       \/ UNCHANGED repo /\ Move(o, "lost") /\ UNCHANGED unsure
       \/ UNCHANGED repo /\ Move(o, "refused") /\ UNCHANGED unsure
       \/ /\ o.kind \in {"push", "pushAuth", "pull", "pullAuth", "sync"}
          /\ UNCHANGED repo /\ Move(o, "auth") /\ UNCHANGED unsure
    /\ UNCHANGED <<panel, typing, gitClicks>>

\* After the answer: the status is loaded, whatever exec answered but only
\* after a success of the others.
ReloadsAfter(o) ==
    \/ o.at = "ok"
    \/ o.at = "refused" /\ o.kind \in FileKinds \cup AllKinds \cup {"pushAuth"}
AsksCredentials(o) ==
    CASE o.kind = "push" -> o.at \in {"auth", "lost"}
      [] o.kind \in {"pull", "sync"} -> o.at \in {"auth", "lost", "refused"}
      [] o.kind = "pushAuth" -> o.at = "auth"
      [] o.kind = "pullAuth" -> o.at \in {"auth", "refused"}
      [] o.kind = "fetch" -> o.at = "lost"
      [] OTHER -> FALSE
DialogFor(o) == IF o.kind \in {"push", "pushAuth"} THEN "push" ELSE "pull"

\* The handler returns; handleSync goes on to push in every case.
Finish(o) ==
    IF o.kind = "sync"
    THEN /\ ops' = (ops \ {o}) \cup {[o EXCEPT !.kind = "push", !.at = "sent", !.snap = NoStatus]}
         /\ gitLoading' = TRUE
    ELSE /\ ops' = ops \ {o}
         /\ gitLoading' = (gitLoading /\ o.kind \notin LoadingKinds)

Answered(o) ==
    /\ o.at \in {"ok", "refused", "auth", "lost"}
    /\ IF ReloadsAfter(o) THEN Move(o, "ask") /\ UNCHANGED gitLoading ELSE Finish(o)
    /\ \/ AsksCredentials(o) /\ credDialog' = DialogFor(o)
       \/ ~AsksCredentials(o) /\ UNCHANGED credDialog
    /\ UNCHANGED <<repo, staged, unstaged, typing, gitClicks, unsure>>

\* loadStatus: the runner reads the status, later the panel shows it.
StatusRead(o) ==
    /\ o.at = "ask"
    /\ ops' = (ops \ {o}) \cup {[o EXCEPT !.snap = Status, !.at = "read"]}
    /\ UNCHANGED <<repo, panel, typing, gitClicks, unsure>>
StatusShown(o, ok) ==
    /\ o.at = "read"
    /\ \/ /\ ok
          /\ staged' = Staged(o.snap) /\ unstaged' = Unstaged(o.snap)
          /\ UNCHANGED unsure
       \/ ~ok /\ unsure' = TRUE /\ UNCHANGED <<staged, unstaged>>
    /\ Finish(o)
    /\ UNCHANGED <<repo, credDialog, typing, gitClicks>>

\* The section "advanced", and the lists of files.
AdvancedButtons ==
    \/ handlePush \/ handlePull \/ handleFetch
    \/ handleSwitchBranch \/ handleCreateBranch \/ handleSaveRemote
StagedList == unstageAll \/ \E f \in GitFiles : unstageFile(f)
ChangesList ==
    \/ stageAll \/ discardAll
    \/ \E f \in GitFiles : stageFile(f) \/ discardFile(f)

GitNext ==
    \/ \E f \in GitFiles, t \in 0 .. MaxText : TypeFile(f, t)
    \/ StagedList
    \/ ChangesList
    \/ AdvancedButtons
    \/ handleCommit
    \/ handleSync
    \/ Refresh
    \/ SubmitCredentials
    \/ CancelCredentials
    \/ \E o \in ops : GitServed(o)
    \/ \E o \in ops : Answered(o)
    \/ \E o \in ops : StatusRead(o)
    \/ \E o \in ops, ok \in BOOLEAN : StatusShown(o, ok)

\* Every request is answered in the end, if only by an error.
GitStep == \E o \in ops : GitServed(o) \/ Answered(o) \/ StatusRead(o)
                          \/ \E ok \in BOOLEAN : StatusShown(o, ok)
GitFairness == WF_gitVars(GitStep)
-----------------------------------------------------------------------------
\* When everything is answered and nothing outside the panel, no overlap and
\* no lost answer explains a difference, the panel lists exactly the files
\* whose index or work tree differs: no change is invisible to a commit.
NoChangeHidden ==
    ops = {} /\ ~unsure =>
        /\ staged = {f \in GitFiles : head[f] # index[f]}
        /\ unstaged = {f \in GitFiles : index[f] # work[f]}

\* Staging, unstaging, committing, pushing and reloading never touch the work
\* tree: a text the user has saved is replaced only by another save, by a
\* discard he confirmed, or by a pull or a switch on a clean tree.
WorkKept ==
    [][\A f \in GitFiles : work'[f] # work[f] =>
          \/ typing' # typing
          \/ Clean
          \/ \E o \in ops : o.at = "sent" /\ o.kind \in {"discard", "discardAll"}]_gitVars

\* The panel does not stay disabled: whatever is refused, lost or asked for
\* again, loading ends.
GitSettled == ~gitLoading
=============================================================================
