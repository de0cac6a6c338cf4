# Verification of the dbt workspace

TLA+ specifications of this repository where concurrency, failure and ordering decide
whether it is correct. Two halves:

* the FastAPI service `dbt-runner`, which executes dbt for many projects in several
  uvicorn workers that share one Redis and one database;
* the web application `nextjs`: pages whose handlers are closures that go on after an
  await with what they captured, whose answers come back in any order, and the routes
  behind them that read a row and then write it.

TLC checks the specifications on small instances; TLAPS proves the safety properties of
both halves for every instance.

`PROJECT.json` ties the two together: the definition-to-source map, the runs, the
mutants that show that each property can fail, the hazards and the theorems.

## 1. The system

### Components, their state and their operations

| Component | State | Operations | Module |
|---|---|---|---|
| Concurrency slots, `core/global_semaphore.py` (and the memory budget in `core/duckdb_resources.py`) | two Redis sorted sets of tokens scored by expiry; a renewal task per call | acquire or 429, acquire by polling, renew, release; expiry; crash | `GlobalSemaphore` |
| Project lock, `core/file_lock.py` | one Redis key per project and resource, with the token of its setter and a TTL; a renewal task per call | lock, wait, renew, release by token, `force_release`; expiry; crash | `ProjectLock` |
| Life of a dbt run, `services/dbt_service.py`, `services/run_launcher.py`, `routers/sse.py`, `services/command.py`, `routers/process.py`, `routers/dbt.py`, `services/state.py` | the row in `dbt_runs`; `target/run_results.json` and the saved state on disk; the process tables (`_local_processes` per worker, `running_process:*` and `...:cancelled` in Redis) | three entry points (`POST /dbt/command`, `POST /dbt/runs` and the scheduler, `POST /sse/dbt/{project}`), two cancel endpoints | `RunLifecycle` |
| Warm workers, `services/dbt_worker.py` | a map from projects to pools, `in_use`, the queue, the processes, a semaphore over all of them | `run`, sweep, start, queue, recycle, `release_project` | `WarmWorkers` |
| Start of the runner, `main.py` | a marker file and a lock file per launch; the rows; the Redis keys | reconcile, mark, purge; crash and restart of a worker; relaunch | `RunnerStartup` |
| Open files of the IDE, `DevelopLayout.tsx`, `develop-session.ts` | tabs with text, original and mark; selected file; session storage | open, type, save, format, rename, move, delete, draft, watcher event, reload | `EditorBuffers` |
| File explorer, `FileExplorer/*` | listed folders, selection, inline input, search | expand, create, rename, drag, upload, delete, refresh, search | `FileTree`, `FileSearch` |
| File watcher, `useFileWatcher.ts` | an EventSource and a timer | connect, fail, reconnect, leave | `FileWatcher` |
| dbt commands, `useDbtRunStream.ts`, `DevelopLayout.tsx` | streams outside the component, listeners, buffer; the command slot | run, preview, explain, compile, cancel, leave and open the IDE | `RunStream`, `RunConsole` |
| Run options, `RunOptionsDialog.tsx`, `run-options.ts`; `ListResourcesDialog.tsx`, `RunOperationDialog.tsx` | options in storage, dialog, toolbar, request; lists and arguments | open, edit, apply, run, list, run an operation | `RunOptions`, `ResourceDialogs` |
| Source control, `SourceControlPanel.tsx` | staged and unstaged lists, loading, credential dialog | stage, discard, commit, pull, push, sync, switch | `GitPanel` |
| Run history, `RunsView.tsx`; log hub of `routers/sse.py` | dashboard, detail, live log; buffer and subscribers of a run | poll, filter, select, attach; publish, subscribe | `LiveRuns` |
| Schedules, `SchedulesView.tsx`, `ScheduleDialog.tsx`, `orchestrate/server.ts`, `services/scheduler.py` | the row, the form, the preview, the tick | create, edit, pause, delete; read, advance, launch, crash | `Schedules` |
| Scheduler's leader, `services/scheduler.py`, `core/redis_client.py` | a lease and a maintenance key in Redis; the loop of each process | acquire, refresh, tick, maintain, stop, crash, expiry, outage of Redis | `SchedulerLeader` |
| Connections, `ConnectionDialog.tsx`, `connections/server.ts`, `validation.ts` | type, authentication, two secrets | create, edit, change type, delete | `ConnectionSecrets` |
| Assistant, `useAgentStream.ts`, `AgentPanel.tsx` | messages, session, stream | send, stop, new, reopen | `AgentChat` |
| Data loads, `SourceDialog.tsx`, `ingest/server.ts`, `useIngestStream.ts` | the wizard, the stored source; the load under way, its log | fill in, save; run, stop | `IngestSources`, `IngestStream` |
| SQL console, `SqlConsole.tsx` | tabs, saved files, rows, requests | type, run, format, save, close | `SqlConsole` |
| Boards, `DashboardWorkspace.tsx` | draft, published version, render | open, edit, render, publish, discard | `Boards` |
| Targets, `TargetsPanel.tsx`, `projects/server.ts` | rows, the selected target, state artifacts | add, rename, repoint, remove, select | `ProjectTargets` |
| Model connections, `AssistantProvidersCard.tsx`, `settings/server.ts` | routes, keys, two tabs | add, edit, check, save, remove | `AiProviders` |
| Session lock, previews and queries of the runner, ingestion and lakehouse of the runner, git and file services, adapters, agent harness, sign-in, catalog | | | not modelled, see 5 |

### How they interact

A request (or the scheduler) inserts a `running` row, takes a **slot**, takes the
**project lock** `dbt_run`, samples the mtime of `run_results.json`, and executes dbt
in a **warm worker**, or as a **subprocess** when that fails. Still under the lock it
saves the dbt state; then it leaves lock and slot, reads `run_results.json` and
completes the row. The **cancel endpoints** act from outside: they kill the subprocess
that the project has on the worker which serves the request, leave a flag in Redis,
release the project's warm workers (`/process/cancel` only) and delete the lock by
force. **Regenerating a profile** of a file-backed DuckDB releases the warm workers
too, at the start of every run. When a **worker starts** it cancels the rows that say
`running` (once per launch) and deletes every lock (always).

In the **web application** a page sends requests to the routes of Next.js (which read
and write the database) or to the runner, and applies the answers. Commands of the IDE
first save the open tab, then go over HTTP or over a **stream** that outlives the page.
The **watcher** tells the explorer and the tabs of changes on disk; git operations and
dbt change the disk as well. A **schedule** is a row that the page writes, the back end
rewrites and the runner's tick advances. The assistant, loads and queries are streams or
requests whose page may be left, stopped or reused before they end.

### What is hard

* *Leases.* Slots and locks are kept by renewal tasks that can be late, fail, or lose
  their key, while the body they protect goes on.
* *Things deleted under somebody's feet.* `force_release`, `release_project` and the
  purge at start do not ask who is using what they remove.
* *Identity.* Processes, flags and pools are known by project, not by run: a handler may
  hit the next run.
* *Gaps.* Between the start of dbt and its registration; between the unlock and the
  reading of the results; between a read of a row and the write that relies on it.
* *Every way out.* A run can be refused, time out, fall back, be retried, be killed,
  lose its client or its task; each way has to give back permits, counts, locks and
  leave a final row. In the browser: a spinner, a slot, a disabled panel.
* *Several workers.* They share Redis, the database and the disk and nothing else.
* *Closures.* What runs after an await sees the render in which the handler started,
  not what was clicked since.
* *Answers in any order.* Some hooks number their requests and drop the late ones, some
  do not; an effect that judges by a list meets it empty, old or late.
* *Several copies of one thing.* Options in storage, dialog and toolbar; a query in a tab
  and in a file; a board's draft, baseline and render; a key and its endpoint.

`PROJECT.json` lists these as hazards, each at its line, with the properties that
cover it.

## 2. The modules

```
LeasePool            what a lock or semaphore with leases promises
  ^        ^
GlobalSemaphore   ProjectLock        (both implement LeasePool)
        \           /
       RunLifecycle                  (uses what they promise as atomic steps)
WarmWorkers                          (the pools that RunLifecycle sees as "warm")
RunnerStartup | SchedulerLeader      (what happens around all of it; MCRunnerStartup)

MCIde    = EditorBuffers | FileTree | FileSearch | FileWatcher | RunConsole (EXTENDS
           RunStream) | RunOptions | ResourceDialogs | GitPanel
MCPages  = LiveRuns | Schedules | ConnectionSecrets | AgentChat | IngestSources |
           IngestStream | SqlConsole | Boards | ProjectTargets | AiProviders
```

`*Proofs` modules hold the theorems, `MC*` modules the values that TLC needs and a cfg
cannot write.

**LeasePool** is the abstract specification: a set of holders that never outgrows its
limit; a holder leaves when its body ends, dies, or its lease is no longer in order.

**GlobalSemaphore.** One token is one call at a time. `slots` and `left` are the sorted
sets, with the time left instead of an absolute expiry, so no clock has to be bounded.
`Acquire`, `Reject`, `PollAcquire` and `PollFull` run the Lua script (prune, count,
add; the pruning also when the answer is no); `Renew` is the `ZADD` of `_renew_loop`,
which would add a member that is gone; `RenewError` ends the task and not the body;
`Abandon` is a crash or a failed `ZREM`. `EngineSlots` is the number by which
`duckdb_resources` divides the memory. `Tick` does not pass over a renewal that is
`MaxLag` late, and `TimingAssumption` says that such a renewal still meets its lease
(40 s + lag < 120 s in the code).

**ProjectLock.** One caller is one call of `AsyncFileLock.lock`. `SetNX`, `Renew` and
`DeleteOwn` are the three atomic Redis operations; `ForceRelease` deletes whatever is
there. `forced` remembers whose key was deleted by force, which the properties need to
say what is promised to the others.

**RunLifecycle.** The runs of one project. `loc` is where the coroutine of a run is
between two awaits that matter; an action is what happens up to the next one. Slots and
lock are single steps here, as their modules justify while renewals are on time. The
content of `target/` is the run that wrote it, and "newer than my sample" is membership
in `fresh`. The warm pool of a worker is seen through `warm`, `orphan` (in a pool that
was released) and `epoch` (a cancelling release came since the call). `Stop`/`CancelRun`,
`StopUntracks` and `StopUnlocks` are the parts of a cancel handler between its awaits;
one handler is in progress at a time. `Disconnect` and `TaskCancelled` are the
`CancelledError` of a lost client and of a shutdown, at any await.

**WarmWorkers.** The pools of one uvicorn worker, with one dbt process each (the
default). A pool keeps its identity when it leaves the map: calls that looked it up
before go on using it. The cooperative scheduler of asyncio is used where the code
relies on it: `EnterStarted` looks the pool up and counts the call in one step because
there is no await in between; `EnterUnstarted` and `StartPool` are two because there is.

**RunnerStartup.** Workers as processes that interleave between any two file operations
(`exists`, `O_EXCL`, the UPDATE, `touch`, `unlink`), with crashes in between, restart by
uvicorn, and a relaunch of the runner, which changes the names of the files. The two
kinds of keys of a run (`file_lock:*`, `running_process:*`) go together here.

**SchedulerLeader.** The loop of `RunScheduler` in each process, one action per Redis
command, so that the lease can change between `SET NX`, `GET`, `EXPIRE` and `DEL`. There is
no clock: the lease may end at any time, and the history `late` records that it ended
under a process that was still there, which needs a tick, a maintenance or an outage longer
than `scheduler_leader_ttl`; `overrun` is the same for the maintenance key. Processes
are taken to have different `_instance`s; the code uses `id(self)`, an address, which does
not promise that.

**The modules of the web application** share a convention. A handler is an action up to
its first await; what it captured travels in a record of the pending request; the
continuation is another action, which any handler or answer may precede. Where the code
guards an answer (a sequence number, an AbortController, a revision) the guard is an
operator of its own. React state is a variable of the same name. History variables, which
no guard reads, say what the properties exempt: two requests of a kind that overlap, an
edit of a row that changed meanwhile, and the like.

* **EditorBuffers**: the tabs, `selectedFile`/`activeTabPath`/`fileContent`, the disk, and
  what a reload restores. **FileTree**: a path is a sequence of names; moves, deletes and
  uploads go one path after the other, each followed by the refresh the code does.
  `PathAssumption` says what a project folder is: the parent of a path is a folder, a path
  that exists has all its folders, and no name is `..`. **Selection** is
  `Array.prototype.filter` as a relation (the one sequence of the kept elements): the
  library's `SelectSeq` is recursive, and the provers cannot unfold it.
  **FileSearch**, **FileWatcher**: one effect per query, one EventSource per project.
* **RunStream**: `activeStreams` is outside the component, listeners and the background
  buffer are explicit, messages are numbered. **RunConsole** extends it with the slot
  and the commands. **RunOptions**, **ResourceDialogs**: the texts of a field are the
  classes its validator tells apart. **GitPanel**: for each file the text in HEAD, index
  and work tree; git itself is external.
* **LiveRuns** joins the page with the log hub, **Schedules** the page, the back end and
  the scheduler's tick. **ConnectionSecrets**: a secret is the kind of authentication it
  was typed for. **AgentChat**, **IngestStream**: streams that are read while the page moves
  on. **IngestSources**: the wizard against the validation behind it. **SqlConsole**,
  **Boards**: files, drafts and the requests between them. **ProjectTargets**: the rows, the
  list a panel shows, the selected target, and state artifacts known by the row whose run
  saved them. **AiProviders**: a key is the endpoint it was typed for.

## 3. The runs

The runs of the runner check deadlock, but for `startup`: schedulers stop for good. A page
may stop: its bounds end, or the user does
nothing; the runs of `MCIde` and `MCPages` do not check it. States are distinct states.

| Run | Instance | Shows |
|---|---|---|
| `semaphore` | 2 HTTP and 1 polling run, 1 query, limits 2 and 1, TTL 3, interval 1, lag 1, faults (55 000 states) | pools within their limits, renewed bodies within them and within the memory shares, refinement of `LeasePool`, orphans are reclaimed, polling ends |
| `lock` | 3 callers, TTL 3, interval 1, lag 1, timeout 2, faults (11 000) | mutual exclusion of sound holders, refinement of `LeasePool`, keys of the dead expire, waiting ends |
| `runs` | one run per entry point, file-backed DuckDB, two attempts, no cancellation, long runs (325 000) | one dbt at a time, the saved state is the saver's |
| `runs_cancelled` | a background and a streamed run, one cancel request of either kind plus lost clients and shutdown (390 000) | killed dbt stays down, terminal rows are final, served runs settle, polling ends |
| `warm` | 3 calls of 2 projects, 2 permits, room for 1 project, releases, failing starts (95 000) | `in_use` and permits exact, one job per worker, sweeps spare jobs, calls return |
| `startup` | 3 workers, 2 runs, database faults; 3 schedulers, 1 outage of Redis (427 000) | one reconciler, the marker is trustworthy, one scheduler at a time, ticks go on |
| `ide` | 2 tabs, 2 texts, 2 calls under way and 3 clicks; 6 tree entries and 4 gestures; 3 commands and 3 mounts; 2 edits of the options; 1 git file with 2 operations at a time (376 000) | see below |
| `pages` | 2 runs with a line each; 3 slots of time, so that one can be missed, and 2 saves of a schedule; 7 connection types and 3 submits; 2 conversations; 3 loads; 2 query tabs; 5 steps on the targets; 2 browser tabs with 7 steps (287 000) | see below |

`MCIde`, `MCPages` and `MCRunnerStartup` hold components that share no state. Each behaviour exercises one of
them (`focus`, `page`), so their state spaces add up: the run checks for each component
what a run of its own would. Their liveness is one formula, []<> of "every component is
settled": the components at rest are settled, so it says the same as one formula for each,
and TLC builds one graph for it.

The properties are stated one by one in the modules, and a run checks them in groups that
belong together, each group under one name: of the runner `PoolsWithinLimit`,
`SlotsComeBack`, `LockComesFree`, `PoolsExact`, `OneScheduler` (owner of the lease, one
ticker, one maintainer); of the IDE `TabsHonest` (marks of unsaved
text), `PanelsFaithful` (tree, uploads, changes, watcher), `CommandsSound` (saved text, slot),
`RequestsAsShown` (options, macros, rows), `UserWorkKept` (what a step may never lose) and
`IdeSettles` (liveness); of the pages `FiresAsPlanned`, `SecretsOfKind`, `StreamsInPlace`
(answers, loads), `RemovedTargetsGone`, `KeysStayHome`, `QueriesKept`,
`LateAnswersDropped` (runs, previews, conversations) and `PagesSettle` (liveness). The
parts are named below. Type invariants and `KeyOnlyLostByForce` of the runner are proved
(section 4) and not checked again.

What `ide` shows. *Tabs*: the mark of unsaved text is exact (`DirtyExact`), unsaved text
is only lost by the user's own edit, close, format or save (`UnsavedKept`), the saving
indicator goes out (`SavingOver`). *Explorer*: loaded folders show what is on the runner once
everything is answered (`TreeCurrent`), a move never takes the source of a later one
(`MovesKeepSources`), an upload stays in its folder (`UploadStaysInside`), late search
results are dropped and the spinner stops (`LateResultsDropped`, `SearchSettled`).
*Watcher*: one EventSource, of the project on screen, connected again after a failure
(`OneSource`, `ConnectedOrLeft`). *Commands*: messages are shown in order and once
(`ShownInOrder`), commands run on acknowledged text (`RunsOnSavedText`), the slot is freed
on every way out (`SlotFreed`). *Options*: no contradictory request (`RequestConsistent`),
no full refresh the dialog would not show (`FullRefreshShown`), Apply without an edit
changes nothing (`UntouchedApply`), arguments belong to their macro (`ArgsBelong`), rows to
their target (`RowsOfTarget`). *Git*: no hidden change, the work tree is only changed by
what says so, the panel is enabled again (`NoChangeHidden`, `WorkKept`, `GitSettled`).

What `pages` shows. *Runs*: late answers never replace newer ones and the live log is
complete at the end (`DashboardNeverGoesBack`, `DetailOfSelected`, `LiveLogComplete`).
*Schedules*: a new one does not fire at once, no slot fires twice, a late preview does not
judge another cron, an active schedule is armed (`NewScheduleWaits`, `FiresOnceAlone`,
`PreviewCurrent`, `Armed`). *Connections*: no secret of another kind is used
where the validator guards it, no second secret is left over (`GuardedSecretsMatch`,
`NoOrphanSecret`). *Assistant*: answers stand below their prompts, a conversation that was
left does not come back (`PromptFirst`, `LeftForGood`). *Loads*: the back end refuses what
the wizard sends for one reason only, one load is read at a time, the log is its own,
running ends (`RefusedForInitialOnly`, `OneLoadRead`, `LogOfLatest`, `IngestSettled`). *SQL*:
rows of the selected target, tabs are not lost or marked saved wrongly (`ResultsOfTarget`,
`UnsavedQueryKept`, `SavedMarkHonest`). *Boards*: the published text is the file's and gets
rendered (`PublishedIsFile`, `ViewRendered`). *Targets*: the selected target exists, a
reused name does not inherit state, the panel is enabled again (`SelectedExists`,
`NoInheritedState`, `TargetEditOver`). *Model connections*: keys belong to the endpoint they
are stored with and used for, and go with their route (`KeyForEndpoint`, `NoKeyLeft`,
`SavedKeyGoesHome`).

The bounds are small, but chosen so that the cases happen: limits below the number of
callers, more callers than permits and more projects than places, an expiry that a
lag can miss (a mutant that shortens a lease by one unit is found), one more attempt
than one, a second run to be hit by what was meant for the first; in the pages always two
answers that can overtake each other, two texts to tell apart, and one gesture more than
the longest mutant needs. `runs_cancelled` has one attempt per run and a project without
file-backed DuckDB; retries and profile releases under cancellation are in the theorems,
which bound neither. `RunLifecycle` and `WarmWorkers` have calls that end and are not
repeated; a longer history adds calls, not kinds of calls, and the leases, which are what
one call leaves to the next, are checked with calls that repeat for ever.

Every property of these runs has a mutant, defined before the operator it changes: a
plausible mistake in the code (a dropped guard, a missing reset) under which TLC finds the
property violated.

### Disagreements found

Four runs are expected to find a violation: the property states what a comment or a
document says, and the code does otherwise.

| Run | Property | What happens |
|---|---|---|
| `runs_forced` | `OneDbtAtATime` | `POST /dbt/runs/{id}/cancel` frees the project lock, but dbt goes on in its warm worker; the next run starts beside it. |
| `startup_twice` | `LiveRunsSurvive` | A worker that meets the lock file serves before the reconciliation of the other is over, which cancels its new run. |
| `stream_replay` | `NothingMissed` | The listener that `sendCommand` adds is not removed when the IDE is left, so messages go to it instead of into the buffer, and nothing is replayed. |
| `target_kept` | `ChoiceKept` | Opening the Environments tab mounts the panel with an empty list; its effect takes the selected target for a removed one and every command then runs on `dev`. |

Definitions in the modules that also do not hold, each a sentence of a doc or a comment;
putting the name into a cfg of its module's run as INVARIANT or PROPERTY shows it:

* `RunLifecycle`: `StopStops` (the registration of a subprocess expires after 300 s, Stop
  then skips it), `ResultsAreOwn` (results are read after the unlock), `CancelledWasThere`
  (the cancelled flag belongs to the project and lives 60 s), `AllRunsSettle` (a 429 leaves
  the row of `POST /dbt/command` running until the next launch). They need
  `Cancels = {"stop"}` and long runs, two background runs, or a synchronous run.
* `SchedulerLeader`: `TicksWithoutRedis` ("Without Redis the loop still runs",
  `scheduler.py:15`: the check of Redis at start-up keeps the client also when its ping
  fails, so `get_redis` does not raise again, and the commands of `_acquire_leader` fail
  outside its `try`); `ExactlyOne` ("Exactly one process does this at a time",
  `scheduler.py:11`: nobody renews the lease during a tick).
* `EditorBuffers!DraftStaysPrivate` ("chỉ nằm trong bộ nhớ", in memory only, until `saveDraftAs`,
  `docs/develop/01-workspace.md:97`): deleting the file on screen clears `selectedFile` and keeps
  `activeTabPath`; a folder's rename that captured both and is answered after a draft was
  opened moves `activeTabPath` alone (`DevelopLayout.tsx:1755`), and the next save writes
  the draft to the runner under `__draft__/`. The attempt to prove the property found it;
  TLC needs two clicks more than `Ide.cfg` has (`MaxClicks = 5`; `MaxEvents = 0` and one text will do).
* `EditorBuffers!CleanTabCurrent`: an event that comes within the window after a save is
  taken for its echo. `RunConsole!OneCommand`: compile looks at the slot and does not take
  it. `Schedules!FiresOnce`: a tick inside a PATCH; `PublishKept`: pausing a schedule drops
  its schema. `ConnectionSecrets!SecretsMatch`: dremio, rest and spark keep a blank secret
  over a change of authentication. `AgentChat!HistoryOfSession`: histories are answered in
  any order. `SqlConsole!ResultsOfActive`: opening a saved query leaves the former rows on
  screen (`docs/explore-sql.md:49`). `Boards!ViewShowsPublished`: Discard does not mark the
  preview stale (needs `MaxBoardSteps >= 5`).

More of the same kind came up while modelling; the actions are in the modules, and each
can be seen with a small configuration of its own:

* a client that goes away between the start of dbt and its registration leaves dbt
  running and the lock free (`sse.py:171`; `Cancels = {"disconnect"}`, `OneDbtAtATime`);
* Stop served by another worker sets a flag that nobody reads before dbt has ended
  (`command.py:492`; two workers, `StopStops`);
* Stop does not reach a call that waits in a pool a profile regeneration released
  (`dbt_worker.py:300`; `FileDuckDB = TRUE`, `StopStops`);
* a streamed run that never got the lock stores what another run wrote meanwhile
  (`sse.py:421`; `ResultsAreOwn` with streams);
* cancelling a run that waits kills the dbt of the run that holds the lock (`dbt.py:584`);
* after a release, calls in the old pool and in the new one execute side by side, and a
  worker restarted in a pool outside the map is never stopped (`dbt_worker.py:237,300`);
* a restart that fails after a completed job makes the caller execute the command again
  (`dbt_worker.py:424`);
* one failed renewal of a slot ends its renewal task and admits one run too many after
  120 s (`global_semaphore.py:66`; this is why `RenewedWithinLimit` speaks of renewed
  bodies);
* with `max_concurrent_queries = 0` one query is admitted that has no memory share
  (`global_semaphore.py:153`, `duckdb_resources.py:127`; why the theorem asks for >= 1);
* a worker that starts deletes the locks of live runs (`main.py:284`).

Several of them need more than one uvicorn worker; the default is one.

In the web application, where a property has an exemption it is for one of these:

* *Editor*: a save that is answered overwrites typing since; two clicks on a file that is
  still being read open it twice; a move leaves `activeTabPath`, a delete leaves the tab.
* *Explorer*: a listing that was under way when a change was announced is not dropped;
  when one of several uploads fails the tree is not refreshed.
* *Commands*: a stream that ends without "completed" keeps the slot; the menu's Run does
  not save the tab (`RightPanel/index.tsx:112`); results of a preview are shown on whatever
  tab is active.
* *Options*: when the list of states fails, Apply silently drops deferral.
* *Git*: sync pushes after a failed pull; status loads are not ordered; the header says
  "Commit staged changes only", the commit stages everything.
* *Live log*: attaching again replays the buffer, so lines appear twice.
* *Schedules*: a load of the page resets an open form.
* *Connections*: credential text survives "Change type"; an edit from an old list keeps
  the wrong secret.
* *Assistant*: a prompt sent while the history loads is wiped by it.
* *Loads*: stopping before the session is known and starting again makes the first call
  clear the reference of the second.
* *SQL*: an open request of the assistant while the close dialog is shown makes "Save and
  close" save one tab and close another.
* *Boards*: one busy flag for overlapping requests marks edits during a render as fresh.
* *Targets*: a renamed target that is selected gives way to dev, since the list is read
  after the selection; a list read in the middle of a change can undo the fallback.
* *Model connections*: two saves that cross store the key of one with the endpoint of the
  other.

### Fairness

Liveness is checked under weak fairness of what the event loop and time do by
themselves, never of what a user or dbt does:

* `GlobalSemaphore`, `ProjectLock`: time passes, a sleeping coroutine wakes and tries
  again, a due renewal is served. Nothing makes a body end, so the liveness of waiting
  rests on the timeouts alone.
* `RunLifecycle`: each run takes its next step. Every await in it has a timeout
  (slot and lock, warm worker, `dbt_subprocess_timeout`); a streamed dbt ends by itself,
  which is the one assumption about dbt. No cancel handler is assumed to come or to end.
* `WarmWorkers`: each call takes its next step; its waits have timeouts.
* `SchedulerLeader`: the loop of a process goes on, and a lease whose owner is gone ends
  (its TTL). Nobody is assumed to stop, Redis to come back, or a due tick to succeed:
  `TicksGoOn` asks in its premise for one process and Redis that stay up.
* The pages: a request that was sent is answered or fails (the browser reports a lost
  connection as a failure), timers fire, the scheduler ticks. No click is assumed.
  `ConnectedOrLeft` needs in addition that not every attempt fails: failures are bounded by
  `MaxFailures`.

`OrphanReclaimed` assumes in the property itself that somebody keeps asking the pool:
the code prunes only then.

## 4. The proofs

Eight modules hold theorems, for all values of the constants that satisfy the `ASSUME`s
(finite sets of calls; a renewal period plus lag shorter than the lease; what a path is).
Every safety property that a passing run checks is stated by a theorem, listed in
`PROJECT.json`. A component's properties are proved from an inductive invariant: it holds
at first, every action keeps it (one lemma per action or group of actions), and it implies
the property. TLC checked the less obvious ones (the explorer, the tabs, the warm pools) on
small instances before they were proved.

* **GlobalSemaphoreProofs.** `SlotsWithinLimit` is not inductive: `Renew` adds a token
  without counting. `IInv` adds `RenewedInSlots`: a body with a living renewal task is
  a member, and `left + since >= LeaseTTL`; with `TimingAssumption` its lease has not
  expired, so it was never pruned and `Renew` adds nothing. From it: `SlotsBounded`,
  `RenewedBounded` (together `PoolsBounded`), `BudgetKept` (needs `MaxQueries >= 1`), `BudgetKeptByAll` (all
  bodies, when no renewal fails) and `Refinement` of both pools to `LeasePool`.
* **ProjectLockProofs.** `IInv` says that a sound holder owns the key and
  `ttl + since >= LockTTL`, that only holders renew, and that a call sleeps only before
  its timeout (which bounds `waitTime`). From it: `MutualExclusion`, `NoTheft` and
  `Refinement`.
* **RunLifecycleProofs.** `Inv`: the row of a run that is being served is `running`;
  where warm and subprocess dbt can be; and for each killed run that it is on its way
  out (`Down`): whoever waits for a killed worker has a changed epoch, whoever waits for
  a killed process sees the signal, and neither ends as a lock conflict, so no retry.
  From it `KilledForGood`; with the lemma that the row is written once, by the last
  step of the run, `TerminalStays` and `ServedSettle`. `Serial` strengthens the case
  without cancellation: whoever is between lock and unlock owns the key, nothing is
  leaked, and whoever may save has written `target/` itself; hence `DbtSerialised` and
  `SnapshotsOwned`, both under `Cancels = {}` (with cancellations the first is what
  `runs_forced` refutes).
* **RunnerStartupProofs.** `OneReconciler` is inductive; `MarkerMeansReconciled` needs
  that the worker about to touch the marker has settled the rows of earlier launches and
  that those never run again.
* **SchedulerLeaderProofs.** `SchedulerAlone`, for any number of processes and outages.
  `LeaseOwned` is inductive by itself: the lease is given when it is nobody's, deleted by
  its owner, and ends under him only as `late`; `OneTicker` follows. `OneMaintainer` is not:
  it needs `KeyHeld`, that the key is there while somebody maintains on its word.

* **WarmWorkersProofs.** `PoolsExact` counts: `in_use` is the number of calls in a pool,
  the permits out are those of calls. `IInv` adds where a pool may be known from
  (`PoolKnown`) and that a worker out of its queue is with the one call that took it
  (`WorkerOut`); each action moves one call, so the cardinalities change by one. From it
  `BooksBalance` and, for the sweep, `SweepsSpare`.
* **IdeProofs** and **PagesProofs** prove about the compositions `MCIde` and `MCPages`, with
  one invariant per component: `IdeSteps` (and its like for the pages) says that a step of
  the page is a step or a stutter of each component, so the invariants are proved apart.
  - *Tabs* (`TabsAreHonest`): `BufferInv` says that every tab's mark is exact and what
    each request carries until its answer (`CallOK`): a save the text that was on screen, a
    rename a pair of `Renames`. The same lemmas give `UnsavedKept`.
  - *Explorer* (`PanelsAreFaithful`): `TreeCurrent` only speaks of rest, and says nothing
    of how it is reached. `TreeBase` holds the types, that the project has every folder of
    its paths (`Complete`; so no path is moved into itself and relocation is one-to-one) and
    what a task carries (`TaskOK`; `UploadStaysInside` and `MovesKeepSources` are
    in it: no source of a drag is a prefix of a later one). `Seen` follows a change through
    its phases, for all histories without overlap: `AtRest` (each loaded folder is right,
    or a listing of it or an event for it is on its way), `Undone` (a change has begun),
    `Created` (one folder may be shown without the new path), `Relocating` (what is shown,
    or will be, is what the runner has once its paths are put where they went: `Fits`).
    Its core is `RelocatedChildren`: what a folder holds after a relocation is what it
    held, relocated, but for the folder that is left and the one that is entered. The
    lemmas about paths before it (prefix, parent, relocation and its inverse) are proved name
    by name.
  - *Git and watcher*: `StatusTells` (the lists in the panel are the state the repository
    had when they were read, unless something is marked as moved since); one EventSource or
    one timer, of the project on screen.
  - *Commands* (`TerminalInOrder`, `CommandsAreSound`): what waits in the buffer came after
    what was shown, and nothing waits while somebody listens; a request holds the slot of
    the page now open. *Dialogs* (`RequestsMatchDialogs`): the options in storage, dialog and
    toolbar satisfy the constraints between them that a request must satisfy.
  - *Pages*: the latest request number belongs to what is on screen (`LooksInv`); the lines
    in buffer and queue continue those in the log (`Feeds`, for `LogComplete`); due times lie
    ahead of what fired (`ScheduleInv`); what a save carries fits what was stored when it
    was read, unless the history variable says that two crossed (`AiReadHolds`,
    `SentForKind`, `OneActive`, `ShownExist`).

Only model-checked, since it needs fairness and ENABLED: all liveness (`SlotsComeBack`,
`LockComesFree`, `PollingEnds`, `CallsReturn`, `TicksGoOn`, `IdeSettles`, `PagesSettle`, with
their parts `OrphanReclaimed`, `WaitingEnds`, `AbandonedKeyExpires`, `SavingOver`,
`SearchSettled`, `ConnectedOrLeft`, `GitSettled`, `Armed`, `IngestSettled`,
`ViewRendered`, `TargetEditOver`). The four disagreements are refutations and stay with TLC
as well.

To be reasoned about, some operators are written without recursion or overlapping cases:
`Selected` for filters, `RunOptions!FirstOf` for the first of several targets,
`FileTree!ShownAt` for the tree after a rename, `RunStream!Replay` from the last message
that decides. The runs check the same definitions.

## 5. Not modelled

* Log text, output parsing, argument checks, rendering of `profiles.yml`; requests that
  are refused before they have a row.
* The `-1`/output of dbt beyond "ok", "failed", "conflicting lock", "cancelled".
* A `force_release` for the `preview` and `compile` resources (planned with them).
* The cancellation of a call inside the warm pool and its shutdown: `RunLifecycle` has
  the effect on a run, `WarmWorkers` does not have the step.
* More than one warm worker per project; the choice of the least recently used pool
  (any candidate may go).
* A second `CancelledError` during the cleanup of a lost client, and a generator that is
  closed at a `yield`.
* Two cancel handlers at the same time.
* The session lock of the runner: `SessionLockService` has no caller but a test script.
* What maintenance deletes and the locks it takes, `last_status` of a schedule, full subscriber queues of the log hub; previews, compiles and queries of
  the runner, which use the pools, slots and locks modelled here.
* The runner's ingestion, lakehouse, git and file services: their logic is in DuckDB, git
  and the file system; the pages see their effect.
* In the web application: layout, drawing, menus, the lineage graph, the catalog, the
  project list and its forms, sign-in, thin routes. Initialising a git repository and the
  unwired Commit All. The test of a connection or target, the usage check before a
  connection is deleted. Labels, models and the default mark of a model connection.
* A dialog of connections that is reopened before its former save is answered; more than
  one change of a target under way.

## 6. Plan

1. The serialisation of dbt under those cancellations that keep it; a composition of
   `RunnerStartup` with `ProjectLock` (the purge against live locks).
2. Refinements of the pages by abstract specifications of their own (a request slot whose
   late answers are dropped, of which `FileSearch`, `LiveRuns` and the previews of
   `Schedules` are instances).
3. The full queues of the log hub, the outcome hooks of scheduled runs.
