------------------------------ MODULE Schedules ------------------------------
(***************************************************************************)
(* One schedule between three parties: the page (SchedulesView.tsx,        *)
(* ScheduleDialog.tsx), the web back end (orchestrate/server.ts, which     *)
(* reads the row and then writes it), and the runner's tick                *)
(* (services/scheduler.py: read the due row, advance it, launch).  Time is *)
(* counted in slots; a cron fires every Period[c] slots, 0 for one no      *)
(* parser accepts.  nextRunAt = 0 stands for null.                         *)
(***************************************************************************)
EXTENDS Naturals, Sequences, FiniteSets

CONSTANTS
    Crons, Period, Schemas, NoSchema,
    Grace,              \* scheduler_misfire_grace, in slots
    MaxTime, MaxSaves, MaxFormEdits

ASSUME ScheduleAssumption ==
    /\ Period \in [Crons -> Nat] /\ NoSchema \notin Schemas
    /\ \E c \in Crons : Period[c] > 0       \* the form starts with a cron that parses
    /\ {Grace, MaxTime, MaxSaves, MaxFormEdits} \subseteq Nat

VARIABLES
    row,            \* the record of dbt_schedules, or NoRow
    schedules,      \* the copy the page shows, or NoRow
    form, editing,  \* the open dialog: fields and the row it was opened on
    previewCall, preview,   \* cron asked about, answer shown
    request,        \* the PATCH under way: its input, what the server read
    job,            \* the tick under way
    clock, fires,   \* slots launched, in order
    createdAt, overlap,     \* history: birth of the row, a tick inside a PATCH
    saves, formEdits

pageVars == <<schedules, form, editing, previewCall, preview>>
historyVars == <<createdAt, overlap>>
scheduleVars == <<row, pageVars, request, job, clock, fires, historyVars, saves, formEdits>>

NoRow == [cron |-> "none", isActive |-> FALSE, publishSchema |-> NoSchema, nextRunAt |-> 0]
Closed == [cron |-> "none", isActive |-> FALSE, publishSchema |-> NoSchema]
NoCron == "none"
Idle == [phase |-> "idle", input |-> Closed, existing |-> NoRow, from |-> "none"]
NoJob == [phase |-> "idle", read |-> NoRow, now |-> 0]
NoPreview == [cron |-> NoCron, valid |-> TRUE]

ScheduleInit ==
    /\ row = NoRow /\ schedules = NoRow
    /\ form = Closed /\ editing = NoRow /\ previewCall = NoCron /\ preview = NoPreview
    /\ request = Idle /\ job = NoJob
    /\ clock = 1 /\ fires = <<>> /\ createdAt = 0 /\ overlap = FALSE
    /\ saves = 0 /\ formEdits = 0

\* The fields a dialog takes over from a row.
FormOf(r) == [cron |-> r.cron, isActive |-> r.isActive, publishSchema |-> r.publishSchema]
Empty == [cron |-> CHOOSE c \in Crons : Period[c] > 0, isActive |-> TRUE,
          publishSchema |-> NoSchema]
Fresh(existing) == IF existing = NoRow THEN Empty ELSE FormOf(existing)
OpenForm == form # Closed
-----------------------------------------------------------------------------
\* New schedule, or Edit on the shown row: the form is filled and the cron asked
\* about.
OpenDialog ==
    /\ ~OpenForm
    /\ schedules # NoRow \/ createdAt = 0    \* a later schedule has an id of its own
    /\ editing' = schedules /\ form' = Fresh(schedules)
    /\ previewCall' = form'.cron
    /\ UNCHANGED <<row, schedules, preview, request, job, clock, fires, historyVars, saves,
                   formEdits>>
CloseDialog ==
    /\ OpenForm /\ request.from # "dialog"
    /\ form' = Closed /\ previewCall' = NoCron
    /\ UNCHANGED <<row, schedules, editing, preview, request, job, clock, fires, historyVars,
                   saves, formEdits>>

Edited(f) ==
    /\ OpenForm /\ f # form /\ formEdits < MaxFormEdits
    /\ form' = f /\ formEdits' = formEdits + 1
    /\ previewCall' = IF f.cron = form.cron THEN previewCall ELSE f.cron
    /\ UNCHANGED <<row, schedules, editing, preview, request, job, clock, fires, historyVars,
                   saves>>
setField ==
    \/ \E c \in Crons : Edited([form EXCEPT !.cron = c])
    \/ \E s \in Schemas \cup {NoSchema} : Edited([form EXCEPT !.publishSchema = s])
    \/ Edited([form EXCEPT !.isActive = ~@])

\* dbtApi.previewCron after 350 ms: the answer of a cron that has changed since
\* is dropped by the effect's cleanup; a failed call counts as valid.
ApplyPreview(c) ==
    preview' = IF c = previewCall THEN [cron |-> c, valid |-> Period[c] > 0] ELSE preview
PreviewAnswer(c, ok) ==
    /\ previewCall # NoCron
    /\ IF ok THEN ApplyPreview(c)
       ELSE c = previewCall /\ preview' = [cron |-> c, valid |-> TRUE]
    /\ previewCall' = IF c = previewCall THEN NoCron ELSE previewCall
    /\ UNCHANGED <<row, schedules, form, editing, request, job, clock, fires, historyVars,
                   saves, formEdits>>

\* A PATCH, POST or DELETE under way disables the button that sends it.
SendSchedule(from, input) ==
    /\ request = Idle /\ saves < MaxSaves /\ saves' = saves + 1
    /\ request' = [phase |-> "sent", input |-> input, existing |-> NoRow, from |-> from]
canSave == preview.valid
saveSchedule ==
    /\ OpenForm /\ canSave /\ SendSchedule("dialog", form)
    /\ UNCHANGED <<row, pageVars, job, clock, fires, historyVars, formEdits>>
\* toggleActive sends the fields of the shown row, publishSchema not among them.
toggleActive ==
    /\ schedules # NoRow
    /\ SendSchedule("toggle", [cron |-> schedules.cron, isActive |-> ~schedules.isActive,
                       publishSchema |-> NoSchema])
    /\ UNCHANGED <<row, pageVars, job, clock, fires, historyVars, formEdits>>
handleDelete ==
    /\ schedules # NoRow /\ SendSchedule("delete", Closed)
    /\ UNCHANGED <<row, pageVars, job, clock, fires, historyVars, formEdits>>

\* load: the rows replace the shown ones; new projects refill an open form.
Load(r) ==
    /\ schedules' = r
    /\ IF OpenForm THEN form' = Fresh(editing) /\ previewCall' = editing.cron
       ELSE UNCHANGED <<form, previewCall>>
loadAnswer ==
    /\ request.phase = "written"
    /\ request' = Idle
    /\ IF request.from = "dialog"
       THEN schedules' = row /\ form' = Closed /\ previewCall' = NoCron
       ELSE Load(row)
    /\ UNCHANGED <<row, editing, preview, job, clock, fires, historyVars, saves, formEdits>>
saveFailed ==
    /\ request.phase \in {"sent", "read"} /\ request' = Idle
    /\ UNCHANGED <<row, pageVars, job, clock, fires, historyVars, saves, formEdits>>
-----------------------------------------------------------------------------
\* createSchedule
NewRow(input) ==
    [cron |-> input.cron, isActive |-> input.isActive, publishSchema |-> input.publishSchema,
     nextRunAt |-> 0]
createSchedule ==
    /\ request.phase = "sent" /\ request.from = "dialog" /\ editing = NoRow
    /\ createdAt = 0
    /\ row' = NewRow(request.input) /\ createdAt' = clock
    /\ request' = [request EXCEPT !.phase = "written"]
    /\ UNCHANGED <<pageVars, job, clock, fires, overlap, saves, formEdits>>

\* updateSchedule: findUnique, then update.
Updates == request.from = "toggle" \/ (request.from = "dialog" /\ editing # NoRow)
UpdateRead ==
    /\ request.phase = "sent" /\ Updates /\ row # NoRow
    /\ request' = [request EXCEPT !.phase = "read", !.existing = row]
    /\ UNCHANGED <<row, pageVars, job, clock, fires, historyVars, saves, formEdits>>
DueAfterUpdate(input, existing) ==
    IF existing.cron = input.cron THEN existing.nextRunAt ELSE 0
UpdateWrite ==
    /\ request.phase = "read" /\ row # NoRow
    /\ row' = [NewRow(request.input) EXCEPT
                 !.nextRunAt = DueAfterUpdate(request.input, request.existing)]
    /\ request' = [request EXCEPT !.phase = "written"]
    /\ UNCHANGED <<pageVars, job, clock, fires, historyVars, saves, formEdits>>
deleteSchedule ==
    /\ request.phase = "sent" /\ request.from = "delete" /\ row # NoRow
    /\ row' = NoRow /\ request' = [request EXCEPT !.phase = "written"]
    /\ UNCHANGED <<pageVars, job, clock, fires, historyVars, saves, formEdits>>
-----------------------------------------------------------------------------
\* The scheduler of the runner.  next_fire_time: 0 for a cron that does not parse.
NextFire(c, now) == IF Period[c] = 0 THEN 0 ELSE (now \div Period[c] + 1) * Period[c]
Due(r, now) == r # NoRow /\ r.isActive /\ r.nextRunAt <= now

TickReadDueOnly ==
    /\ job = NoJob /\ Due(row, clock) /\ row.nextRunAt > 0
    /\ job' = [phase |-> "read", read |-> row, now |-> clock]
    /\ UNCHANGED <<row, pageVars, request, clock, fires, historyVars, saves, formEdits>>
TickRead ==
    /\ job = NoJob /\ Due(row, clock)
    /\ ~(row.nextRunAt = 0 /\ Period[row.cron] = 0)     \* such a tick changes nothing
    /\ job' = [phase |-> "read", read |-> row, now |-> clock]
    /\ UNCHANGED <<row, pageVars, request, clock, fires, historyVars, saves, formEdits>>
AdvanceLate ==
    /\ job.phase = "read"
    /\ row' = IF row = NoRow THEN row
              ELSE [row EXCEPT !.nextRunAt = NextFire(job.read.cron, job.now - 1)]
    /\ overlap' = (overlap \/ request.phase = "read")
    /\ job' = IF job.read.nextRunAt = 0 \/ NextFire(job.read.cron, job.now) = 0
                 \/ job.now > job.read.nextRunAt + Grace
              THEN NoJob ELSE [job EXCEPT !.phase = "advanced"]
    /\ UNCHANGED <<pageVars, request, clock, fires, createdAt, saves, formEdits>>
Advance ==
    /\ job.phase = "read"
    /\ row' = IF row = NoRow THEN row
              ELSE [row EXCEPT !.nextRunAt = NextFire(job.read.cron, job.now)]
    /\ overlap' = (overlap \/ request.phase = "read")
    /\ job' = IF job.read.nextRunAt = 0 \/ NextFire(job.read.cron, job.now) = 0
                 \/ job.now > job.read.nextRunAt + Grace
              THEN NoJob ELSE [job EXCEPT !.phase = "advanced"]
    /\ UNCHANGED <<pageVars, request, clock, fires, createdAt, saves, formEdits>>
Launch ==
    /\ job.phase = "advanced"
    /\ fires' = Append(fires, job.read.nextRunAt) /\ job' = NoJob
    /\ UNCHANGED <<row, pageVars, request, clock, historyVars, saves, formEdits>>
RunnerCrash ==
    /\ job # NoJob /\ job' = NoJob
    /\ UNCHANGED <<row, pageVars, request, clock, fires, historyVars, saves, formEdits>>
TimePasses ==
    /\ clock < MaxTime /\ clock' = clock + 1
    /\ UNCHANGED <<row, pageVars, request, job, fires, historyVars, saves, formEdits>>

ScheduleNext ==
    \/ OpenDialog
    \/ CloseDialog
    \/ setField
    \/ \E c \in Crons, ok \in BOOLEAN : PreviewAnswer(c, ok)
    \/ saveSchedule
    \/ toggleActive
    \/ handleDelete
    \/ loadAnswer
    \/ saveFailed
    \/ createSchedule
    \/ UpdateRead
    \/ UpdateWrite
    \/ deleteSchedule
    \/ TickRead
    \/ Advance
    \/ Launch
    \/ RunnerCrash
    \/ TimePasses

\* The leader ticks for as long as it holds the lease, and a runner that is
\* started again does not die at this very point each time.
ScheduleFairness ==
    WF_scheduleVars(TickRead) /\ SF_scheduleVars(Advance) /\ WF_scheduleVars(Launch)
-----------------------------------------------------------------------------
\* server.ts: "Left null on purpose ... what stops a schedule from firing the
\* instant it is saved": every slot launched lies after the row's creation.
NewScheduleWaits == \A i \in DOMAIN fires : fires[i] > createdAt

\* scheduler.py: "Advance first, launch second": whatever crashes, no slot is
\* launched twice, unless a tick advanced the row inside a PATCH.
FiresOnceAlone ==
    ~overlap => \A i, j \in DOMAIN fires : i # j => fires[i] # fires[j]

\* Every slot of a schedule that is launched was due, and is launched once.
FiresAsPlanned == NewScheduleWaits /\ FiresOnceAlone

\* The same without the exception: updateSchedule writes back the due time it
\* read, so the tick's advance is lost.
FiresOnce == \A i, j \in DOMAIN fires : i # j => fires[i] # fires[j]

\* ScheduleDialog: a late preview never judges the cron of another request.
PreviewCurrent == [][preview' # preview /\ OpenForm => preview'.cron = form.cron]_scheduleVars

\* The row keeps the schema the dialog gave it: only a dialog or a deletion
\* changes it.
PublishKept ==
    [][row'.publishSchema # row.publishSchema => request.from \in {"dialog", "delete"}]_scheduleVars

\* "Waiting to be armed by the runner": an active schedule with a cron that
\* parses is armed, or it is paused, changed or deleted, again and again.
Armed == row = NoRow \/ ~row.isActive \/ row.nextRunAt > 0 \/ Period[row.cron] = 0
=============================================================================
