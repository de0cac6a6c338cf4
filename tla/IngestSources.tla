---------------------------- MODULE IngestSources ----------------------------
(***************************************************************************)
(* The wizard of a data load (SourceDialog.tsx), what it sends, and what   *)
(* the web back end checks and stores (ingest-source-validation.ts,        *)
(* ingest/server.ts).  A text field is empty or filled; names, patterns    *)
(* and the layout of an endpoint are left out.                             *)
(***************************************************************************)
EXTENDS Naturals, Sequences, FiniteSets

CONSTANTS
    SqlConnections, RestConnections, NoConnection,
    Tables,             \* table or resource names
    MaxWizardEdits, MaxWizardSaves

ASSUME WizardAssumption ==
    /\ SqlConnections \cap RestConnections = {}
    /\ NoConnection \notin SqlConnections \cup RestConnections
    /\ {MaxWizardEdits, MaxWizardSaves} \subseteq Nat

VARIABLES
    wizard, step,       \* the open dialog and its page, or NoWizard
    connections,        \* the connections offered
    formLoads,          \* loadFormData calls under way, by the type they filter for
    tableLoads, availableTables,
    hasLake,            \* the project has a lakehouse attached
    lakes,              \* lakehouses created from the wizard
    source,             \* the stored row, or NoSource
    payload, refusal,
    wizardEdits, wizardSaves

wizardVars == <<wizard, step, connections, formLoads, tableLoads, availableTables, hasLake,
                lakes, source, payload, refusal, wizardEdits, wizardSaves>>
loadVars == <<connections, formLoads, tableLoads, availableTables>>

SourceTypes == {"sql_database", "rest_api", "filesystem"}
BlankWizard(t) == [type |-> t, connection |-> NoConnection, tables |-> {}, location |-> FALSE,
             cursor |-> FALSE, initial |-> FALSE, destination |-> "ducklake",
             merge |-> FALSE, key |-> FALSE, partition |-> FALSE]
NoWizard == BlankWizard("none")
NoSource == NoWizard
Allowed(t) == IF t = "rest_api" THEN RestConnections ELSE SqlConnections

WizardInit ==
    /\ wizard = NoWizard /\ step = 0 /\ connections = {} /\ formLoads = {}
    /\ tableLoads = {} /\ availableTables = NoConnection
    /\ hasLake \in BOOLEAN /\ lakes = 0
    /\ source = NoSource /\ payload = NoWizard /\ refusal = "none"
    /\ wizardEdits = 0 /\ wizardSaves = 0

WizardOpen == wizard # NoWizard /\ payload = NoWizard
Editing == source # NoSource
-----------------------------------------------------------------------------
\* The two effects of opening: load the choices, fill the fields.
OpenWizard ==
    /\ wizard = NoWizard /\ payload = NoWizard
    /\ wizard' = IF Editing THEN source ELSE BlankWizard("sql_database")
    /\ step' = 0 /\ availableTables' = NoConnection
    /\ formLoads' = formLoads \cup {wizard'.type}
    /\ UNCHANGED <<connections, tableLoads, hasLake, lakes, source, payload, refusal,
                   wizardEdits, wizardSaves>>
FormAnswer(t) ==
    /\ t \in formLoads /\ formLoads' = formLoads \ {t} /\ connections' = Allowed(t)
    /\ UNCHANGED <<wizard, step, tableLoads, availableTables, hasLake, lakes, source, payload,
                   refusal, wizardEdits, wizardSaves>>
CloseWizard ==
    /\ WizardOpen /\ wizard' = NoWizard
    /\ UNCHANGED <<step, loadVars, hasLake, lakes, source, payload, refusal, wizardEdits,
                   wizardSaves>>

Edit(w) ==
    /\ WizardOpen /\ w # wizard /\ wizardEdits < MaxWizardEdits
    /\ wizard' = w /\ wizardEdits' = wizardEdits + 1
    /\ UNCHANGED <<step, hasLake, lakes, source, payload, refusal, wizardSaves>>
\* Another source type empties what belonged to the former one.
SwitchType(t) ==
    [wizard EXCEPT !.type = t, !.tables = {}, !.connection = NoConnection, !.location = FALSE]
SetSourceType ==
    /\ step = 0 /\ ~Editing
    /\ \E t \in SourceTypes :
         /\ Edit(SwitchType(t))
         /\ formLoads' = formLoads \cup {t}
    /\ availableTables' = NoConnection /\ UNCHANGED <<connections, tableLoads>>
SetConnection ==
    /\ step = 0 /\ wizard.type # "filesystem"
    /\ \E c \in connections \cup {NoConnection} :
         Edit([wizard EXCEPT !.connection = c, !.tables = {}])
    /\ availableTables' = NoConnection /\ UNCHANGED <<connections, formLoads, tableLoads>>
addTable ==
    /\ step = 0 /\ \E t \in Tables : Edit([wizard EXCEPT !.tables = @ \cup {t}])
    /\ UNCHANGED loadVars
RemoveTable ==
    /\ step = 0 /\ \E t \in wizard.tables : Edit([wizard EXCEPT !.tables = @ \ {t}])
    /\ UNCHANGED loadVars
\* The base URL of an API, the directory of files.
SetLocation ==
    /\ step = 0 /\ wizard.type # "sql_database"
    /\ Edit([wizard EXCEPT !.location = ~@]) /\ UNCHANGED loadVars
SetDestination ==
    /\ step = 1
    /\ \E d \in {"ducklake", "connection"} : Edit([wizard EXCEPT !.destination = d])
    /\ UNCHANGED loadVars
\* The fields of the last page; an initial value is typed only beside a cursor.
SetRule ==
    /\ step = 2
    /\ \/ Edit([wizard EXCEPT !.cursor = ~@])
       \/ wizard.cursor /\ Edit([wizard EXCEPT !.initial = ~@])
       \/ Edit([wizard EXCEPT !.merge = ~@])
       \/ Edit([wizard EXCEPT !.key = ~@])
       \/ wizard.destination = "ducklake" /\ Edit([wizard EXCEPT !.partition = ~@])
    /\ UNCHANGED loadVars

\* loadTables: the answer is shown whatever connection is chosen by then.
loadTables ==
    /\ WizardOpen /\ step = 0 /\ wizard.connection # NoConnection /\ tableLoads = {}
    /\ tableLoads' = {wizard.connection}
    /\ UNCHANGED <<wizard, step, connections, formLoads, availableTables, hasLake, lakes, source,
                   payload, refusal, wizardEdits, wizardSaves>>
TablesAnswer(c) ==
    /\ c \in tableLoads /\ tableLoads' = {} /\ availableTables' = c
    /\ UNCHANGED <<wizard, step, connections, formLoads, hasLake, lakes, source, payload,
                   refusal, wizardEdits, wizardSaves>>

\* createLakehouseForProject: the lake is created, then attached.
createLakehouseForProject(attached) ==
    /\ WizardOpen /\ step = 1 /\ wizard.destination = "ducklake" /\ ~hasLake
    /\ lakes < MaxWizardSaves /\ lakes' = lakes + 1 /\ hasLake' = attached
    /\ UNCHANGED <<wizard, step, loadVars, source, payload, refusal, wizardEdits, wizardSaves>>
-----------------------------------------------------------------------------
ReadsSomething(w) ==
    CASE w.type = "sql_database" -> w.connection # NoConnection
      [] w.type = "rest_api" -> w.location \/ w.connection # NoConnection
      [] OTHER -> w.location /\ Cardinality(w.tables) = 1

\* nextStep and Back.
LakeReady(w) == w.destination = "ducklake" => hasLake
nextStep ==
    /\ WizardOpen /\ step < 2
    /\ CASE step = 0 -> wizard.tables # {} /\ ReadsSomething(wizard)
         [] step = 1 -> LakeReady(wizard)
    /\ step' = step + 1
    /\ UNCHANGED <<wizard, loadVars, hasLake, lakes, source, payload, refusal, wizardEdits,
                   wizardSaves>>
Back ==
    /\ WizardOpen /\ step > 0 /\ step' = step - 1
    /\ UNCHANGED <<wizard, loadVars, hasLake, lakes, source, payload, refusal, wizardEdits,
                   wizardSaves>>

\* handleSave: the checks, then only what the chosen type and destination use.
PayloadAsTyped(w) == w
Payload(w) ==
    [w EXCEPT !.connection = IF w.type = "filesystem" THEN NoConnection ELSE @,
              !.partition = @ /\ w.destination = "ducklake"]
handleSave ==
    /\ WizardOpen /\ step = 2 /\ wizardSaves < MaxWizardSaves
    /\ wizard.tables # {} /\ ReadsSomething(wizard) /\ LakeReady(wizard)
    /\ wizard.merge => wizard.key
    /\ payload' = Payload(wizard) /\ wizardSaves' = wizardSaves + 1
    /\ UNCHANGED <<wizard, step, loadVars, hasLake, lakes, source, refusal, wizardEdits>>

\* validateIngestSource: the first rule broken, or "none".
validateIngestSource(p) ==
    CASE p.tables = {} -> "tables"
      [] p.merge /\ ~p.key -> "key"
      [] p.partition /\ p.destination # "ducklake" -> "partition"
      [] p.type = "sql_database" /\ p.connection = NoConnection -> "connection"
      [] p.type = "filesystem" /\ p.connection # NoConnection -> "path"
      [] p.initial /\ ~p.cursor -> "initial"
      [] p.type = "filesystem" /\ (Cardinality(p.tables) # 1 \/ ~p.location) -> "directory"
      [] p.type = "rest_api" /\ ~p.location /\ p.connection = NoConnection -> "base_url"
      [] OTHER -> "none"

\* createIngestSource and updateIngestSource: an update that names no key keeps
\* the stored one, one that names no partition clears it.
Row(p) == [p EXCEPT !.key = @ \/ source.key]
SaveSource ==
    /\ payload # NoWizard /\ payload' = NoWizard
    /\ refusal' = validateIngestSource(payload)
    /\ IF refusal' = "none" THEN source' = Row(payload) /\ wizard' = NoWizard
       ELSE UNCHANGED <<source, wizard>>
    /\ UNCHANGED <<step, loadVars, hasLake, lakes, wizardEdits, wizardSaves>>
\* handleDelete of SourcesView.
DeleteSource ==
    /\ wizard = NoWizard /\ source # NoSource /\ source' = NoSource
    /\ UNCHANGED <<wizard, step, loadVars, hasLake, lakes, payload, refusal, wizardEdits,
                   wizardSaves>>

WizardNext ==
    \/ OpenWizard
    \/ \E t \in formLoads : FormAnswer(t)
    \/ CloseWizard
    \/ SetSourceType
    \/ SetConnection
    \/ addTable
    \/ RemoveTable
    \/ SetLocation
    \/ SetDestination
    \/ SetRule
    \/ loadTables
    \/ \E c \in tableLoads : TablesAnswer(c)
    \/ \E ok \in BOOLEAN : createLakehouseForProject(ok)
    \/ nextStep
    \/ Back
    \/ handleSave
    \/ SaveSource
    \/ DeleteSource
-----------------------------------------------------------------------------
\* SourceDialog and validateIngestSource agree: whatever the order of pages, types
\* and fields, a load the wizard sends is refused for one reason only, an
\* initial value whose cursor was emptied again.
RefusedForInitialOnly == refusal \in {"none", "initial"}
=============================================================================
