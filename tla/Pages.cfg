SPECIFICATION Spec
CONSTANTS
    Runs = {"r", "s"}
    Filters = {"f", "g"}
    NoRun = "none"
    MaxLines = 1
    MaxLooks = 2
    Crons = {"h", "d"}
    Period <- Every
    Schemas = {"marts"}
    NoSchema = "-"
    Grace = 0
    MaxTime = 3
    MaxSaves = 2
    MaxFormEdits = 1
    ConnTypes = {"snowflake", "databricks", "dremio", "rest", "spark", "duckdb",
        "ducklake"}
    AuthKinds <- Kinds
    MaxSubmits = 3
    MaxDialogEdits = 3
    Sessions = {"a", "b"}
    NoSession = "none"
    MaxTurns = 2
    MaxChatEvents = 3
    MaxOpens = 2
    SqlConnections = {"s"}
    RestConnections = {"r"}
    NoConnection = "none"
    Tables = {"t"}
    MaxWizardEdits = 4
    MaxWizardSaves = 1
    MaxLoads = 3
    MaxLogLines = 2
    QueryTexts = {"x", "y"}
    QueryPaths = {"q"}
    RunTargets = {"dev", "prod"}
    NoText = ""
    NoPath = "-"
    MaxDrafts = 1
    MaxConsole = 3
    Yamls = {"x", "y"}
    EmptyYaml = ""
    BoardPaths = {"p"}
    NoBoard = "-"
    MaxBoardSteps = 3
    TargetNames = {"p", "q"}
    DEFAULT_DBT_TARGET = "dev"
    MaxTargets = 2
    MaxTargetSteps = 5
    AiTabs = {"t", "u"}
    Routes = {"r"}
    Endpoints = {"x", "y"}
    Nowhere = "-"
    MaxAiSteps = 7
INVARIANTS  FiresAsPlanned SecretsOfKind StreamsInPlace 
    ResultsOfTarget   KeysStayHome
PROPERTIES   PagesSettle
CHECK_DEADLOCK FALSE
