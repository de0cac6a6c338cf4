SPECIFICATION Spec
CONSTANTS
    TreePaths <- Paths
    DraftPath <- Draft
    InitialFiles <- Saved
    Renames <- FolderMove
    Texts = {"x", "y"}
    Blank = "x"
    Nil = Nil
    MaxTabs = 2
    MaxCalls = 2
    MaxEvents = 1
    MaxClicks = 3
    Folders <- TreeFolders
    Entries <- TreeEntries
    FirstEntries <- AtFirst
    FirstExpanded <- OpenAtFirst
    Names = {"b"}
    Rels <- Escaping
    MaxGestures = 4
    Queries = {"x", "y"}
    MaxTyped = 4
    WatchedProjects = {"p", "q"}
    MaxFailures = 3
    MaxMessages = 2
    MaxMounts = 3
    MaxBackground = 2
    Sql = {"x", "y"}
    MaxKeys = 3
    AllTargets <- Targets
    ProjectTargets = {"p"}
    NoTarget = "none"
    MaxEdits = 2
    LsTargets = {"p", "q"}
    Macros = {"m", "i"}
    Arguments <- Args
    Internal = {"i"}
    Custom = "c"
    NoMacro = "none"
    MaxDialogSteps = 5
    GitFiles = {"f"}
    MaxText = 2
    MaxGit = 2
    MaxOps = 2
    MaxTyping = 1
INVARIANT NothingMissed
CHECK_DEADLOCK FALSE
