CONSTANTS
    Pages = {"files", "plugins", "logs", "websites", "terminal", "session"}
    FilesPaths <- MCFilesPaths
    FilesEditable <- MCFilesEditable
    FilesTexts = {"a", "b"}
    FilesDisk0 <- MCFilesDisk
    FilesMaxCalls = 2
    FilesMaxOther = 1
    FilesMaxGestures = 4
    PiArtifacts = {"a3", "b3"}
    PiVersionOf <- MCPiVersionOf
    PiUpstream0 <- MCPiUpstream
    PiRefs <- MCPiRefs
    PiPinned = {"r1"}
    PiRegistry0 <- MCPiRegistry
    PiMaxCalls = 2
    PiMaxMoves = 1
    PiMaxGestures = 7
    PiPageCost = 3
    LgSourceList <- MCLgSources
    LgQueries = {"q1", "q2"}
    LgDefault <- MCLgDefault
    LgNames = {"m", "n"}
    LgMessages = {"get", "put"}
    LgMaxTime = 2
    LgMaxRows = 2
    LgMaxLog = 3
    LgMaxMoves = 3
    LgMaxCalls = 2
    LgMaxSaved = 2
    LgMaxGestures = 4
    LgMaxSteps = 4
    WsDomains = {"a", "b"}
    WsRows0 <- MCWsRows
    WsMaxIds = 2
    WsTexts = {"hand", "bad"}
    WsMaxCalls = 2
    WsMaxGestures = 6
    TpMaxShells = 3
    TpMaxGestures = 5
    TpMaxDrops = 2
    PsMaxSessions = 2
    PsMaxCalls = 2
    PsMaxMoves = 2
    PsMaxGestures = 3
SPECIFICATION PanelSpec
CHECK_DEADLOCK FALSE
INVARIANT PanelTypeOK
INVARIANT ListsCurrent
INVARIANT RowsOfTheLastRequest
INVARIANT CleanMeansStored
INVARIANT InstalledAsConsented
INVARIANT TailExact
INVARIANT StopButton
INVARIANT SitesMatchRows
INVARIANT OneShell
INVARIANT LoggedOutIsOut
INVARIANT PageAgrees
PROPERTY EditsAreSafe
PROPERTY ShownIsMeant
