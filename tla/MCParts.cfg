\* One instance of each part.
SPECIFICATION SuiteSpec
CONSTANTS
    n1 = n1
    k1 = k1
    k2 = k2
    k3 = k3
    b1 = b1
    v1 = v1
    v2 = v2
    c1 = c1
    c2 = c2
    mcp_a = mcp_a
    Read = Read
    \* Database
    NoRow = NoRow
    MaxOf <- MCMaxOf
    Marks = {n1}
    \* SecretStore
    Scopes <- MCScopes
    NoBot = NoBot
    Values = {v1, v2}
    MasterKeys = {k1, k2, k3}
    KeyIdOf <- MCKeyIdOf
    Foreign = Foreign
    MaxSeals = 2
    MaxFaults = 1
    \* Redaction
    Symbols = {"a", "b"}
    Patterns <- MCPatterns
    MaxText = 5
    \* BotFolder: one skill, edited once while it is read
    Skills = {"s1"}
    BadSlugs = {}
    Faults = {"secret", "alias", "schema", "wrong_name", "unknown_catalog_id"}
    Blockable = {"root", "BOT.md", "skills", "memory"}
    MaxEdits = 1
    \* ModelPin: three pins, two settings of other hands
    Settings = {"hooks", "env"}
    MaxPins = 3
    \* EventTranslation
    CallIds = {c1, c2}
    ToolNames = {mcp_a}
    ToolStatuses = {"pending", "completed"}
    Absent = Absent
    MaxSessionUpdates = 3
    MaxScreenshots = 1
    \* SpikeLog
    Calls = {c1, c2}
    Tools = {mcp_a, Read}
    Statuses = {"failed", "completed"}
    Policy = {"mcp*"}
    Prefixed <- MCPrefixed
    Unknown = Unknown
    MaxImages = 2
    Inputs <- MCInputs
    MaxUpdates = 3
    MaxRequests = 2
    \* StreamFrames
    HeaderBytes = 2
    MaxPayload = 2
    MaxFrames = 3
INVARIANTS
    BotsCanBeDeleted OpensWhatWasPut NothingLeaks VerdictIsSound OnlyTearsDrop
    StatusesStandAlone LogIsComplete FinalStatusIsTheLast FramesComeOutWhole
PROPERTY LogsAreImmutable
\* Every part stops: its inputs are bounded.
CHECK_DEADLOCK FALSE
