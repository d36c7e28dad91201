CONSTANTS
    alice = alice  oldpass = oldpass  newpass = newpass  h1 = h1  h2 = h2
    Emails = {alice}
    Passwords = {oldpass, newpass}
    LegacyEmails = {alice}
    LegacyPassword = oldpass
    Tasks = {h1, h2}
    MaxFails = 2
    Window = 1
    SessionTtl = 2
    ResetTtl = 1
    PersistOutcomes = {TRUE}
    MaxTime = 0
    MaxMint = 3
    ann = ann  ben = ben  phone = phone  tablet = tablet  x = x  y = y
    NoDevice = NoDevice
    NoChild = NoChild
    Children = {ann, ben}
    Devices = {phone, tablet}
    Settings = {x, y}
    Requests <- SwapDevice
    WriteOutcomes = {"ok", "failed", "late"}
    ReportSlack = {0, 9}
    MaxVersion = 2
    SegmentSizes = {1, 2}
    MaxSegments = 2
    MaxBytes = 1
    MaxTickets = 2
    MaxFlows = 2
    ChannelCapacity = 1
    Judgements <- TypicalJudgements
    Hosts = {"open", "pins"}
    PinningHosts = {"pins"}
    Connections = {1, 2}
    StrikeThreshold = 3
    MaxConnects = 4
    Conns = {1, 2}
    Listed = {2}
    Plain = {}
    Opaque = {1}
    HelloLen = 2
    PeekCap = 2
    UpChannel = 1
    DownChannel = 1
    ToClientCap = 1
    FlowBuf = 1
    MaxUp = 3
    MaxDown = 2
    PoolConns = {1, 2}
    EvidenceTtl = 1
    AuditTtl = 1
    AuditMaxRows = 2
    MaxRecords = 4
    MaxStoreTime = 2
SPECIFICATION ComponentsSpec
INVARIANTS PasswordIsLastSet
INVARIANTS AppliedWasDesired VersionNamesOneConfig
INVARIANTS HeldContentJudged TimelyDecisionStands TunnelNeedsStrikes
INVARIANTS StreamsIntact ListedNeverReached EofAfterAll
INVARIANTS UnprunedLogVerifies EvidenceOfItsEvent
CHECK_DEADLOCK FALSE
