CONSTANTS
    Workers = {1, 2}
    job = job
    CallerIds = {job}
    Peers = {"n"}
    BackpressureDepth = 2
    MaxBatch = 2
    MaxSeq = 1
    MaxCopies = 2
    MaxAttempts = 2
    WatchedDevices = {"d1", "d2"}
    Grace = 3
    VpnDevices = {"d1", "d2", "d3"}
    Addresses = {2, 3, 4}
    Reserved = {2}
    MaxChanges = 4
    ann = ann  phone = phone  tablet = tablet  x = x
    NoDevice = NoDevice
    NoChild = NoChild
    Children = {ann}
    Devices = {phone, tablet}
    Settings = {x}
    Requests <- SwapDevice
    WriteOutcomes = {"ok"}
    ReportSlack = {0}
    MaxVersion = 2
    Conns = {1}
    Listed = {}
    Plain = {1}
    Opaque = {}
    HelloLen = 2
    PeekCap = 2
    UpChannel = 1
    DownChannel = 1
    ToClientCap = 1
    FlowBuf = 1
    MaxUp = 1
    MaxDown = 2
    Starts = 1
    MaxGoal = 1
    MaxInbox = 1
    MaxWatchers = 1
    Pollers = {"p1"}
SPECIFICATION LiveSpec
INVARIANT OneAlertPerSilence
PROPERTIES WorkHandedOut SilenceReported RevokedCutOff DeviceConverges StreamCatchesUp FlowsReaped DeadPathNoticed
CHECK_DEADLOCK FALSE
