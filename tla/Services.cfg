CONSTANTS
    alice = alice  bob = bob  phone = phone  tablet = tablet
    Accounts = {alice, bob}
    Devices = {phone, tablet}
    MaxFails = 1
    Window = 1
    PairCodeTtl = 1
    MaxTime = 1
    MaxMint = 6
    rpc1 = rpc1  rpc2 = rpc2
    Emails = {alice, bob}
    StaffRpcs = {rpc1, rpc2}
    NewRoles = {"support"}
    StaffActions = {"guardian"}
    StaffTtl = 2
    AuditWrites = {"ok", "failed", "late"}
    MaxStep = 2
    MaxStaffSessions = 2
    MaxAudit = 3
    MaxRestarts = 1
    case1 = case1  jo = jo  kim = kim
    Cases = {case1}
    Officers = {jo, kim}
    MaxWriteFaults = 1
    MaxCaseRestarts = 1
    alert1 = alert1  alert2 = alert2  loop1 = loop1  loop2 = loop2
    NoId = NoId
    AlertIds = {alert1, alert2}
    Raisers = {loop1, loop2}
    Batches <- TwoBatches
    DedupeWindow = 2
    BurstWindow = 2
    MaxImmediate = 1
    DigestMax = 1
    MaxAlertTime = 2
    MaxRaises = 3
SYMMETRY Symmetry
SPECIFICATION ServicesSpec
INVARIANTS RoutingUnambiguous HeldTokenAuthenticates
INVARIANTS OneBootstrap AcceptedCodeDead AnsweredIsAudited AuditChainHolds
INVARIANTS TrailTellsState
INVARIANTS MailedOnce AckTruth
PROPERTY ImplementsRegistry
CHECK_DEADLOCK FALSE
