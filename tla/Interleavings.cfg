CONSTANTS
    alice = alice  bob = bob  phone = phone  tablet = tablet
    None = None
    Devices = {phone, tablet}
    Guardians = {alice, bob}
    SeenBy <- Sharing
    Hosts = {"site", "other"}
    Hashes = {"image"}
    Alerts <- AllIds
    Requests <- HostRequests
    WriteOutcomes = {"ok", "failed", "late"}
    MaxLedger = 1
    MaxAudit = 2
    oldpass = oldpass  newpass = newpass  h1 = h1  h2 = h2
    Emails = {alice}
    Passwords = {oldpass, newpass}
    LegacyEmails = {}
    LegacyPassword = oldpass
    Tasks = {h1, h2}
    MaxFails = 2
    Window = 1
    SessionTtl = 1
    ResetTtl = 1
    PersistOutcomes = {TRUE}
    MaxTime = 1
    MaxMint = 3
    Starts = 2
    MaxGoal = 2
    MaxInbox = 1
    MaxWatchers = 1
    Pollers = {"p1"}
SYMMETRY TaskSymmetry
SPECIFICATION InterleavingsSpec
INVARIANTS RedeemedCodeDead RequestsPaced ResetEndsSessions RestartLosesNothing
INVARIANTS AllowedWasRaisedHere JournalRebuilds ReadyIsReal
PROPERTY PendingUntilDecided
CHECK_DEADLOCK FALSE
