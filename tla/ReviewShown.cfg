CONSTANTS
    alice = alice  bob = bob  phone = phone  tablet = tablet
    None = None
    Devices = {phone, tablet}
    Guardians = {alice, bob}
    SeenBy <- Sharing
    Hosts = {"site", "other"}
    Hashes = {"image"}
    Alerts <- SlotIds
    Requests <- HostRequests
    WriteOutcomes = {"ok"}
    MaxLedger = 2
    MaxAudit = 2
SPECIFICATION RelaySpec
INVARIANT ShownIsApplied
