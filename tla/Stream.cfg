CONSTANTS
    alice = alice  phone = phone  tablet = tablet
    NoDevice = NoDevice
    Devices = {phone, tablet}
    Guardians = {alice}
    PairedBy <- PhoneOnly
    Alerts <- EachDevice
    DirectAlerts <- Sos
    Notices <- Notice
    ChannelCap = 1
SPECIFICATION Spec
INVARIANTS OwnAlertsOnly 
PROPERTIES NothingAfterSessionEnds
