CONSTANTS
    VpnDevices = {"d1", "d2", "d3"}
    Addresses = {2, 3}
    Reserved = {}
    MaxChanges = 5
SPECIFICATION VpnSpec
PROPERTY DriftRepaired
CHECK_DEADLOCK FALSE
