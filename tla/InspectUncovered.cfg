CONSTANTS
    SegmentSizes = {1}
    MaxSegments = 1
    MaxBytes = 1
    MaxTickets = 1
    MaxFlows = 1
    ChannelCapacity = 1
    Judgements <- SafeOrUnknown
INIT InspectInit
NEXT InspectNext
INVARIANT UncoveredNeverShown
CHECK_DEADLOCK FALSE
