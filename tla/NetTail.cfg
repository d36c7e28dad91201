CONSTANTS
    Conns = {1}
    Listed = {}
    Plain = {1}
    Opaque = {}
    HelloLen = 1
    PeekCap = 1
    UpChannel = 1
    DownChannel = 1
    ToClientCap = 1
    FlowBuf = 1
    MaxUp = 1
    MaxDown = 1
INIT NetInit
NEXT NetNext
INVARIANT FlushedBeforeClose
CHECK_DEADLOCK FALSE
