SPECIFICATION FairSpec
CONSTANTS
    r1 = r1
    r2 = r2
    r3 = r3
    Requests = {r1}
    Invalid = {}
    Size <- MCSize
    Commands = {"receive"}
    ReceiverTypes = {"grpc"}
    Synchronous = TRUE
    None = None
CHECK_DEADLOCK FALSE
PROPERTY TerminatesAfterTimeout
