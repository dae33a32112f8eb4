SPECIFICATION Spec
CONSTANTS
    r1 = r1
    r2 = r2
    r3 = r3
    Requests = {r1, r2}
    Invalid = {}
    Size <- MCSize
    Commands = {"send"}
    ReceiverTypes = {"grpc", "http"}
    Synchronous = TRUE
    None = None
CHECK_DEADLOCK FALSE
INVARIANT StoresReceivedPayload
