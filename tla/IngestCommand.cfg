SPECIFICATION FairCommand
CONSTANTS
    r1 = r1
    r2 = r2
    r3 = r3
    Requests = {r1, r2, r3}
    Invalid = {r3}
    Size <- MCSize
    Commands = {"send", "receive", "prometheus"}
    ReceiverTypes = {"grpc", "http"}
    Synchronous = TRUE
    None = None
    Senders = {"call", "fluent", "syslog tcp", "syslog udp", "statsd tcp", "statsd udp"}
    Lines = 2
    FluentAttempts = 2
CHECK_DEADLOCK FALSE
INVARIANTS TypeOK AnsweredIsOnDisk GracefulFile SoleDelivery SentWhole LinesAtMostTwice
PROPERTIES StopEnds SendEnds ToolSpec
