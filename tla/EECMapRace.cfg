SPECIFICATION Spec
CONSTANTS
    Urls = {u1, u2}
    Polled = {u1, u2}
    Watchers = {w1, w2}
    MaxVersion = 2
    Sha256 <- MCDistinct
    Malformed = {}
    MailboxCap = 1
    ReResolves = FALSE
    None = None
CHECK_DEADLOCK FALSE
INVARIANT MapsNotShared
