SPECIFICATION FairSpec
CONSTANTS
    Urls = {u1}
    Polled = {u1}
    Watchers = {w1, w2}
    MaxVersion = 2
    Sha256 <- MCDistinct
    Malformed = {}
    MailboxCap = 1
    ReResolves = TRUE
    None = None
CHECK_DEADLOCK FALSE
PROPERTIES Feed ShutdownStopsWatchers
