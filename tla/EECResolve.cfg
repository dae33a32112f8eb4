SPECIFICATION Spec
CONSTANTS
    Urls = {u1, u2}
    Polled = {u1, u2}
    Watchers = {w1, w2, w3}
    MaxVersion = 3
    Sha256 <- MCRevert
    Malformed = {2}
    MailboxCap = 1
    ReResolves = TRUE
    None = None
CHECK_DEADLOCK FALSE
SYMMETRY WatcherSymmetry
INVARIANTS TypeOK OnlyServedBodies OneLiveWatcher WatcherTracksRunning NeverUnwatched NoForgottenConfig
