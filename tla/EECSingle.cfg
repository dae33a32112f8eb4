SPECIFICATION FairSpec
CONSTANTS
    Urls = {u1, u2}
    Polled = {u1}
    Watchers = {w1, w2}
    MaxVersion = 4
    Sha256 <- MCRevert
    Malformed = {4}
    MailboxCap = 1
    ReResolves = FALSE
    None = None
CHECK_DEADLOCK FALSE
INVARIANTS NoSpuriousReload
PROPERTIES ReloadsUseCache OrderedFeed
