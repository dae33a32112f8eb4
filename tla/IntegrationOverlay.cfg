SPECIFICATION ConfiguredSpec
CONSTANTS
    p1 = p1
    p2 = p2
    p3 = p3
    f1 = f1
    f2 = f2
    a = a
    b = b
    c = c
    other = other
    Kinds = {"cluster"}
    Ephemeral = {p1, p2, p3}
    Fixed <- MCFixed
    Items = {a, b, c}
    Stray = other
    Data <- MCData
    KeyOrder <- MCKeyOrder
    AsString <- MCAsString
    ResourceKeys = {"uid"}
    DatapointKeys = {}
    Golden <- MCGolden
    Keys <- MCKeys
    Values <- MCValues
    MaxDepth = 4
    Base <- MCBase
    Overlays <- MCLocal
    MaxOverlays = 1
    MaxPayloads = 2
    MaxTaken = 1
    None = None
CHECK_DEADLOCK FALSE
INVARIANT LastOverlayWins
