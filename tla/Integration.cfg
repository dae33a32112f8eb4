SPECIFICATION ConfiguredSpec
CONSTANTS
    p1 = p1
    p2 = p2
    p3 = p3
    f1 = f1
    f2 = f2
    a = a
    b = b
    c = c
    other = other
    Kinds = {"local", "broker", "cluster", "scale", "filter"}
    Ephemeral = {p1, p2, p3}
    Fixed <- MCFixed
    Items = {a, b, c}
    Stray = other
    Data <- MCData
    KeyOrder <- MCKeyOrder
    AsString <- MCAsString
    ResourceKeys = {"uid"}
    DatapointKeys = {}
    Golden <- MCGolden
    Keys <- MCKeys
    Values <- MCValues
    MaxDepth = 4
    Base <- MCBase
    Overlays <- MCOverlays
    MaxOverlays = 2
    MaxPayloads = 2
    MaxTaken = 1
    None = None
CHECK_DEADLOCK FALSE
INVARIANTS TypeOK CleanEnd CollectorsStopFirst NormalForm PassedDelivered OverlaysWin
PROPERTY TestEnds
