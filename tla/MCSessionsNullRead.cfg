CONSTANTS
    srv = srv
    c1 = c1
    c2 = c2
    nA = nA
    nB = nB
    i1 = i1
    i2 = i2
    i3 = i3
    Server = srv
    Clients <- MCClients
    Names <- MCNames
    SessionIDs <- MCSessionIDs
    INVALID_ID = INVALID_ID
    NoEntry = NoEntry
    NullEntry = NullEntry
    MaxMaps = 2
SPECIFICATION Spec
INVARIANT NoNullSessionRead
CHECK_DEADLOCK FALSE
