CONSTANTS
    user = user
    recv = recv
    h1 = h1
    h2 = h2
    W = 5
    MaxGen = 34
    Threads <- MCThreads
    Handles <- MCHandles
SPECIFICATION Spec
INVARIANT DistinctInstanceIDs
CHECK_DEADLOCK FALSE
