\* Connection set consistency with peers closing connections and launch
\* waits without a timeout: a launch whose client never calls back blocks
\* the user thread for good, so the system may stop.
CONSTANTS
    p = p
    q = q
    c1 = c1
    c2 = c2
    c3 = c3
    r1 = r1
    r2 = r2
    None = None
    Target = p
    Created <- MCCreated
    Conns <- MCConns
    RequestIDs <- MCRequestIDs
    Timeouts = FALSE
    Closing = FALSE
    ConnectedCode = 2
    MaxListen = 2
INIT Init
NEXT Next
SYMMETRY MCSymmetry
PROPERTIES
    SyncConnectChecks
CHECK_DEADLOCK FALSE
