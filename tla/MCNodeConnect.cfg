\* The request table under launch timeouts, late client connects and peers
\* closing connections.  The system may stop: the calls are bounded, and a
\* crash in syncConnect ends the process.
CONSTANTS
    p = p
    q = q
    c1 = c1
    c2 = c2
    c3 = c3
    r1 = r1
    r2 = r2
    None = None
    Target = p
    Created <- MCCreated
    Conns <- MCConns
    RequestIDs <- MCRequestIDs
    Timeouts = TRUE
    Closing = TRUE
    ConnectedCode = 2
    MaxListen = 2
INIT Init
NEXT Next
SYMMETRY MCSymmetry
INVARIANTS
    RequestsReleased
CHECK_DEADLOCK FALSE
