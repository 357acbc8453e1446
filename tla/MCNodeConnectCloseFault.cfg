\* A peer closes the connection of a node that initConnect has connected
\* directly, before syncConnect runs: the receiver stops the node and
\* syncConnect takes the launch path without a pending request.
CONSTANTS
    p = p
    q = q
    c1 = c1
    c2 = c2
    c3 = c3
    r1 = r1
    r2 = r2
    None = None
    Target = p
    Created <- MCCreated
    Conns <- MCConns
    RequestIDs <- MCRequestIDs
    Timeouts = TRUE
    Closing = TRUE
    ConnectedCode = 2
    MaxListen = 2
SPECIFICATION Spec
INVARIANT
    NoNullRequestRead
CHECK_DEADLOCK FALSE
