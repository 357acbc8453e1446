\* Safety of the map, unmap, commit and node-failure protocols with the
\* master deregistering, and the return of every blocking call in the
\* behaviours where no node fails and the master stays registered.  A user
\* thread waiting on a failed peer blocks for good (waitRequest has no
\* timeout in these calls), so the system may stop.
CONSTANTS
    n1 = n1
    n2 = n2
    m = m
    s1 = s1
    s2 = s2
    s3 = s3
    None = None
    Nodes <- MCNodes
    Handles <- MCHandles
    Home <- MCHome
    MasterHandle = m
    MaxVersion = 2
    MaxCrash = 1
    Deregistering = TRUE
SPECIFICATION Spec
INVARIANTS
    TypeOK
    SubscribersMatchSlaves
    SlavesConverge
PROPERTIES
    CallsReturnWithoutFaults
CHECK_DEADLOCK FALSE
