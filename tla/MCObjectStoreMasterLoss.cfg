\* After the master node fails and REMOVE_NODE has run on the slave node,
\* the slave instances stay attached to a master that is gone.
CONSTANTS
    n1 = n1
    n2 = n2
    m = m
    s1 = s1
    s2 = s2
    s3 = s3
    None = None
    Nodes <- MCNodes
    Handles <- MCHandles
    Home <- MCHome
    MasterHandle = m
    MaxVersion = 2
    MaxCrash = 1
    Deregistering = TRUE
SYMMETRY MCSymmetry
INIT Init
NEXT Next
INVARIANTS
    MasterNodeKnown
CHECK_DEADLOCK FALSE
