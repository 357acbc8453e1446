\* mapObject hangs when the master is deregistered between the lookup and
\* addSlave of _cmdMapObject: the NONE change manager never answers.
CONSTANTS
    n1 = n1
    n2 = n2
    m = m
    s1 = s1
    s2 = s2
    s3 = s3
    None = None
    Nodes <- MCNodes
    Handles <- MCHandles
    Home <- MCHome
    MasterHandle = m
    MaxVersion = 2
    MaxCrash = 0
    Deregistering = TRUE
SPECIFICATION Spec
PROPERTIES
    CallsReturn
