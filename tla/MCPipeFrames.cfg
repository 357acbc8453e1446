\* Safety of the frame counters, and the release of every finished frame
\* under fair pipe and node threads.  The server stops after MaxFrame
\* frames and MaxInit initialisations, so the runs end in states without
\* a step.
CONSTANTS
    ThreadModels <- MCThreadModels
    Latency = 1
    MaxFrame = 2
    MaxInit = 2
    Windows <- MCWindows
    NoWindow = NoWindow
    w1 = w1
    w2 = w2
    w3 = w3
SPECIFICATION Spec
INVARIANTS
    TypeOK
    FrameAssertions
    SharedContextsLive
PROPERTIES
    
    SharedContextsKept
    PipeDeletedClean
    PipeThreadJoined
CHECK_DEADLOCK FALSE
