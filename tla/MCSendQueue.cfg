\* Three objects and a queue of two, nested enables, peers that come and
\* go, and a finite IATTR_NODE_SEND_QUEUE_AGE.
CONSTANTS
    o1 = o1
    o2 = o2
    o3 = o3
    Objects <- MCObjects
    QueueSize = 2
    QueueAge = 1
    MaxEnable = 2
SPECIFICATION Spec
INVARIANTS
    TypeOK
    QueuedObjectsRegistered
    QueueOnlyWhileEnabled
PROPERTIES
    ItemLeavesQueue
    ImplementsSendOnRegister
