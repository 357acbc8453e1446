----------------------------- MODULE SendQueue -----------------------------
(***************************************************************************)
(* The send-on-register queue of co::ObjectStore                          *)
(* (src/libs/co/objectStore.cpp).                                          *)
(*                                                                         *)
(* Application threads register and deregister master objects; with a    *)
(* positive IATTR_NODE_SEND_QUEUE_SIZE each does so by posting a packet to *)
(* the local node's command queue, deregistration waiting for it to be    *)
(* served.  The command thread pushes a registered object onto the bounded *)
(* _sendQueue while _sendOnRegister is positive, erases it on             *)
(* deregistration, clears the queue when the last enable is undone, and   *)
(* when idle sends the instance data of the front object to all peers (or *)
(* drops it once its age has passed).                                      *)
(*                                                                         *)
(* The queue size is positive (with 0 registerObject posts nothing and the *)
(* queue stays empty).  Time is abstracted to the moment each queued item *)
(* expires; items expire in queue order, since they were pushed in time   *)
(* order with the same IATTR_NODE_SEND_QUEUE_AGE.                          *)
(***************************************************************************)
EXTENDS Naturals, Sequences, SequencesExt

CONSTANTS
    Objects,      \* master objects the application registers
    QueueSize,    \* IATTR_NODE_SEND_QUEUE_SIZE (> 0)
    QueueAge,     \* IATTR_NODE_SEND_QUEUE_AGE; 0 means no expiry
    MaxEnable     \* bound on nested enableSendOnRegister calls

ASSUME QueueSize \in Nat \ {0} /\ QueueAge \in Nat /\ MaxEnable \in Nat

VARIABLES
    sendOnRegister, \* _sendOnRegister
    sendQueue,      \* _sendQueue: sequence of [object, expired]
    cmdq,           \* packets posted to the local command queue, in order
    objState,       \* per object: "unregistered", "registered",
                    \* "deregistering" (waiting), "served" (request served)
    cfgState,       \* thread calling disableSendOnRegister: "idle",
                    \* "disabling" (waiting) or "served"
    peers           \* getNodes( nodes, false ) is not empty

vars == <<sendOnRegister, sendQueue, cmdq, objState, cfgState, peers>>

Packets ==
    [type : {"REGISTER", "DEREGISTER"}, object : Objects]
        \cup [type : {"DISABLE"}]

Init ==
    /\ sendOnRegister = 0
    /\ sendQueue = <<>>
    /\ cmdq = <<>>
    /\ objState = [o \in Objects |-> "unregistered"]
    /\ cfgState = "idle"
    /\ peers \in BOOLEAN

-----------------------------------------------------------------------------
(* Application threads.                                                    *)

\* registerObject: attach, then post NodeRegisterObjectPacket.
registerObject(o) ==
    /\ objState[o] = "unregistered"
    /\ objState' = [objState EXCEPT ![o] = "registered"]
    /\ cmdq' = Append(cmdq, [type |-> "REGISTER", object |-> o])
    /\ UNCHANGED <<sendOnRegister, sendQueue, cfgState, peers>>

\* Mutant: deregisterObject posts the packet but does not wait for it.
deregisterObjectNoWait(o) ==
    /\ objState[o] = "registered"
    /\ objState' = [objState EXCEPT ![o] = "unregistered"]
    /\ cmdq' = Append(cmdq, [type |-> "DEREGISTER", object |-> o])
    /\ UNCHANGED <<sendOnRegister, sendQueue, cfgState, peers>>

\* deregisterObject: post NodeDeregisterObjectPacket and wait for it.
deregisterObject(o) ==
    /\ objState[o] = "registered"
    /\ objState' = [objState EXCEPT ![o] = "deregistering"]
    /\ cmdq' = Append(cmdq, [type |-> "DEREGISTER", object |-> o])
    /\ UNCHANGED <<sendOnRegister, sendQueue, cfgState, peers>>

\* deregisterObject after waitRequest: detach; the object may be deleted
\* or registered again.
deregisterObjectDone(o) ==
    /\ objState[o] = "served"
    /\ objState' = [objState EXCEPT ![o] = "unregistered"]
    /\ UNCHANGED <<sendOnRegister, sendQueue, cmdq, cfgState, peers>>

enableSendOnRegister ==
    /\ sendOnRegister < MaxEnable
    /\ sendOnRegister' = sendOnRegister + 1
    /\ UNCHANGED <<sendQueue, cmdq, objState, cfgState, peers>>

\* disableSendOnRegister, undoing an earlier enable: post the packet and
\* wait for it.
disableSendOnRegister ==
    /\ cfgState = "idle"
    /\ sendOnRegister > 0
    /\ cfgState' = "disabling"
    /\ cmdq' = Append(cmdq, [type |-> "DISABLE"])
    /\ UNCHANGED <<sendOnRegister, sendQueue, objState, peers>>

disableSendOnRegisterDone ==
    /\ cfgState = "served"
    /\ cfgState' = "idle"
    /\ UNCHANGED <<sendOnRegister, sendQueue, cmdq, objState, peers>>

-----------------------------------------------------------------------------
(* The command thread: handlers of the packets at the head of cmdq, and    *)
(* notifyCommandThreadIdle.                                                *)

Head1(type) == cmdq # <<>> /\ Head(cmdq).type = type

\* The while loop of _cmdRegisterObject: pop the front while the queue is
\* longer than IATTR_NODE_SEND_QUEUE_SIZE.
TrimFront(q) ==
    IF Len(q) > QueueSize THEN SubSeq(q, Len(q) - QueueSize + 1, Len(q)) ELSE q

\* Mutant: the queue is trimmed before the new item is pushed.
_cmdRegisterObjectTrimFirst ==
    /\ Head1("REGISTER")
    /\ cmdq' = Tail(cmdq)
    /\ sendQueue' =
          IF sendOnRegister <= 0
             THEN sendQueue
             ELSE Append(TrimFront(sendQueue),
                         [object |-> Head(cmdq).object, expired |-> FALSE])
    /\ UNCHANGED <<sendOnRegister, objState, cfgState, peers>>

\* Mutant: room is made before the push by popping the back of the deque,
\* so the newest queued object is evicted instead of the oldest.
_cmdRegisterObjectEvictNewest ==
    LET item == [object |-> Head(cmdq).object, expired |-> FALSE] IN
    /\ Head1("REGISTER")
    /\ cmdq' = Tail(cmdq)
    /\ sendQueue' =
          IF sendOnRegister <= 0 THEN sendQueue
          ELSE IF Len(sendQueue) >= QueueSize
                  THEN Append(SubSeq(sendQueue, 1, QueueSize - 1), item)
                  ELSE Append(sendQueue, item)
    /\ UNCHANGED <<sendOnRegister, objState, cfgState, peers>>

\* Push the object with its expiry and trim the queue to its size.
_cmdRegisterObject ==
    /\ Head1("REGISTER")
    /\ cmdq' = Tail(cmdq)
    /\ sendQueue' =
          IF sendOnRegister <= 0
             THEN sendQueue
             ELSE TrimFront(Append(sendQueue,
                                   [object |-> Head(cmdq).object,
                                    expired |-> FALSE]))
    /\ UNCHANGED <<sendOnRegister, objState, cfgState, peers>>

\* Erase the first queued item of the object, then serve the request.
_cmdDeregisterObject ==
    LET o == Head(cmdq).object
        i == SelectInSeq(sendQueue, LAMBDA it : it.object = o)
    IN  /\ Head1("DEREGISTER")
        /\ cmdq' = Tail(cmdq)
        /\ sendQueue' = IF i = 0 THEN sendQueue ELSE RemoveAt(sendQueue, i)
        /\ objState' = [objState EXCEPT ![o] = "served"]
        /\ UNCHANGED <<sendOnRegister, cfgState, peers>>

\* Mutant: the queue is not cleared when the last enable is undone.
_cmdDisableSendOnRegisterNoClear ==
    /\ Head1("DISABLE")
    /\ cmdq' = Tail(cmdq)
    /\ sendOnRegister' = sendOnRegister - 1
    /\ sendQueue' = sendQueue
    /\ cfgState' = "served"
    /\ UNCHANGED <<objState, peers>>

\* --_sendOnRegister; at zero the queue is cleared (and multicast
\* connections are finished); then the request is served.
_cmdDisableSendOnRegister ==
    /\ Head1("DISABLE")
    /\ cmdq' = Tail(cmdq)
    /\ sendOnRegister' = sendOnRegister - 1
    /\ sendQueue' = IF sendOnRegister - 1 = 0 THEN <<>> ELSE sendQueue
    /\ cfgState' = "served"
    /\ UNCHANGED <<objState, peers>>

\* Mutant: the peers are looked up before the age test, so without peers
\* even an expired item stays at the front.
notifyCommandThreadIdleNeedsPeers ==
    /\ cmdq = <<>>
    /\ sendQueue # <<>>
    /\ peers
    /\ sendQueue' = Tail(sendQueue)
    /\ UNCHANGED <<sendOnRegister, cmdq, objState, cfgState, peers>>

\* notifyCommandThreadIdle: an expired front item is dropped; one that is
\* not is sent to all peers and popped, unless there are none, when the
\* thread yields and keeps it (a stuttering step).  The command thread
\* calls it when its command queue is empty.
notifyCommandThreadIdle ==
    /\ cmdq = <<>>
    /\ sendQueue # <<>>
    /\ \/ /\ Head(sendQueue).expired
       \/ /\ ~Head(sendQueue).expired
          /\ peers
    /\ sendQueue' = Tail(sendQueue)
    /\ UNCHANGED <<sendOnRegister, cmdq, objState, cfgState, peers>>

-----------------------------------------------------------------------------
(* Environment: time passing and peers connecting and leaving.             *)

\* The oldest item that has not yet expired reaches its age.
Expire ==
    LET i == SelectInSeq(sendQueue, LAMBDA it : ~it.expired)
    IN  /\ QueueAge # 0
        /\ i # 0
        /\ sendQueue' = [sendQueue EXCEPT ![i].expired = TRUE]
        /\ UNCHANGED <<sendOnRegister, cmdq, objState, cfgState, peers>>

PeersChange ==
    /\ peers' = ~peers
    /\ UNCHANGED <<sendOnRegister, sendQueue, cmdq, objState, cfgState>>

CommandHandlers ==
    \/ _cmdRegisterObject
    \/ _cmdDeregisterObject
    \/ _cmdDisableSendOnRegister

Next ==
    \/ \E o \in Objects :
          \/ registerObject(o)
          \/ deregisterObject(o)
          \/ deregisterObjectDone(o)
    \/ enableSendOnRegister
    \/ disableSendOnRegister
    \/ disableSendOnRegisterDone
    \/ CommandHandlers
    \/ notifyCommandThreadIdle
    \/ Expire
    \/ PeersChange

\* The command thread handles every queued packet, and each time it finds
\* its queue empty it calls notifyCommandThreadIdle; time passes.
Spec ==
    /\ Init /\ [][Next]_vars
    /\ WF_vars(CommandHandlers)
    /\ SF_vars(notifyCommandThreadIdle)
    /\ WF_vars(Expire)

-----------------------------------------------------------------------------
\* The queue holds at most IATTR_NODE_SEND_QUEUE_SIZE items, however many
\* registrations reach the command thread.
TypeOK ==
    /\ sendOnRegister \in 0..MaxEnable
    /\ sendQueue \in Seq([object : Objects, expired : BOOLEAN])
    /\ Len(sendQueue) <= QueueSize
    /\ cmdq \in Seq(Packets)
    /\ objState \in [Objects -> {"unregistered", "registered",
                                 "deregistering", "served"}]
    /\ cfgState \in {"idle", "disabling", "served"}
    /\ peers \in BOOLEAN

InQueue(o) == \E i \in 1..Len(sendQueue) : sendQueue[i].object = o

\* Every object in the send queue is still registered: once
\* deregisterObject returns (and the application may delete the object),
\* notifyCommandThreadIdle can no longer call sendInstanceData on it.
QueuedObjectsRegistered ==
    \A o \in Objects : InQueue(o) => objState[o] # "unregistered"

\* notifyCommandThreadIdle asserts _sendOnRegister > 0 whenever the queue
\* is not empty: enables, disables and registrations reaching the command
\* thread in any order never leave items behind the last disable.
QueueOnlyWhileEnabled ==
    sendQueue # <<>> => sendOnRegister > 0

\* The refinement mapping to SendOnRegister: the knob is on while
\* _sendOnRegister is positive, an object is registered until its
\* deregisterObject returns, and the queue is the objects of _sendQueue
\* in deque order.
AbsOn == sendOnRegister > 0
AbsRegistered == {o \in Objects : objState[o] # "unregistered"}
AbsQueued == [i \in 1..Len(sendQueue) |-> sendQueue[i].object]

Abstract == INSTANCE SendOnRegister
               WITH on <- AbsOn, registered <- AbsRegistered, queued <- AbsQueued

\* The deque discipline of the code implements the queue the spec
\* describes: push_back then the pop_front loop in _cmdRegisterObject
\* evict the oldest items, notifyCommandThreadIdle only ever takes the
\* front (sent or expired), _cmdDeregisterObject erases the object
\* wherever it is, and the enable counter, the packets in flight and the
\* expiry clock add no other visible step.  A wrong end of the deque in
\* any handler would send or drop objects out of registration order.
ImplementsSendOnRegister == Abstract!Spec

\* With an age set, and a command thread that runs out of packets again
\* and again (the drain is opportunistic: under a steady stream of
\* commands notifyCommandThreadIdle is never called), every queued object
\* eventually leaves the queue: sent, dropped as expired, trimmed, erased
\* or cleared, whether or not peers are connected.
ItemLeavesQueue ==
    []<>(cmdq = <<>>) => \A o \in Objects : InQueue(o) ~> ~InQueue(o)
=============================================================================
