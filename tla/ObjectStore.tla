---------------------------- MODULE ObjectStore ----------------------------
(***************************************************************************)
(* The object store of Collage, co::ObjectStore (src/libs/co/objectStore.cpp)*)
(* for one distributed object identifier, on a cluster of local nodes.      *)
(*                                                                         *)
(* Every node runs three threads of its own:                               *)
(*   - a user thread, which calls registerObject, deregisterObject,        *)
(*     mapObject(NB/Sync), unmapObject and commit, and blocks in           *)
(*     waitRequest until its request is served;                            *)
(*   - the receiver thread, which reads one packet at a time from one      *)
(*     connection and either runs its handler inline (commands registered  *)
(*     with queue 0) or appends it to the command queue;                   *)
(*   - the command thread, which runs the queued handlers in FIFO order.   *)
(* Connections are reliable FIFO byte streams: net[<<f, t>>] holds the     *)
(* packets sent by f and not yet read by t; net[<<n, n>>] is the pipe a     *)
(* node uses to post commands to itself.                                   *)
(*                                                                         *)
(* The object handles are the co::Object instances of the identifier; the  *)
(* instance identifier _genNextID hands out is the handle itself, which is *)
(* unique on its node.  The change managers (objectCM.h and its subclasses,*)
(* not in this source tree) are modelled from the spec: a master CM keeps  *)
(* its subscriber set and head version, a slave CM its master instance,    *)
(* master node and the latest version it queued.                           *)
(***************************************************************************)
EXTENDS Naturals, Sequences, SequencesExt, FiniteSets

CONSTANTS
    Nodes,         \* the local nodes of the cluster
    Handles,       \* the co::Object instances of the identifier
    Home,          \* Home[h]: the node whose object store h lives in
    MasterHandle,  \* the instance the application registers
    None,          \* UUID::ZERO, EQ_INSTANCE_INVALID and the null pointer
    MaxVersion,    \* bound on the versions the master commits
    MaxCrash,      \* bound on the number of nodes that fail
    Deregistering  \* whether the application may deregister the master

ASSUME Home \in [Handles -> Nodes]
ASSUME MasterHandle \in Handles
ASSUME None \notin Nodes \cup Handles
ASSUME MaxVersion \in Nat \ {0} /\ MaxCrash \in Nat
ASSUME Deregistering \in BOOLEAN

VARIABLES
    net,          \* net[<<f, t>>]: packets in flight from f to t
    cmdq,         \* cmdq[n]: the command thread queue of n
    mapLookup,    \* _cmdMapObject between its locked lookup and addSlave
    objects,      \* objects[n]: the _objects list of the identifier on n
    cm,           \* cm[h]: the kind of change manager h has
    masterInst,   \* slave CM: the master's instance identifier
    masterNode,   \* slave CM: the master node (setMasterNode)
    slaves,       \* master CM: the subscribed slave instances
    headVersion,  \* master CM: the version of the last commit
    lastVersion,  \* slave CM: the latest version queued
    registered,   \* number of registrations of the master so far
    pc,           \* pc[n]: the call the user thread of n is blocked in
    served,       \* served[n]: the request of n's user thread was served
    answer,       \* answer[n]: the value it was served with
    up,           \* up[n]: the nodes n holds connected
    crashed       \* the nodes that have failed

vars == <<net, cmdq, mapLookup, objects, cm, masterInst, masterNode, slaves,
          headVersion, lastVersion, registered, pc, served, answer, up,
          crashed>>

Slaves == Handles \ {MasterHandle}
Channels == Nodes \X Nodes
Versions == 0..MaxVersion

-----------------------------------------------------------------------------
(* Packets.  Only the fields the handlers read are kept.                   *)

AttachMsg(h)        == [type |-> "ATTACH_OBJECT", h |-> h]
DetachMsg(h)        == [type |-> "DETACH_OBJECT", h |-> h]
FindMsg(h)          == [type |-> "FIND_MASTER_NODE_ID", h |-> h]
FindReplyMsg(x)     == [type |-> "FIND_MASTER_NODE_ID_REPLY", node |-> x]
MapMsg(s)           == [type |-> "MAP_OBJECT", h |-> s]
SuccessMsg(s, m, v) == [type |-> "MAP_OBJECT_SUCCESS", h |-> s, mi |-> m,
                        version |-> v]
ReplyMsg(s, ok, v)  == [type |-> "MAP_OBJECT_REPLY", h |-> s, ok |-> ok,
                        version |-> v]
UnsubMsg(s, m)      == [type |-> "UNSUBSCRIBE_OBJECT", h |-> s, mi |-> m]
CommitMsg(v)        == [type |-> "OBJECT_INSTANCE_COMMIT", version |-> v]
RemoveNodeMsg(x)    == [type |-> "REMOVE_NODE", node |-> x]

Msgs ==
    [type : {"ATTACH_OBJECT", "DETACH_OBJECT", "FIND_MASTER_NODE_ID",
             "MAP_OBJECT"}, h : Handles]
    \cup [type : {"FIND_MASTER_NODE_ID_REPLY", "REMOVE_NODE"},
          node : Nodes \cup {None}]
    \cup [type : {"MAP_OBJECT_SUCCESS"}, h : Handles, mi : Handles,
          version : Versions]
    \cup [type : {"MAP_OBJECT_REPLY"}, h : Handles, ok : BOOLEAN,
          version : Versions]
    \cup [type : {"UNSUBSCRIBE_OBJECT"}, h : Handles, mi : Handles \cup {None}]
    \cup [type : {"OBJECT_INSTANCE_COMMIT"}, version : Versions]

\* The commands the receiver thread hands to the command thread (the ones
\* registered with the command thread queue in the ObjectStore constructor).
Queued == {"FIND_MASTER_NODE_ID", "MAP_OBJECT", "UNSUBSCRIBE_OBJECT"}

Ops == {"idle", "register", "deregister", "find", "map", "unsubscribe",
        "detach"}

-----------------------------------------------------------------------------
(* Helpers                                                                 *)

Attached(h) == Contains(objects[Home[h]], h)

\* Packets sent to a failed node are lost.
Push(nw, f, t, ms) ==
    IF t \in crashed THEN nw ELSE [nw EXCEPT ![<<f, t>>] = @ \o ms]

Pop(nw, f, t) == [nw EXCEPT ![<<f, t>>] = Tail(@)]

Serve(n, v) ==
    /\ served' = [served EXCEPT ![n] = TRUE]
    /\ answer' = [answer EXCEPT ![n] = v]

Idle == [op |-> "idle", h |-> None, todo |-> {}, tried |-> {}]

Call(op, h) == [op |-> op, h |-> h, todo |-> {}, tried |-> {}]

\* Blocks the user thread of n in waitRequest.
Wait(n, p) ==
    /\ pc' = [pc EXCEPT ![n] = p]
    /\ served' = [served EXCEPT ![n] = FALSE]
    /\ UNCHANGED answer

Return(n) ==
    /\ pc' = [pc EXCEPT ![n] = Idle]
    /\ UNCHANGED <<served, answer>>

\* _attachObject appends the instance to the list of its identifier.
AttachObject(n, h) == [objects EXCEPT ![n] = Append(@, h)]

\* _detachObject removes an attached instance from the list; it returns
\* at once when the instance is not attached.
DetachObject(n, h) == [objects EXCEPT ![n] = Remove(@, h)]

-----------------------------------------------------------------------------
Init ==
    /\ net = [c \in Channels |-> <<>>]
    /\ cmdq = [n \in Nodes |-> <<>>]
    /\ mapLookup = [n \in Nodes |-> None]
    /\ objects = [n \in Nodes |-> <<>>]
    /\ cm = [h \in Handles |-> "none"]
    /\ masterInst = [h \in Handles |-> None]
    /\ masterNode = [h \in Handles |-> None]
    /\ slaves = [h \in Handles |-> {}]
    /\ headVersion = 0
    /\ lastVersion = [h \in Handles |-> None]
    /\ registered = 0
    /\ pc = [n \in Nodes |-> Idle]
    /\ served = [n \in Nodes |-> FALSE]
    /\ answer = [n \in Nodes |-> None]
    /\ up = [n \in Nodes |-> Nodes]
    /\ crashed = {}

-----------------------------------------------------------------------------
(* User thread.  Each call starts with the user thread idle; the calls     *)
(* that wait for a request end in a separate step once it is served.       *)

UserIdle(n) == n \notin crashed /\ pc[n].op = "idle"

\* ObjectStore::registerObject: set up the master change manager, then
\* attachObject posts ATTACH_OBJECT to the own receiver thread and waits.
\* NODE_SEND_QUEUE_SIZE is 0 here, so no REGISTER_OBJECT packet follows.
RegisterObject(n) ==
    LET h == MasterHandle IN
    /\ UserIdle(n)
    /\ Home[h] = n
    /\ ~Attached(h)
    /\ registered = 0
    /\ cm' = [cm EXCEPT ![h] = "master"]
    /\ slaves' = [slaves EXCEPT ![h] = {}]
    /\ headVersion' = 1
    /\ registered' = registered + 1
    /\ net' = Push(net, n, n, <<AttachMsg(h)>>)
    /\ Wait(n, Call("register", h))
    /\ UNCHANGED <<cmdq, mapLookup, objects, masterInst, masterNode,
                   lastVersion, up, crashed>>

RegisterObjectDone(n) ==
    /\ n \notin crashed
    /\ pc[n].op = "register"
    /\ served[n]
    /\ Return(n)
    /\ UNCHANGED <<net, cmdq, mapLookup, objects, cm, masterInst, masterNode,
                   slaves, headVersion, lastVersion, registered, up, crashed>>

\* ObjectStore::deregisterObject: returns at once when not attached;
\* otherwise detachObject posts DETACH_OBJECT to the own receiver thread and
\* waits, then the change manager is reset to NONE, which drops the
\* subscriber list.
DeregisterObject(n) ==
    LET h == MasterHandle IN
    /\ Deregistering
    /\ UserIdle(n)
    /\ Home[h] = n
    /\ Attached(h)
    /\ net' = Push(net, n, n, <<DetachMsg(h)>>)
    /\ Wait(n, Call("deregister", h))
    /\ UNCHANGED <<cmdq, mapLookup, objects, cm, masterInst, masterNode,
                   slaves, headVersion, lastVersion, registered, up, crashed>>

DeregisterObjectDone(n) ==
    LET h == pc[n].h IN
    /\ n \notin crashed
    /\ pc[n].op = "deregister"
    /\ served[n]
    /\ cm' = [cm EXCEPT ![h] = "none"]
    /\ slaves' = [slaves EXCEPT ![h] = {}]
    /\ Return(n)
    /\ UNCHANGED <<net, cmdq, mapLookup, objects, masterInst, masterNode,
                   headVersion, lastVersion, registered, up, crashed>>

\* Mutant: mapObjectNB does not refuse an object that is already attached.
MapObjectNoAttachedCheck(n, s) ==
    /\ UserIdle(n)
    /\ s \in Slaves
    /\ Home[s] = n
    /\ cm[s] # "master"
    /\ \E t \in up[n] :
          /\ net' = Push(net, n, t, <<FindMsg(s)>>)
          /\ Wait(n, [op |-> "find", h |-> s, todo |-> up[n], tried |-> {t}])
    /\ UNCHANGED <<cmdq, mapLookup, objects, cm, masterInst, masterNode,
                   slaves, headVersion, lastVersion, registered, up, crashed>>

\* ObjectStore::mapObjectNB(object, id, version) with a detached, non-master
\* object: _connectMaster starts _findMasterNodeID, which takes a copy of
\* the connected nodes (getNodes, the local node included) and asks them
\* one after the other, waiting for each answer.
MapObject(n, s) ==
    /\ UserIdle(n)
    /\ s \in Slaves
    /\ Home[s] = n
    /\ ~Attached(s)
    /\ cm[s] # "master"
    /\ \E t \in up[n] :
          /\ net' = Push(net, n, t, <<FindMsg(s)>>)
          /\ Wait(n, [op |-> "find", h |-> s, todo |-> up[n], tried |-> {t}])
    /\ UNCHANGED <<cmdq, mapLookup, objects, cm, masterInst, masterNode,
                   slaves, headVersion, lastVersion, registered, up, crashed>>

\* Mutant: the search does not advance past a node that did not know the
\* master, and asks it again.
FindMasterNodeIDReplyNoAdvance(n) ==
    LET s    == pc[n].h
        left == pc[n].todo \ pc[n].tried
    IN
    /\ n \notin crashed
    /\ pc[n].op = "find"
    /\ served[n]
    /\ \/ /\ answer[n] # None
          /\ answer[n] \in up[n]
          /\ net' = Push(net, n, answer[n], <<MapMsg(s)>>)
          /\ Wait(n, Call("map", s))
       \/ /\ answer[n] # None
          /\ answer[n] \notin up[n]
          /\ Return(n) /\ UNCHANGED net
       \/ /\ answer[n] = None
          /\ \E t \in left :
                /\ net' = Push(net, n, t, <<FindMsg(s)>>)
                /\ Wait(n, pc[n])
       \/ /\ answer[n] = None
          /\ left = {}
          /\ Return(n) /\ UNCHANGED net
    /\ UNCHANGED <<cmdq, mapLookup, objects, cm, masterInst, masterNode,
                   slaves, headVersion, lastVersion, registered, up, crashed>>

\* The rest of _findMasterNodeID and _connectMaster, and the second
\* mapObjectNB: a non-zero answer ends the search; the master must then be
\* connected, and MAP_OBJECT is sent to it.  A failed search or connection
\* makes mapObjectNB return LB_UNDEFINED_UINT32, and mapObjectSync false.
FindMasterNodeIDReply(n) ==
    LET s    == pc[n].h
        left == pc[n].todo \ pc[n].tried
    IN
    /\ n \notin crashed
    /\ pc[n].op = "find"
    /\ served[n]
    /\ \/ /\ answer[n] # None
          /\ answer[n] \in up[n]
          /\ net' = Push(net, n, answer[n], <<MapMsg(s)>>)
          /\ Wait(n, Call("map", s))
       \/ /\ answer[n] # None
          /\ answer[n] \notin up[n]
          /\ Return(n) /\ UNCHANGED net
       \/ /\ answer[n] = None
          /\ \E t \in left :
                /\ net' = Push(net, n, t, <<FindMsg(s)>>)
                /\ Wait(n, [pc[n] EXCEPT !.tried = @ \cup {t}])
       \/ /\ answer[n] = None
          /\ left = {}
          /\ Return(n) /\ UNCHANGED net
    /\ UNCHANGED <<cmdq, mapLookup, objects, cm, masterInst, masterNode,
                   slaves, headVersion, lastVersion, registered, up, crashed>>

\* ObjectStore::mapObjectSync: once the reply served the request, the object
\* is mapped iff MAP_OBJECT_SUCCESS attached it.
MapObjectSync(n) ==
    /\ n \notin crashed
    /\ pc[n].op = "map"
    /\ served[n]
    /\ Return(n)
    /\ UNCHANGED <<net, cmdq, mapLookup, objects, cm, masterInst, masterNode,
                   slaves, headVersion, lastVersion, registered, up, crashed>>

\* ObjectStore::unmapObject of an attached slave: with a connected master
\* node, send UNSUBSCRIBE_OBJECT to it and wait for the DETACH_OBJECT it
\* returns; otherwise detach locally through the own receiver thread.
UnmapObject(n, s) ==
    LET m == masterNode[s] IN
    /\ UserIdle(n)
    /\ s \in Slaves
    /\ Home[s] = n
    /\ Attached(s)
    /\ cm[s] = "slave"
    /\ IF masterInst[s] # None /\ m # None /\ m \in up[n]
       THEN /\ net' = Push(net, n, m, <<UnsubMsg(s, masterInst[s])>>)
            /\ Wait(n, Call("unsubscribe", s))
       ELSE /\ net' = Push(net, n, n, <<DetachMsg(s)>>)
            /\ Wait(n, Call("detach", s))
    /\ UNCHANGED <<cmdq, mapLookup, objects, cm, masterInst, masterNode,
                   slaves, headVersion, lastVersion, registered, up, crashed>>

\* After an unsubscribe the slave change manager is left in place; after a
\* local detach it is reset to NONE.
UnmapObjectDone(n) ==
    LET s == pc[n].h IN
    /\ n \notin crashed
    /\ pc[n].op \in {"unsubscribe", "detach"}
    /\ served[n]
    /\ IF pc[n].op = "detach"
       THEN /\ cm' = [cm EXCEPT ![s] = "none"]
            /\ masterInst' = [masterInst EXCEPT ![s] = None]
            /\ masterNode' = [masterNode EXCEPT ![s] = None]
       ELSE UNCHANGED <<cm, masterInst, masterNode>>
    /\ Return(n)
    /\ UNCHANGED <<net, cmdq, mapLookup, objects, slaves, headVersion,
                   lastVersion, registered, up, crashed>>

\* Object::commit on the master (master change manager, from the spec):
\* a new head version, sent once to every node with a subscriber.
Commit(n) ==
    LET h       == MasterHandle
        v       == headVersion + 1
        targets == {Home[s] : s \in slaves[h]}
    IN
    /\ UserIdle(n)
    /\ Home[h] = n
    /\ cm[h] = "master"
    /\ headVersion < MaxVersion
    /\ headVersion' = v
    /\ net' = [c \in Channels |->
                 IF c[1] = n /\ c[2] \in targets \ crashed
                 THEN Append(net[c], CommitMsg(v)) ELSE net[c]]
    /\ UNCHANGED <<cmdq, mapLookup, objects, cm, masterInst, masterNode,
                   slaves, lastVersion, registered, pc, served, answer, up,
                   crashed>>

-----------------------------------------------------------------------------
(* Receiver thread of n: the handlers registered with queue 0 run inline   *)
(* on the packet at the head of one connection f -> n.                      *)

Receiving(n, f, type) ==
    /\ n \notin crashed
    /\ net[<<f, n>>] # <<>>
    /\ Head(net[<<f, n>>]).type = type

Msg(n, f) == Head(net[<<f, n>>])

\* The commands registered with the command thread queue are handed over.
RecvQueued(n, f) ==
    /\ n \notin crashed
    /\ net[<<f, n>>] # <<>>
    /\ Msg(n, f).type \in Queued
    /\ net' = Pop(net, f, n)
    /\ cmdq' = [cmdq EXCEPT ![n] = Append(@, [from |-> f, msg |-> Msg(n, f)])]
    /\ UNCHANGED <<mapLookup, objects, cm, masterInst, masterNode, slaves,
                   headVersion, lastVersion, registered, pc, served, answer,
                   up, crashed>>

\* _cmdAttachObject: _attachObject appends the object to the list of its
\* identifier, then the request is served.
RecvAttachObject(n, f) ==
    LET h == Msg(n, f).h IN
    /\ Receiving(n, f, "ATTACH_OBJECT")
    /\ net' = Pop(net, f, n)
    /\ objects' = AttachObject(n, h)
    /\ Serve(n, None)
    /\ UNCHANGED <<cmdq, mapLookup, cm, masterInst, masterNode, slaves,
                   headVersion, lastVersion, registered, pc, up, crashed>>

\* _cmdDetachObject: detach the instance if it is attached, serve the
\* request in any case.  The request is the one of n's user thread, also
\* when the packet was returned by the master to an unsubscribe.
RecvDetachObject(n, f) ==
    LET h == Msg(n, f).h IN
    /\ Receiving(n, f, "DETACH_OBJECT")
    /\ net' = Pop(net, f, n)
    /\ objects' = DetachObject(n, h)
    /\ Serve(n, None)
    /\ UNCHANGED <<cmdq, mapLookup, cm, masterInst, masterNode, slaves,
                   headVersion, lastVersion, registered, pc, up, crashed>>

\* _cmdFindMasterNodeIDReply serves the request with the node found.
RecvFindMasterNodeIDReply(n, f) ==
    /\ Receiving(n, f, "FIND_MASTER_NODE_ID_REPLY")
    /\ net' = Pop(net, f, n)
    /\ Serve(n, Msg(n, f).node)
    /\ UNCHANGED <<cmdq, mapLookup, objects, cm, masterInst, masterNode,
                   slaves, headVersion, lastVersion, registered, pc, up,
                   crashed>>

\* _cmdMapObjectSuccess: set up the slave change manager with the master's
\* instance identifier and attach the object; the instance data the master
\* sends after this packet gives the slave its first version.
RecvMapObjectSuccess(n, f) ==
    LET m == Msg(n, f) IN
    /\ Receiving(n, f, "MAP_OBJECT_SUCCESS")
    /\ net' = Pop(net, f, n)
    /\ cm' = [cm EXCEPT ![m.h] = "slave"]
    /\ masterInst' = [masterInst EXCEPT ![m.h] = m.mi]
    /\ masterNode' = [masterNode EXCEPT ![m.h] = None]
    /\ lastVersion' = [lastVersion EXCEPT ![m.h] = m.version]
    /\ objects' = AttachObject(n, m.h)
    /\ UNCHANGED <<cmdq, mapLookup, slaves, headVersion, registered, pc,
                   served, answer, up, crashed>>

\* _cmdMapObjectReply: on success record the sender as master node; serve
\* the request with the version.
RecvMapObjectReply(n, f) ==
    LET m == Msg(n, f) IN
    /\ Receiving(n, f, "MAP_OBJECT_REPLY")
    /\ net' = Pop(net, f, n)
    /\ masterNode' = IF m.ok THEN [masterNode EXCEPT ![m.h] = f]
                     ELSE masterNode
    /\ Serve(n, m.version)
    /\ UNCHANGED <<cmdq, mapLookup, objects, cm, masterInst, slaves,
                   headVersion, lastVersion, registered, pc, up, crashed>>

\* _cmdInstance for OBJECT_INSTANCE_COMMIT, then dispatchObjectCommand with
\* instance NONE: dropped when no instance is attached; otherwise the first
\* instance gets the command and every other one a clone.  A slave change
\* manager queues the version.
\* Mutant: only the first attached instance gets the command, no clones.
DeliverCommitFirstOnly(n, v) ==
    [h \in Handles |->
        IF objects[n] # <<>> /\ h = Head(objects[n]) /\ cm[h] = "slave"
        THEN v ELSE lastVersion[h]]

DeliverCommit(n, v) ==
    [h \in Handles |->
        IF Contains(objects[n], h) /\ cm[h] = "slave" THEN v
        ELSE lastVersion[h]]

RecvObjectInstanceCommit(n, f) ==
    /\ Receiving(n, f, "OBJECT_INSTANCE_COMMIT")
    /\ net' = Pop(net, f, n)
    /\ lastVersion' = DeliverCommit(n, Msg(n, f).version)
    /\ UNCHANGED <<cmdq, mapLookup, objects, cm, masterInst, masterNode,
                   slaves, headVersion, registered, pc, served, answer, up,
                   crashed>>

\* The connection to a failed node reports DISCONNECT once its data is
\* read: the node is no longer connected and REMOVE_NODE is queued for the
\* command thread (LocalNode's handleDisconnect, from the spec).
RecvDisconnect(n, f) ==
    /\ n \notin crashed
    /\ f \in crashed
    /\ f \in up[n]
    /\ net[<<f, n>>] = <<>>
    /\ up' = [up EXCEPT ![n] = @ \ {f}]
    /\ cmdq' = [cmdq EXCEPT ![n] =
                  Append(@, [from |-> n, msg |-> RemoveNodeMsg(f)])]
    /\ UNCHANGED <<net, mapLookup, objects, cm, masterInst, masterNode,
                   slaves, headVersion, lastVersion, registered, pc, served,
                   answer, crashed>>

-----------------------------------------------------------------------------
(* Command thread of n: the head of its queue.                             *)

Command(n, type) ==
    /\ n \notin crashed
    /\ mapLookup[n] = None
    /\ cmdq[n] # <<>>
    /\ Head(cmdq[n]).msg.type = type

Cmd(n) == Head(cmdq[n])

\* The answer of _cmdFindMasterNodeID: the first attached instance that is
\* the master, or a slave that knows its master node, decides.
FindAnswer(n) ==
    LET i == SelectInSeq(objects[n],
                         LAMBDA h : cm[h] = "master" \/ masterNode[h] # None)
        h == objects[n][i]
    IN IF i = 0 THEN None
       ELSE IF cm[h] = "master" THEN n ELSE masterNode[h]

CmdFindMasterNodeID(n) ==
    /\ Command(n, "FIND_MASTER_NODE_ID")
    /\ cmdq' = [cmdq EXCEPT ![n] = Tail(@)]
    /\ net' = Push(net, n, Cmd(n).from, <<FindReplyMsg(FindAnswer(n))>>)
    /\ UNCHANGED <<mapLookup, objects, cm, masterInst, masterNode, slaves,
                   headVersion, lastVersion, registered, pc, served, answer,
                   up, crashed>>

\* _cmdMapObject, first half: under the read lock, find the master instance.
MasterOf(n) ==
    LET i == SelectInSeq(objects[n], LAMBDA h : cm[h] = "master")
    IN IF i = 0 THEN None ELSE objects[n][i]

CmdMapObjectLookup(n) ==
    /\ Command(n, "MAP_OBJECT")
    /\ cmdq' = [cmdq EXCEPT ![n] = Tail(@)]
    /\ mapLookup' = [mapLookup EXCEPT ![n] =
                       [from |-> Cmd(n).from, h |-> Cmd(n).msg.h,
                        master |-> MasterOf(n)]]
    /\ UNCHANGED <<net, objects, cm, masterInst, masterNode, slaves,
                   headVersion, lastVersion, registered, pc, served, answer,
                   up, crashed>>

\* VersionedMasterCM::addSlave (from the spec): subscribe the slave, send
\* MAP_OBJECT_SUCCESS, the instance data of the head version and
\* MAP_OBJECT_REPLY.
AddSlave(n, to, s, mh) ==
    /\ slaves' = [slaves EXCEPT ![mh] = @ \cup {s}]
    /\ net' = Push(net, n, to, <<SuccessMsg(s, mh, headVersion),
                                 ReplyMsg(s, TRUE, headVersion)>>)

\* _cmdMapObject, second half, after the lock is released: addSlave on the
\* instance found, or a failure reply when there was none.  If the master
\* was deregistered in between, its change manager is NONE by now, which
\* does not answer (LBDONTCALL).
CmdMapObjectAddSlave(n) ==
    LET r == mapLookup[n] IN
    /\ n \notin crashed
    /\ r # None
    /\ mapLookup' = [mapLookup EXCEPT ![n] = None]
    /\ \/ /\ r.master = None
          /\ net' = Push(net, n, r.from, <<ReplyMsg(r.h, FALSE, 0)>>)
          /\ UNCHANGED slaves
       \/ /\ r.master # None
          /\ cm[r.master] = "master"
          /\ AddSlave(n, r.from, r.h, r.master)
       \/ /\ r.master # None
          /\ cm[r.master] # "master"
          /\ UNCHANGED <<net, slaves>>
    /\ UNCHANGED <<cmdq, objects, cm, masterInst, masterNode, headVersion,
                   lastVersion, registered, pc, served, answer, up, crashed>>

\* Mutant: the master instance is matched against the slave's identifier.
CmdUnsubscribeObjectWrongID(n) ==
    LET m == Cmd(n).msg IN
    /\ Command(n, "UNSUBSCRIBE_OBJECT")
    /\ cmdq' = [cmdq EXCEPT ![n] = Tail(@)]
    /\ slaves' = [h \in Handles |->
                    IF Contains(objects[n], h) /\ cm[h] = "master" /\ h = m.h
                    THEN slaves[h] \ {m.h} ELSE slaves[h]]
    /\ net' = Push(net, n, Cmd(n).from, <<DetachMsg(m.h)>>)
    /\ UNCHANGED <<mapLookup, objects, cm, masterInst, masterNode,
                   headVersion, lastVersion, registered, pc, served, answer,
                   up, crashed>>

\* _cmdUnsubscribeObject: the master instance with the given instance
\* identifier drops the slave; DETACH_OBJECT goes back in any case.
CmdUnsubscribeObject(n) ==
    LET m == Cmd(n).msg IN
    /\ Command(n, "UNSUBSCRIBE_OBJECT")
    /\ cmdq' = [cmdq EXCEPT ![n] = Tail(@)]
    /\ slaves' = [h \in Handles |->
                    IF Contains(objects[n], h) /\ cm[h] = "master" /\ h = m.mi
                    THEN slaves[h] \ {m.h} ELSE slaves[h]]
    /\ net' = Push(net, n, Cmd(n).from, <<DetachMsg(m.h)>>)
    /\ UNCHANGED <<mapLookup, objects, cm, masterInst, masterNode,
                   headVersion, lastVersion, registered, pc, served, answer,
                   up, crashed>>

\* _cmdRemoveNode: every attached instance drops the subscribers of the
\* node (removeSlaves; a no-op for slave change managers).
\* Mutant: REMOVE_NODE leaves the failed node's slaves subscribed.
CmdRemoveNodeKeepSlaves(n) ==
    /\ Command(n, "REMOVE_NODE")
    /\ cmdq' = [cmdq EXCEPT ![n] = Tail(@)]
    /\ UNCHANGED <<net, mapLookup, objects, cm, masterInst, masterNode, slaves,
                   headVersion, lastVersion, registered, pc, served, answer,
                   up, crashed>>

CmdRemoveNode(n) ==
    LET x == Cmd(n).msg.node IN
    /\ Command(n, "REMOVE_NODE")
    /\ cmdq' = [cmdq EXCEPT ![n] = Tail(@)]
    /\ slaves' = [h \in Handles |->
                    IF Contains(objects[n], h) /\ cm[h] = "master"
                    THEN {s \in slaves[h] : Home[s] # x} ELSE slaves[h]]
    /\ UNCHANGED <<net, mapLookup, objects, cm, masterInst, masterNode,
                   headVersion, lastVersion, registered, pc, served, answer,
                   up, crashed>>

-----------------------------------------------------------------------------
(* Failure of a node: it stops, and what is sent to it is lost.            *)

Crash(x) ==
    /\ x \notin crashed
    /\ Cardinality(crashed) < MaxCrash
    /\ crashed' = crashed \cup {x}
    /\ net' = [c \in Channels |-> IF c[2] = x THEN <<>> ELSE net[c]]
    /\ UNCHANGED <<cmdq, mapLookup, objects, cm, masterInst, masterNode,
                   slaves, headVersion, lastVersion, registered, pc, served,
                   answer, up>>

-----------------------------------------------------------------------------
User(n) ==
    \/ RegisterObject(n) \/ RegisterObjectDone(n)
    \/ DeregisterObject(n) \/ DeregisterObjectDone(n)
    \/ \E s \in Slaves : MapObject(n, s) \/ UnmapObject(n, s)
    \/ FindMasterNodeIDReply(n) \/ MapObjectSync(n)
    \/ UnmapObjectDone(n) \/ Commit(n)

Receiver(n, f) ==
    \/ RecvQueued(n, f) \/ RecvAttachObject(n, f) \/ RecvDetachObject(n, f)
    \/ RecvFindMasterNodeIDReply(n, f) \/ RecvMapObjectSuccess(n, f)
    \/ RecvMapObjectReply(n, f) \/ RecvObjectInstanceCommit(n, f)
    \/ RecvDisconnect(n, f)

CommandThread(n) ==
    \/ CmdFindMasterNodeID(n) \/ CmdMapObjectLookup(n)
    \/ CmdMapObjectAddSlave(n) \/ CmdUnsubscribeObject(n) \/ CmdRemoveNode(n)

Next ==
    \E n \in Nodes :
        \/ User(n)
        \/ \E f \in Nodes : Receiver(n, f)
        \/ CommandThread(n)
        \/ Crash(n)

\* The receiver and command threads are dedicated threads that block only
\* in select and on their queue, so each of their steps is weakly fair per
\* connection.  A user thread that was served returns; it is never obliged
\* to make a new call.
UserReturns(n) ==
    \/ RegisterObjectDone(n) \/ DeregisterObjectDone(n)
    \/ FindMasterNodeIDReply(n) \/ MapObjectSync(n) \/ UnmapObjectDone(n)

Fairness ==
    /\ \A n, f \in Nodes : WF_vars(Receiver(n, f))
    /\ \A n \in Nodes : WF_vars(CommandThread(n))
    /\ \A n \in Nodes : WF_vars(UserReturns(n))

Spec == Init /\ [][Next]_vars /\ Fairness

-----------------------------------------------------------------------------
(* Properties                                                              *)

TypeOK ==
    /\ net \in [Channels -> Seq(Msgs)]
    /\ cmdq \in [Nodes -> Seq([from : Nodes, msg : Msgs])]
    /\ mapLookup \in [Nodes -> {None} \cup
                      [from : Nodes, h : Handles, master : Handles \cup {None}]]
    /\ \A n \in Nodes : IsInjective(objects[n])
    /\ cm \in [Handles -> {"none", "master", "slave"}]
    /\ masterInst \in [Handles -> Handles \cup {None}]
    /\ masterNode \in [Handles -> Nodes \cup {None}]
    /\ slaves \in [Handles -> SUBSET Slaves]
    /\ headVersion \in Versions
    /\ lastVersion \in [Handles -> Versions \cup {None}]
    /\ pc \in [Nodes -> [op : Ops, h : Handles \cup {None},
                         todo : SUBSET Nodes, tried : SUBSET Nodes]]
    /\ up \in [Nodes -> SUBSET Nodes]
    /\ crashed \subseteq Nodes

\* A packet of the given type about instance s in a queue.
About(q, type, s) == \E i \in DOMAIN q : q[i].type = type /\ q[i].h = s

\* The slave's UNSUBSCRIBE_OBJECT is on its way to, or queued at, the
\* master node, or the DETACH_OBJECT answering it is on its way back.
Unsubscribing(s) ==
    LET a == Home[s]
        b == Home[MasterHandle]
    IN \/ About(net[<<a, b>>], "UNSUBSCRIBE_OBJECT", s)
       \/ About([i \in DOMAIN cmdq[b] |-> cmdq[b][i].msg],
                "UNSUBSCRIBE_OBJECT", s)
       \/ About(net[<<b, a>>], "DETACH_OBJECT", s)

\* The node of s failed and the master node has not yet run REMOVE_NODE.
Removing(s) ==
    LET b == Home[MasterHandle] IN
    /\ Home[s] \in crashed
    /\ \/ Home[s] \in up[b]
       \/ \E i \in DOMAIN cmdq[b] : cmdq[b][i].msg = RemoveNodeMsg(Home[s])

\* The registered master is attached and its node has not failed.
MasterLive ==
    /\ cm[MasterHandle] = "master"
    /\ Attached(MasterHandle)
    /\ Home[MasterHandle] \notin crashed

\* The subscriber set of the registered master (addSlave in _cmdMapObject,
\* removeSlave in _cmdUnsubscribeObject, removeSlaves in _cmdRemoveNode)
\* agrees with the instances that are really mapped to it: every subscriber
\* is attached to it on a live node or on its way in or out (a failed
\* node's slaves until REMOVE_NODE has run), and every slave instance
\* attached to it that is not leaving is a subscriber, so it gets commits.
SubscribersMatchSlaves ==
    MasterLive =>
      /\ \A s \in slaves[MasterHandle] :
            \/ Attached(s) /\ masterInst[s] = MasterHandle
               /\ Home[s] \notin crashed
            \/ About(net[<<Home[MasterHandle], Home[s]>>],
                     "MAP_OBJECT_SUCCESS", s)
            \/ Unsubscribing(s)
            \/ Removing(s)
      /\ \A s \in Slaves :
            (/\ Attached(s) /\ cm[s] = "slave"
             /\ masterInst[s] = MasterHandle
             /\ Home[s] \notin crashed
             /\ ~Unsubscribing(s))
            => s \in slaves[MasterHandle]

\* A subscribed, attached slave that has read everything its master node
\* sent has queued the master's head version: the commit packet that
\* _cmdInstance hands to dispatchObjectCommand reaches every instance of
\* the identifier on the node, not only the first one.
SlavesConverge ==
    MasterLive =>
      \A s \in slaves[MasterHandle] :
         (/\ Attached(s)
          /\ Home[s] \notin crashed
          /\ net[<<Home[MasterHandle], Home[s]>>] = <<>>)
         => lastVersion[s] = headVersion

\* Every blocking call of a user thread (registerObject, deregisterObject,
\* mapObjectNB/mapObjectSync, unmapObject) returns: each request that
\* waitRequest waits for is served.
CallsReturn ==
    \A n \in Nodes : pc[n].op # "idle" ~> pc[n].op = "idle"

\* The same for every behaviour of the safety configuration in which no
\* node fails and the master is never deregistered: the conditions under
\* which the code promises an answer to every request it waits on.
CallsReturnWithoutFaults ==
    ([](crashed = {}) /\ [](\A n \in Nodes : pc[n].op # "deregister"))
        => CallsReturn

\* Spec section 8, invariant 1 and scenario S3: an attached slave's master
\* node is a known peer; once a node's failure has been handled
\* (_cmdRemoveNode), no instance stays mapped to a master on it.
MasterNodeKnown ==
    \A s \in Slaves :
       (/\ Attached(s) /\ cm[s] = "slave" /\ masterNode[s] # None
        /\ Home[s] \notin crashed)
       => \/ masterNode[s] \in up[Home[s]]
          \/ \E i \in DOMAIN cmdq[Home[s]] :
                cmdq[Home[s]][i].msg = RemoveNodeMsg(masterNode[s])

=============================================================================
