---------------------------- MODULE NodeConnect ----------------------------
(***************************************************************************)
(* Connection management of an eqNet local node (src/net/node.cpp): the    *)
(* node listens, connects or launches a peer, accepts connections on its   *)
(* receiver thread, handles disconnects and stops.                         *)
(*                                                                         *)
(* Two threads of the local node share the peer Node objects:              *)
(*   - the user thread, which calls listen, connect (initConnect followed  *)
(*     by syncConnect) and stopListening;                                  *)
(*   - the receiver thread (_runReceiver), which takes one event of the    *)
(*     connection set at a time.                                           *)
(* The environment is the other processes: a launched client connecting    *)
(* back with a CONNECT packet that carries the launch identifier, other    *)
(* nodes connecting unasked, and peers closing their connections.          *)
(*                                                                         *)
(* The request handler (eqBase, not in this tree) is modelled from the     *)
(* spec: a request is registered, served or, on timeout, unregistered by   *)
(* waitRequest itself.                                                     *)
(***************************************************************************)
EXTENDS Naturals, Sequences, FiniteSets

CONSTANTS
    Target,        \* the peer Node object the application connects
    Created,       \* Node objects createNode hands out for unasked peers
    Conns,         \* the connection objects Connection::create hands out
    RequestIDs,    \* the identifiers of the request handler
    None,          \* INVALID_ID and the null pointer
    Timeouts,      \* whether launchTimeout is finite
    Closing,       \* whether peers close their connections
    ConnectedCode, \* the value of STATE_CONNECTED in the enum of node.h
    MaxListen      \* bound on the calls of listen

Peers == {Target} \cup Created

ASSUME Target \notin Created
ASSUME None \notin Peers \cup Conns \cup RequestIDs
ASSUME Closing \in BOOLEAN
ASSUME Timeouts \in BOOLEAN /\ ConnectedCode \in Nat /\ MaxListen \in Nat

VARIABLES
    lstate,        \* _state of the local node: STOPPED or LISTENING
    listens,       \* number of listen calls that succeeded
    state,         \* state[o]: _state of peer o
    connection,    \* connection[o]: _connection of peer o
    pending,       \* pending[o]: _pendingRequestID of peer o
    connSet,       \* connSet[c]: the node c is bound to in _connectionSet
    requests,      \* requests[r]: "free", "registered" or "served"
    selfPipe,      \* packets the local node sent to itself (STOP)
    incoming,      \* CONNECT packets of connections waiting to be accepted
    closed,        \* peer connections the other side has closed
    used,          \* connection objects created so far
    launched,      \* launched[o]: a launched client for o has not called back
    upc,           \* the user thread: where it is and what it waits for
    rpc            \* the receiver thread: where it is in _handleConnect

vars == <<lstate, listens, state, connection, pending, connSet, requests,
          selfPipe, incoming, closed, used, launched, upc, rpc>>

PeerStates == {"STOPPED", "LAUNCHED", "CONNECTED"}
Packets == [launched : BOOLEAN, id : Peers, conn : Conns]

\* _state == STATE_STOPPED is 0 in the enum; `!node->_state` is 1 exactly
\* for a stopped node.
NotState(o) == IF state[o] = "STOPPED" THEN 1 ELSE 0

InSet(c) == connSet[c] # None

Register(r) == requests' = [requests EXCEPT ![r] = "registered"]

\* RequestHandler::unregisterRequest; the invalid identifier is ignored.
Unregister(r) ==
    requests' = IF r = None THEN requests ELSE [requests EXCEPT ![r] = "free"]

\* RequestHandler::serveRequest: only a registered request takes a result.
Serve(r) ==
    requests' = IF r # None /\ requests[r] = "registered"
                THEN [requests EXCEPT ![r] = "served"] ELSE requests

-----------------------------------------------------------------------------
Init ==
    /\ lstate = "STOPPED"
    /\ listens = 0
    /\ state = [o \in Peers |-> "STOPPED"]
    /\ connection = [o \in Peers |-> None]
    /\ pending = [o \in Peers |-> None]
    /\ connSet = [c \in Conns |-> None]
    /\ requests = [r \in RequestIDs |-> "free"]
    /\ selfPipe = <<>>
    /\ incoming = <<>>
    /\ closed = {}
    /\ used = {}
    /\ launched = [o \in Peers |-> FALSE]
    /\ upc = "idle"
    /\ rpc = [pc |-> "exited", conn |-> None, node |-> None, rid |-> None]

-----------------------------------------------------------------------------
(* User thread                                                             *)

\* Node::listen with a listening connection: set up the pipe to the own
\* receiver thread, go LISTENING and start the receiver thread.
Listen ==
    /\ upc = "idle"
    /\ lstate = "STOPPED"
    /\ listens < MaxListen
    /\ lstate' = "LISTENING"
    /\ listens' = listens + 1
    /\ rpc' = [pc |-> "select", conn |-> None, node |-> None, rid |-> None]
    /\ UNCHANGED <<state, connection, pending, connSet, requests, selfPipe,
                   incoming, closed, used, launched, upc>>

\* Node::stopListening: send STOP to the own receiver thread, then join it.
StopListening ==
    /\ upc = "idle"
    /\ lstate = "LISTENING"
    /\ selfPipe' = Append(selfPipe, "STOP")
    /\ upc' = "join"
    /\ UNCHANGED <<lstate, listens, state, connection, pending, connSet,
                   requests, incoming, closed, used, launched, rpc>>

\* The join returns once the receiver thread has exited; _cleanup then
\* stops every node of the connection set and empties the set.  Closing
\* the listener drops the connections not yet accepted.
Cleanup ==
    /\ upc = "join"
    /\ rpc.pc = "exited"
    /\ state' = [o \in Peers |->
                   IF \E c \in Conns : connSet[c] = o THEN "STOPPED"
                   ELSE state[o]]
    /\ connection' = [o \in Peers |->
                        IF \E c \in Conns : connSet[c] = o THEN None
                        ELSE connection[o]]
    /\ connSet' = [c \in Conns |-> None]
    /\ incoming' = <<>>
    /\ upc' = "idle"
    /\ UNCHANGED <<lstate, listens, pending, requests, selfPipe, closed, used,
                   launched, rpc>>

\* The local node's connect(node, connection): bind a connected
\* connection to a stopped node, send CONNECT and add it to the set.
ConnectTo(o, c) ==
    /\ lstate = "LISTENING"
    /\ state[o] = "STOPPED"
    /\ used' = used \cup {c}
    /\ state' = [state EXCEPT ![o] = "CONNECTED"]
    /\ connection' = [connection EXCEPT ![o] = c]
    /\ connSet' = [connSet EXCEPT ![c] = o]

\* _launch: register a request for the launch, start the launch command;
\* the node is LAUNCHED and remembers the request.
Launch(o, r) ==
    /\ requests[r] = "free"
    /\ Register(r)
    /\ state' = [state EXCEPT ![o] = "LAUNCHED"]
    /\ pending' = [pending EXCEPT ![o] = r]
    /\ launched' = [launched EXCEPT ![o] = TRUE]

\* Node::connect and initConnect on a stopped Target, with a local node
\* (listen was called once): a connection to one of its descriptions is
\* bound, or the node is launched.  The paths on which both fail change
\* nothing and return false.
InitConnect ==
    /\ upc = "idle"
    /\ state[Target] = "STOPPED"
    /\ listens > 0
    /\ \/ \E c \in Conns \ used :
             /\ ConnectTo(Target, c)
             /\ UNCHANGED <<requests, pending, launched>>
       \/ \E r \in RequestIDs :
             /\ Launch(Target, r)
             /\ UNCHANGED <<used, connection, connSet>>
    /\ upc' = "sync"
    /\ UNCHANGED <<lstate, listens, selfPipe, incoming, closed, rpc>>

\* Mutant: the connected path returns without unregistering the request.
SyncConnectNoUnregister ==
    LET r == pending[Target] IN
    /\ upc = "sync"
    /\ \/ /\ state[Target] = "CONNECTED"
          /\ pending' = [pending EXCEPT ![Target] = None]
          /\ upc' = "idle"
          /\ UNCHANGED requests
       \/ /\ state[Target] # "CONNECTED"
          /\ upc' = IF r # None THEN "wait" ELSE "fault"
          /\ UNCHANGED <<requests, pending>>
    /\ UNCHANGED <<lstate, listens, state, connection, connSet, selfPipe,
                   incoming, closed, used, launched, rpc>>

\* Node::syncConnect: a connected node returns at once; otherwise wait for
\* the request the launched node's CONNECT serves.  Without a pending
\* request getRequestData returns the null pointer, and reading its
\* launchTimeout crashes the process.
SyncConnect ==
    LET r == pending[Target] IN
    /\ upc = "sync"
    /\ \/ /\ state[Target] = "CONNECTED"
          /\ Unregister(r)
          /\ pending' = [pending EXCEPT ![Target] = None]
          /\ upc' = "idle"
       \/ /\ state[Target] # "CONNECTED"
          /\ r # None
          /\ upc' = "wait"
          /\ UNCHANGED <<requests, pending>>
       \/ /\ state[Target] # "CONNECTED"
          /\ r = None
          /\ upc' = "fault"
          /\ UNCHANGED <<requests, pending>>
    /\ UNCHANGED <<lstate, listens, state, connection, connSet, selfPipe,
                   incoming, closed, used, launched, rpc>>

\* waitRequest returns: served, or timed out, in which case the request
\* handler unregisters the request.
WaitServed ==
    LET r == pending[Target] IN
    /\ upc = "wait"
    /\ r # None
    /\ requests[r] = "served"
    /\ requests' = [requests EXCEPT ![r] = "free"]
    /\ upc' = "woken"
    /\ UNCHANGED <<lstate, listens, state, connection, pending, connSet,
                   selfPipe, incoming, closed, used, launched, rpc>>

WaitTimeout ==
    LET r == pending[Target] IN
    /\ Timeouts
    /\ upc = "wait"
    /\ r # None
    /\ requests[r] # "served"
    /\ Unregister(r)
    /\ upc' = "timedout"
    /\ UNCHANGED <<lstate, listens, state, connection, pending, connSet,
                   selfPipe, incoming, closed, used, launched, rpc>>

\* The end of syncConnect: on success the node is expected to be
\* connected; on failure it is stopped and its request unregistered.
SyncConnectDone ==
    /\ upc \in {"woken", "timedout"}
    /\ IF upc = "timedout"
       THEN /\ state' = [state EXCEPT ![Target] = "STOPPED"]
            /\ Unregister(pending[Target])
       ELSE UNCHANGED <<state, requests>>
    /\ pending' = [pending EXCEPT ![Target] = None]
    /\ upc' = "idle"
    /\ UNCHANGED <<lstate, listens, connection, connSet, selfPipe, incoming,
                   closed, used, launched, rpc>>

-----------------------------------------------------------------------------
(* Receiver thread: _runReceiver takes one event while LISTENING.          *)

Select == rpc.pc = "select" /\ lstate = "LISTENING"

Goto(pc, c, o, r) == rpc' = [pc |-> pc, conn |-> c, node |-> o, rid |-> r]

\* EVENT_DATA on the pipe to itself: _cmdStop stops the node and ends the
\* receiver thread.
CmdStop ==
    /\ Select
    /\ selfPipe # <<>>
    /\ selfPipe' = Tail(selfPipe)
    /\ lstate' = "STOPPED"
    /\ Goto("exited", None, None, None)
    /\ UNCHANGED <<listens, state, connection, pending, connSet, requests,
                   incoming, closed, used, launched, upc>>

\* EVENT_CONNECT: _handleConnect accepts the connection and handleConnect
\* reads its CONNECT packet.  A launched node is the one named by the
\* launch identifier, whose pending request is read; any other peer gets a
\* new Node object from createNode.
HandleConnect ==
    LET p == Head(incoming) IN
    /\ Select
    /\ incoming # <<>>
    /\ incoming' = Tail(incoming)
    /\ IF p.launched
       THEN Goto("serve", p.conn, p.id, pending[p.id])
       ELSE Goto("add", p.conn, p.id, None)
    /\ UNCHANGED <<lstate, listens, state, connection, pending, connSet,
                   requests, selfPipe, closed, used, launched, upc>>

\* handleConnect serves the launch request ...
HandleConnectServe ==
    /\ rpc.pc = "serve"
    /\ Serve(rpc.rid)
    /\ Goto("add", rpc.conn, rpc.node, None)
    /\ UNCHANGED <<lstate, listens, state, connection, pending, connSet,
                   selfPipe, incoming, closed, used, launched, upc>>

\* ... and only then _addConnectedNode binds the connection and promotes
\* the node to CONNECTED.
AddConnectedNode ==
    LET o == rpc.node
        c == rpc.conn
    IN
    /\ rpc.pc = "add"
    /\ connection' = [connection EXCEPT ![o] = c]
    /\ state' = [state EXCEPT ![o] = "CONNECTED"]
    /\ connSet' = [connSet EXCEPT ![c] = o]
    /\ Goto("select", None, None, None)
    /\ UNCHANGED <<lstate, listens, pending, requests, selfPipe, incoming,
                   closed, used, launched, upc>>

\* EVENT_DISCONNECT on a peer connection: handleDisconnect calls
\* disconnect(node), which removes the node's current connection from the
\* set and stops the node, then the event's connection is closed.  The
\* check `!node->_state == STATE_CONNECTED' compares 0 or 1 with the enum
\* value of STATE_CONNECTED.  When disconnect fails nothing changes and
\* the event comes back.
Disconnect(c) ==
    LET o  == connSet[c]
        ok == /\ ~(NotState(o) = ConnectedCode)
              /\ connection[o] # None
              /\ InSet(connection[o])
    IN
    /\ Select
    /\ c \in closed
    /\ InSet(c)
    /\ ok
    /\ connSet' = [connSet EXCEPT ![connection[o]] = None]
    /\ state' = [state EXCEPT ![o] = "STOPPED"]
    /\ connection' = [connection EXCEPT ![o] = None]
    /\ UNCHANGED <<lstate, listens, pending, requests, selfPipe, incoming,
                   closed, used, launched, upc, rpc>>

-----------------------------------------------------------------------------
(* Other processes                                                         *)

\* The launched client (runClient) connects to the listener and sends
\* CONNECT with the launch identifier; it may do so at any time, also
\* after the launching node gave up waiting.
ClientConnects(o) ==
    /\ lstate = "LISTENING"
    /\ launched[o]
    /\ launched' = [launched EXCEPT ![o] = FALSE]
    /\ \E c \in Conns \ used :
          /\ used' = used \cup {c}
          /\ incoming' = Append(incoming, [launched |-> TRUE, id |-> o,
                                            conn |-> c])
    /\ UNCHANGED <<lstate, listens, state, connection, pending, connSet,
                   requests, selfPipe, closed, upc, rpc>>

\* The launched process does not come up, or cannot reach the listener.
ClientFails(o) ==
    /\ launched[o]
    /\ launched' = [launched EXCEPT ![o] = FALSE]
    /\ UNCHANGED <<lstate, listens, state, connection, pending, connSet,
                   requests, selfPipe, incoming, closed, used, upc, rpc>>

\* A node connects unasked; createNode will hand out the Node object o.
PeerConnects(o) ==
    /\ lstate = "LISTENING"
    /\ o \in Created
    /\ state[o] = "STOPPED"
    /\ \A i \in DOMAIN incoming : incoming[i].id # o
    /\ rpc.node # o
    /\ connection[o] = None
    /\ \E c \in Conns \ used :
          /\ used' = used \cup {c}
          /\ incoming' = Append(incoming, [launched |-> FALSE, id |-> o,
                                            conn |-> c])
    /\ UNCHANGED <<lstate, listens, state, connection, pending, connSet,
                   requests, selfPipe, closed, launched, upc, rpc>>

\* The other side closes a connection of the set.
PeerCloses(c) ==
    /\ Closing
    /\ InSet(c)
    /\ c \notin closed
    /\ closed' = closed \cup {c}
    /\ UNCHANGED <<lstate, listens, state, connection, pending, connSet,
                   requests, selfPipe, incoming, used, launched, upc, rpc>>

-----------------------------------------------------------------------------
User ==
    \/ Listen \/ StopListening \/ Cleanup
    \/ InitConnect \/ SyncConnect \/ WaitServed \/ WaitTimeout
    \/ SyncConnectDone

Receiver ==
    \/ CmdStop \/ HandleConnect \/ HandleConnectServe \/ AddConnectedNode
    \/ \E c \in Conns : Disconnect(c)

Environment ==
    \/ \E o \in Peers : ClientConnects(o) \/ ClientFails(o) \/ PeerConnects(o)
    \/ \E c \in Conns : PeerCloses(c)

Next == User \/ Receiver \/ Environment

\* The receiver thread is a dedicated thread; a wait with a finite timeout
\* ends.  The user and the other processes are under no obligation.
Fairness ==
    /\ WF_vars(Receiver)
    /\ WF_vars(WaitServed \/ WaitTimeout \/ SyncConnectDone \/ SyncConnect
               \/ Cleanup)

Spec == Init /\ [][Next]_vars /\ Fairness

-----------------------------------------------------------------------------
(* Properties                                                              *)

\* Every connection of the connection set belongs to a connected node whose
\* current connection it is: _runReceiver asserts node->_connection ==
\* connection on every EVENT_DATA, and handleDisconnect relies on it to
\* remove the right connection.
ConnectionOwned ==
    \A c \in Conns :
       InSet(c) => /\ connection[connSet[c]] = c
                   /\ state[connSet[c]] = "CONNECTED"

\* The assertions of syncConnect: a node that is not yet connected when
\* syncConnect starts waiting is LAUNCHED with a pending request, and a
\* node whose request was served is CONNECTED when syncConnect returns.
SyncConnectChecks ==
    [][/\ (upc = "sync" /\ upc' \in {"wait", "fault"}) =>
             /\ state[Target] = "LAUNCHED"
             /\ pending[Target] # None
       /\ (upc = "woken" /\ upc' = "idle") =>
             state[Target] = "CONNECTED"]_vars

\* A connect leaves no request of the local request handler behind: a
\* request is registered or served only while the user thread is inside
\* connect and the request is the target's _pendingRequestID.  It takes
\* syncConnect's unregisterRequest on the connected path (579) and after a
\* failed wait (601), and a late CONNECT of a launched client whose wait
\* timed out must not revive the request it names.
RequestsReleased ==
    \A r \in RequestIDs :
       requests[r] # "free" => /\ pending[Target] = r
                               /\ upc \notin {"idle", "join"}

\* syncConnect never reads through the null request data: when the target
\* is not CONNECTED, getRequestData(_pendingRequestID) must yield the
\* description whose launchTimeout bounds the wait (node.cpp 588-592).
NoNullRequestRead == upc # "fault"

=============================================================================
