------------------------------ MODULE Sessions ------------------------------
(***************************************************************************)
(* The session table of eqNet::Node (src/net/node.cpp): addSession, both  *)
(* mapSession calls, the server's _cmdMapSession and the client's         *)
(* _cmdMapSessionReply, and _findSession.  One server node hosts the       *)
(* sessions; client nodes map them by name or by identifier.  The table   *)
(* _sessions is an IDHash<Session*>: each identifier is absent, holds a   *)
(* session (abstracted to its name) or holds NULL, which operator[]       *)
(* inserts when it looks up an absent identifier.                          *)
(***************************************************************************)
EXTENDS Naturals, Sequences

CONSTANTS Server,      \* the node serving the sessions
          Clients,     \* the nodes mapping them remotely
          Names,       \* session names
          SessionIDs,  \* identifiers random() can yield, INVALID_ID excluded
          INVALID_ID,
          NoEntry,     \* identifier not in the hash
          NullEntry,   \* identifier mapped to a NULL Session*
          MaxMaps      \* bound on mapSession calls per client

ASSUME INVALID_ID \notin SessionIDs
ASSUME {NoEntry, NullEntry} \cap Names = {}

Nodes == {Server} \cup Clients

VARIABLES sessions,   \* sessions[n][id]: node n's _sessions
          pending,    \* pending[c]: kind of the request c's thread waits on
          toServer,   \* MAP_SESSION packets from each client, in order
          toClient,   \* MAP_SESSION_REPLY packets to each client, in order
          recvAlive,  \* the server's receiver thread has not faulted
          maps        \* mapSession calls made by each client

vars == <<sessions, pending, toServer, toClient, recvAlive, maps>>

Entries == Names \cup {NoEntry, NullEntry}

TypeOK ==
  /\ sessions \in [Nodes -> [SessionIDs -> Entries]]
  /\ pending \in [Clients -> {"idle", "waiting"}]
  /\ toServer \in [Clients -> Seq([id : SessionIDs \cup {INVALID_ID},
                                   name : Names \cup {NoEntry}])]
  /\ toClient \in [Clients -> Seq([id : SessionIDs \cup {INVALID_ID},
                                   name : Names \cup {NoEntry}])]
  /\ recvAlive \in BOOLEAN
  /\ maps \in [Clients -> 0..MaxMaps]

Init ==
  /\ sessions = [n \in Nodes |-> [id \in SessionIDs |-> NoEntry]]
  /\ pending = [c \in Clients |-> "idle"]
  /\ toServer = [c \in Clients |-> <<>>]
  /\ toClient = [c \in Clients |-> <<>>]
  /\ recvAlive = TRUE
  /\ maps = [c \in Clients |-> 0]

(* The identifiers the server's local mapSession may draw: its loop       *)
(* redraws while the identifier is INVALID_ID or find() locates it, and   *)
(* find() locates NULL entries too.                                        *)
FreeIDs == {id \in SessionIDs : sessions[Server][id] = NoEntry}

(* addSession on node n: the table entry is overwritten by the session.  *)
AddSession(n, id, name) == [sessions EXCEPT ![n][id] = name]

(* The server application maps a new session by name with itself as      *)
(* server: a fresh identifier, then addSession.  No lookup by name.       *)
ServerMapLocal(name) ==
  /\ \E id \in FreeIDs : sessions' = AddSession(Server, id, name)
  /\ UNCHANGED <<pending, toServer, toClient, recvAlive, maps>>

(* A client application calls mapSession by name or by identifier: the  *)
(* request is registered and sent, and the thread waits for the reply.   *)
ClientMap(c, req) ==
  /\ pending[c] = "idle"
  /\ maps[c] < MaxMaps
  /\ pending' = [pending EXCEPT ![c] = "waiting"]
  /\ toServer' = [toServer EXCEPT ![c] = Append(@, req)]
  /\ maps' = [maps EXCEPT ![c] = @ + 1]
  /\ UNCHANGED <<sessions, toClient, recvAlive>>

ClientMapByName(c, name) == ClientMap(c, [id |-> INVALID_ID, name |-> name])
ClientMapByID(c, id) == ClientMap(c, [id |-> id, name |-> NoEntry])

(* _findSession walks the hash in its iteration order and calls getName() *)
(* on every entry until one matches.  The identifiers are random, so the  *)
(* order is any order: a NULL entry may be reached before the match.      *)
(* Outcomes: an identifier found, NoEntry for none, NullEntry for a read  *)
(* through a NULL session.                                                 *)
FindSession(name) ==
  LET tab == sessions[Server]
      hits == {id \in SessionIDs : tab[id] = name}
      nulls == {id \in SessionIDs : tab[id] = NullEntry}
  IN  hits \cup (IF nulls # {} THEN {NullEntry} ELSE {})
           \cup (IF hits = {} /\ nulls = {} THEN {NoEntry} ELSE {})

Reply(c, id, name) == [toClient EXCEPT ![c] = Append(@, [id |-> id, name |-> name])]

(* _cmdMapSession by name: find the session, or create and map a new one *)
(* locally; reply with its identifier and name.                            *)
ServerMapByName(c, req) ==
  \E found \in FindSession(req.name) :
    \/ /\ found = NullEntry
       /\ recvAlive' = FALSE
       /\ UNCHANGED <<sessions, toClient>>
    \/ /\ found \in SessionIDs
       /\ toClient' = Reply(c, found, req.name)
       /\ UNCHANGED <<sessions, recvAlive>>
    \/ /\ found = NoEntry
       /\ \E id \in FreeIDs :
            /\ sessions' = AddSession(Server, id, req.name)
            /\ toClient' = Reply(c, id, req.name)
       /\ UNCHANGED recvAlive

(* _cmdMapSession by identifier: _sessions[sessionID] inserts NULL for an *)
(* absent identifier; a NULL session is answered with INVALID_ID.          *)
ServerMapByID(c, req) ==
  LET e == sessions[Server][req.id] IN
  /\ sessions' = IF e = NoEntry
                   THEN [sessions EXCEPT ![Server][req.id] = NullEntry]
                   ELSE sessions
  /\ toClient' = IF e \in Names THEN Reply(c, req.id, e)
                                ELSE Reply(c, INVALID_ID, NoEntry)
  /\ UNCHANGED recvAlive

(* The server's receiver thread handles the next MAP_SESSION packet.      *)
ServerRecvMapSession(c) ==
  /\ recvAlive
  /\ toServer[c] # <<>>
  /\ LET req == Head(toServer[c]) IN
       IF req.id = INVALID_ID THEN ServerMapByName(c, req)
                              ELSE ServerMapByID(c, req)
  /\ toServer' = [toServer EXCEPT ![c] = Tail(@)]
  /\ UNCHANGED <<pending, maps>>

(* _cmdMapSessionReply: INVALID_ID serves the request with false;        *)
(* otherwise addSession with the server as server, then serve true.       *)
ClientRecvReply(c) ==
  /\ toClient[c] # <<>>
  /\ LET rep == Head(toClient[c]) IN
       sessions' = IF rep.id = INVALID_ID THEN sessions
                   ELSE AddSession(c, rep.id, rep.name)
  /\ toClient' = [toClient EXCEPT ![c] = Tail(@)]
  /\ pending' = [pending EXCEPT ![c] = "idle"]
  /\ UNCHANGED <<toServer, recvAlive, maps>>

Next ==
  \/ \E name \in Names : ServerMapLocal(name)
  \/ \E c \in Clients :
       \/ \E name \in Names : ClientMapByName(c, name)
       \/ \E id \in SessionIDs : ClientMapByID(c, id)
       \/ ServerRecvMapSession(c)
       \/ ClientRecvReply(c)

Spec == Init /\ [][Next]_vars

(* The server's receiver thread never calls getName() through a NULL     *)
(* Session* in _findSession: a map by an unknown identifier must not      *)
(* leave behind an entry that a later map by name dereferences.           *)
NoNullSessionRead == recvAlive
=============================================================================
