------------------------------ MODULE RoomMgr ------------------------------
(***************************************************************************)
(* The signalling core of the proxy: TCP connections (Termination          *)
(* objects), the rooms the proxy is logged in to at their AVS, and the     *)
(* tables that say which client is linked to which room.                   *)
(*                                                                         *)
(* Three threads touch this state.                                         *)
(*   - The event thread accepts and closes connections and turns every     *)
(*     received request into a task of the sync pool.                      *)
(*   - The sync pool has ONE thread, which runs the tasks in order.        *)
(*   - The keepalive thread sends a keepalive to every available room.     *)
(* A step of the model is one stretch of code between two points where     *)
(* another of these threads can see or change what it works on: the tables *)
(* of links, the client id of a Termination and the state of a Room are    *)
(* written by the sync thread alone, so what a task does to them is one    *)
(* step; rooms_ and terminations_ are shared, so every critical section on *)
(* them is a step of its own.                                              *)
(***************************************************************************)
EXTENDS Naturals, Sequences

CONSTANTS
  Conns,     \* the Termination objects (addresses), reused once deleted
  Fds,       \* socket numbers, reused by the kernel once closed
  Clients,   \* client ids, as the clients put them in their requests
  Rooms,     \* room ids; they share the number space of the client ids
  NoConn, NoFd, NoRoom,
  MaxQueue   \* bound: requests waiting in the sync pool

ASSUME IdsAreNumbers == Clients \subseteq Nat \ {0} /\ Rooms \subseteq Nat
ASSUME SentinelsAreFresh ==
  NoConn \notin Conns /\ NoFd \notin Fds /\ NoRoom \notin Rooms

\* client_id_ is 0 until LOGIN has run: a client that links a room before is 0.
ClientIds == Clients \cup {0}

VARIABLES
  terminations, \* terminations_: socket -> Termination, NoConn if none
  life,         \* of a Termination: not allocated, registered, awaiting deletion
  tcp_socket,   \* Termination::tcp_socket_
  client_id,    \* Termination::client_id_
  peer,         \* external: the client at the other end of the connection
  queue,        \* tasks scheduled on the sync pool and not started
  task, pc,     \* what the sync thread is running, and how far it is
  informTodo,   \* clients SendRoomUserInfo has still to write to
  logoutTodo,   \* rooms the running task has still to log out
  rooms,        \* rooms_ and Room::_room_stat: "none" if not in the map
  roomClients,  \* moRoomIDtoClientidwfdlist: room -> client id -> socket
  clientRooms,  \* moClientidtoRoomList: client id -> rooms
  avsSent,      \* history: last control packet sent to the AVS of a room
  owner,        \* history: the Termination that made the link of (room, client)
  informed      \* history: links whose owner got ROOMS_INFO since it linked

connVars   == <<terminations, life, tcp_socket, client_id, peer>>
syncVars   == <<queue, task, pc, informTodo, logoutTodo>>
roomVars   == <<rooms, avsSent>>
memberVars == <<roomClients, clientRooms, owner, informed>>
vars       == <<connVars, syncVars, roomVars, memberVars>>

\* A task is a bound call: the scene, the Termination pointer, the room asked for.
Tasks == [type: {"LOGIN", "DISCONNECT"}, conn: Conns, room: {NoRoom}] \cup
         [type: {"LINK_ROOM", "UNLINK_ROOM"}, conn: Conns, room: Rooms] \cup
         [type: {"USERS_INFO"}, conn: {NoConn}, room: Rooms]
NoTask == [type |-> "NONE", conn |-> NoConn, room |-> NoRoom]
Pcs == {"idle", "start", "login", "sendLogin", "inform", "logout"}

\* RoomMgr::GetRoom: the Room with its state, "none" for a null pointer.
GetRoom(r) == rooms[r]

Linked(r) == \E c \in ClientIds : roomClients[r][c] # NoFd

Init ==
  /\ terminations = [f \in Fds |-> NoConn]
  /\ life = [k \in Conns |-> "free"]
  /\ tcp_socket = [k \in Conns |-> NoFd]
  /\ client_id = [k \in Conns |-> 0]
  /\ peer = [k \in Conns |-> 0]
  /\ queue = <<>> /\ task = NoTask /\ pc = "idle"
  /\ informTodo = {} /\ logoutTodo = {}
  /\ rooms = [r \in Rooms |-> "none"]
  /\ roomClients = [r \in Rooms |-> [c \in ClientIds |-> NoFd]]
  /\ clientRooms = [c \in ClientIds |-> {}]
  /\ avsSent = [r \in Rooms |-> "none"]
  /\ owner = [r \in Rooms |-> [c \in ClientIds |-> NoConn]]
  /\ informed = {}
-----------------------------------------------------------------------------
(* The event thread. *)

\* Mutant: the newest task first.
ScheduleInFront(t) ==
  /\ Len(queue) < MaxQueue
  /\ queue' = <<t>> \o queue
  /\ UNCHANGED <<task, pc, informTodo, logoutTodo>>

\* PoolThread::Schedule on the one-thread sync pool.
Schedule(t) ==
  /\ Len(queue) < MaxQueue
  /\ queue' = Append(queue, t)
  /\ UNCHANGED <<task, pc, informTodo, logoutTodo>>

\* A client connects: the kernel hands out a socket number not in use.
AddTermination(f, k, c) ==
  /\ terminations[f] = NoConn
  /\ life[k] = "free"
  /\ terminations' = [terminations EXCEPT ![f] = k]
  /\ life' = [life EXCEPT ![k] = "open"]
  /\ tcp_socket' = [tcp_socket EXCEPT ![k] = f]
  /\ client_id' = [client_id EXCEPT ![k] = 0]
  /\ peer' = [peer EXCEPT ![k] = c]
  /\ UNCHANGED <<syncVars, roomVars, memberVars>>

\* Mutant: the task is given the socket number, not the Termination.
DisconnectTaskBySocket(k) ==
  [type |-> "DISCONNECT", conn |-> tcp_socket[k], room |-> NoRoom]

DisconnectTask(k) == [type |-> "DISCONNECT", conn |-> k, room |-> NoRoom]

\* recv reports the end of the connection: it leaves the map and its socket is
\* closed at once, the object itself is deleted by a task of the sync pool.
DelTermination(k) ==
  /\ life[k] = "open"
  /\ terminations' = [terminations EXCEPT ![tcp_socket[k]] = NoConn]
  /\ life' = [life EXCEPT ![k] = "closing"]
  /\ Schedule(DisconnectTask(k))
  /\ UNCHANGED <<tcp_socket, client_id, peer, roomVars, memberVars>>

TcpRequests(k) ==
  {[type |-> "LOGIN", conn |-> k, room |-> NoRoom]} \cup
  [type: {"LINK_ROOM", "UNLINK_ROOM"}, conn: {k}, room: Rooms]

\* A request arrives on a connection: the task keeps the Termination pointer.
TcpParamScene(k) ==
  /\ life[k] = "open"
  /\ \E t \in TcpRequests(k) : Schedule(t)
  /\ UNCHANGED <<connVars, roomVars, memberVars>>

\* USERS_INFO arrives from the AVS of a room the proxy has logged in to, maybe
\* late, repeated, or from a session that is over.
UdpParamScene(r) ==
  /\ avsSent[r] # "none"
  /\ Schedule([type |-> "USERS_INFO", conn |-> NoConn, room |-> r])
  /\ UNCHANGED <<connVars, roomVars, memberVars>>
-----------------------------------------------------------------------------
(* The sync thread. *)

TakeTask ==
  /\ pc = "idle" /\ queue # <<>>
  /\ task' = Head(queue) /\ queue' = Tail(queue) /\ pc' = "start"
  /\ UNCHANGED <<informTodo, logoutTodo, connVars, roomVars, memberVars>>

Starts(type) == pc = "start" /\ task.type = type
Goto(label) == pc' = label /\ UNCHANGED <<queue, task>>
Finish == pc' = "idle" /\ task' = NoTask /\ UNCHANGED queue

OnLogin(k) == client_id' = [client_id EXCEPT ![k] = peer[k]]

\* The answer goes out on the socket number the Termination holds, without asking
\* terminations_ who has it now.
LoginScene ==
  /\ Starts("LOGIN")
  /\ OnLogin(task.conn)
  /\ Finish
  /\ UNCHANGED <<terminations, life, tcp_socket, peer, informTodo, logoutTodo,
                 roomVars, memberVars>>

\* Mutant: map::insert, which keeps the value of a key it finds.
RecordedSocketOnce(k, r) ==
  LET old == roomClients[r][client_id[k]] IN IF old = NoFd THEN tcp_socket[k] ELSE old

\* UpdateRoomClientList overwrites the socket of an earlier link.
RecordedSocket(k, r) == tcp_socket[k]

UpdateRoomClientList(r, c, k) ==
  /\ roomClients' = [roomClients EXCEPT ![r][c] = RecordedSocket(k, r)]
  /\ owner' = [owner EXCEPT ![r][c] = k]
  /\ informed' = informed \ {<<r, c>>}

UpdateClientRoomList(c, r) == clientRooms' = [clientRooms EXCEPT ![c] = @ \cup {r}]

\* The link is made under the client id LOGIN has left in the Termination.
RegisterLink(k, r) ==
  /\ UpdateRoomClientList(r, client_id[k], k)
  /\ UpdateClientRoomList(client_id[k], r)

\* The room is not in rooms_ and GetAvsStatusInfo knows no AVS for it.
LinkUnknownRoom ==
  /\ Starts("LINK_ROOM") /\ GetRoom(task.room) = "none"
  /\ Finish
  /\ UNCHANGED <<connVars, informTodo, logoutTodo, roomVars, memberVars>>

\* The room is new and its AVS is known, or it waits for USERS_INFO: log in.
LinkRoomByLogin ==
  /\ Starts("LINK_ROOM") /\ GetRoom(task.room) # "available"
  /\ RegisterLink(task.conn, task.room)
  /\ Goto("login")
  /\ UNCHANGED <<connVars, informTodo, logoutTodo, roomVars>>

\* Mutant: the loop of SendRoomUserInfo ends after its first client.
FirstClientIn(links) ==
  {c \in ClientIds : links[c] # NoFd /\ \A d \in ClientIds : links[d] # NoFd => c <= d}

\* The clients SendRoomUserInfo goes through, given the links of the room.
ClientsIn(links) == {c \in ClientIds : links[c] # NoFd}

\* The room is available: its users are sent to all its clients.
LinkAvailableRoom ==
  /\ Starts("LINK_ROOM") /\ GetRoom(task.room) = "available"
  /\ RegisterLink(task.conn, task.room)
  /\ informTodo' = ClientsIn(roomClients'[task.room])
  /\ Goto("inform")
  /\ UNCHANGED <<connVars, logoutTodo, roomVars>>

\* RoomMgr::Login: find or create the Room under rooms_lock_ ...
Login ==
  /\ pc = "login"
  /\ rooms' = [rooms EXCEPT ![task.room] = IF @ = "none" THEN "building" ELSE @]
  /\ Goto("sendLogin")
  /\ UNCHANGED <<avsSent, connVars, informTodo, logoutTodo, memberVars>>

\* ... and send the login request after the lock is released.
SendLogin ==
  /\ pc = "sendLogin"
  /\ avsSent' = [avsSent EXCEPT ![task.room] = "login"]
  /\ Finish
  /\ UNCHANGED <<rooms, connVars, informTodo, logoutTodo, memberVars>>

\* USERS_INFO for a room that has been logged out in the meantime is dropped.
DropUsersInfo ==
  /\ Starts("USERS_INFO") /\ GetRoom(task.room) = "none"
  /\ Finish
  /\ UNCHANGED <<connVars, informTodo, logoutTodo, roomVars, memberVars>>

UsersInfoScene ==
  /\ Starts("USERS_INFO") /\ GetRoom(task.room) # "none"
  /\ rooms' = [rooms EXCEPT ![task.room] = "available"]
  /\ informTodo' = ClientsIn(roomClients[task.room])
  /\ Goto("inform")
  /\ UNCHANGED <<avsSent, connVars, logoutTodo, memberVars>>

\* SendRoomUserInfo, one client: terminations_ is asked for the socket number
\* the link recorded, and whoever is registered there gets the packet.
SendRoomUserInfo(c) ==
  LET r == task.room
      to == terminations[roomClients[r][c]]
  IN /\ pc = "inform" /\ c \in informTodo
     /\ \A d \in informTodo : c <= d
     /\ informed' = IF to # NoConn /\ to = owner[r][c]
                      THEN informed \cup {<<r, c>>} ELSE informed
     /\ informTodo' = informTodo \ {c}
     /\ IF informTodo' = {} THEN Finish ELSE Goto("inform")
     /\ UNCHANGED <<connVars, logoutTodo, roomVars, roomClients, clientRooms, owner>>

\* Mutant: the room is reported before the size of its list is looked at.
RoomsTouched(gone) == {r \in Rooms : Linked(r) /\ \E c \in ClientIds : <<r, c>> \in gone}

\* The rooms whose list of clients is empty once the links in gone are erased.
RoomsEmptied(gone) ==
  {r \in Rooms : /\ Linked(r)
                 /\ \A c \in ClientIds : roomClients[r][c] # NoFd => <<r, c>> \in gone}

\* Forget the links in gone, and log out the rooms that lose their last client.
DropLinks(gone) ==
  LET emptied == RoomsEmptied(gone)
  IN /\ roomClients' = [r \in Rooms |-> [c \in ClientIds |->
                          IF <<r, c>> \in gone THEN NoFd ELSE roomClients[r][c]]]
     /\ owner' = [r \in Rooms |-> [c \in ClientIds |->
                          IF <<r, c>> \in gone THEN NoConn ELSE owner[r][c]]]
     /\ informed' = informed \ gone
     /\ logoutTodo' = emptied
     /\ IF emptied = {} THEN Finish ELSE Goto("logout")

\* c may be an id no client has used: there is nothing to delete then.
DeleteClientRoom(c, gone) ==
  clientRooms' = [d \in ClientIds |-> IF d = c THEN clientRooms[d] \ gone ELSE clientRooms[d]]

\* The link is deleted under the client id of the request.
UnLinkRoomScene ==
  /\ Starts("UNLINK_ROOM")
  /\ DeleteClientRoom(peer[task.conn], {task.room})
  /\ DropLinks({<<task.room, peer[task.conn]>>})
  /\ UNCHANGED <<connVars, informTodo, roomVars>>

\* Mutant: links are searched by the client id of the closed connection.
LinksByClient(k) == {e \in Rooms \X ClientIds : e[2] = client_id[k]}

\* The links recorded with the socket number of k.
LinksBySocket(k) == {e \in Rooms \X ClientIds : roomClients[e[1]][e[2]] = tcp_socket[k]}

\* The "client_id" DeleteRoomClient_Sockfd hands back is the ROOM id (the key of
\* the outer map) of the last link it erased.
ClientIdHandedBack(gone) ==
  CHOOSE r \in Rooms \cup {NoRoom} :
    IF gone = {} THEN r = NoRoom
                 ELSE (\E e \in gone : e[1] = r) /\ \A e \in gone : e[1] <= r

\* The links of a closed connection go by its socket number, the Termination is
\* deleted, and the rooms left without a client are logged out.
DisconnectScene ==
  LET k == task.conn
      gone == LinksBySocket(k)
  IN /\ Starts("DISCONNECT")
     /\ DropLinks(gone)
     /\ DeleteClientRoom(ClientIdHandedBack(gone), RoomsEmptied(gone))
     /\ life' = [life EXCEPT ![k] = "free"]
     /\ tcp_socket' = [tcp_socket EXCEPT ![k] = NoFd]
     /\ client_id' = [client_id EXCEPT ![k] = 0]
     /\ peer' = [peer EXCEPT ![k] = 0]
     /\ UNCHANGED <<terminations, informTodo, roomVars>>

\* RoomMgr::Logout, all of it under rooms_lock_.
Logout(r) ==
  /\ pc = "logout" /\ r \in logoutTodo
  /\ \A s \in logoutTodo : r <= s
  /\ IF rooms[r] = "none"
       THEN UNCHANGED roomVars
       ELSE /\ rooms' = [rooms EXCEPT ![r] = "none"]
            /\ avsSent' = [avsSent EXCEPT ![r] = "logout"]
  /\ logoutTodo' = logoutTodo \ {r}
  /\ IF logoutTodo' = {} THEN Finish ELSE Goto("logout")
  /\ UNCHANGED <<connVars, informTodo, memberVars>>
-----------------------------------------------------------------------------
\* Mutants: a list of rooms made before the lock is taken; no look at the state.
RoomsSeenOnce == {r \in Rooms : avsSent[r] # "none"}
RoomsInMap == {r \in Rooms : rooms[r] # "none"}

RoomsToKeepAlive == {r \in Rooms : rooms[r] = "available"}

\* The keepalive thread holds rooms_lock_ from the first room to the last.
SendKeepalivePacketToAllAvs ==
  /\ avsSent' = [r \in Rooms |->
                   IF r \in RoomsToKeepAlive THEN "keepalive" ELSE avsSent[r]]
  /\ UNCHANGED <<rooms, connVars, syncVars, memberVars>>

EventThread ==
  \/ \E f \in Fds, k \in Conns, c \in Clients : AddTermination(f, k, c)
  \/ \E k \in Conns : DelTermination(k) \/ TcpParamScene(k)
  \/ \E r \in Rooms : UdpParamScene(r)

SyncThread ==
  \/ TakeTask \/ LoginScene
  \/ LinkUnknownRoom \/ LinkRoomByLogin \/ LinkAvailableRoom
  \/ Login \/ SendLogin
  \/ DropUsersInfo \/ UsersInfoScene
  \/ \E c \in ClientIds : SendRoomUserInfo(c)
  \/ UnLinkRoomScene \/ DisconnectScene
  \/ \E r \in Rooms : Logout(r)

Next == EventThread \/ SyncThread \/ SendKeepalivePacketToAllAvs

Spec == Init /\ [][Next]_vars
-----------------------------------------------------------------------------
(* What must hold of every state. *)

TypeOK ==
  /\ terminations \in [Fds -> Conns \cup {NoConn}]
  /\ life \in [Conns -> {"free", "open", "closing"}]
  /\ tcp_socket \in [Conns -> Fds \cup {NoFd}]
  /\ client_id \in [Conns -> ClientIds]
  /\ peer \in [Conns -> ClientIds]
  /\ queue \in Seq(Tasks) /\ task \in Tasks \cup {NoTask} /\ pc \in Pcs
  /\ informTodo \subseteq ClientIds /\ logoutTodo \subseteq Rooms
  /\ rooms \in [Rooms -> {"none", "building", "available"}]
  /\ roomClients \in [Rooms -> [ClientIds -> Fds \cup {NoFd}]]
  /\ clientRooms \in [ClientIds -> SUBSET Rooms]
  /\ avsSent \in [Rooms -> {"none", "login", "keepalive", "logout"}]
  /\ owner \in [Rooms -> [ClientIds -> Conns \cup {NoConn}]]
  /\ informed \subseteq Rooms \X ClientIds

\* rooms_ and the table of links agree: the proxy keeps a Room exactly while a
\* client is linked to it, whatever mix of UNLINK_ROOM, lost connections and
\* reused sockets took the links away. Only the room that the running task is
\* about to log in or log out may be out of step.
RoomExistsIffLinked ==
  \A r \in Rooms :
    \/ pc = "login" /\ r = task.room
    \/ r \in logoutTodo
    \/ rooms[r] # "none" <=> Linked(r)

\* The AVS of a room has been told of a session exactly while the Room exists:
\* no room is kept without a LOGIN sent, none is deleted without a LOGOUT, and
\* the keepalive thread never revives the session of a deleted one.
AvsSessionMatchesRoom ==
  \A r \in Rooms :
    \/ pc = "sendLogin" /\ r = task.room
    \/ avsSent[r] \in {"login", "keepalive"} <=> rooms[r] # "none"

\* The tasks that have not run: at 0 the one about to start, then the queue.
Pending == {i \in 0 .. Len(queue) : i = 0 => pc = "start"}
TaskAt(i) == IF i = 0 THEN task ELSE queue[i]
IsDisconnect(i, k) == TaskAt(i).type = "DISCONNECT" /\ TaskAt(i).conn = k

\* The tasks of the sync pool hold bare Termination pointers. None of them is
\* left behind the DISCONNECT that deletes the object it points to.
NoTaskOutlivesItsTermination ==
  \A j \in Pending :
    LET k == TaskAt(j).conn
    IN  k # NoConn => /\ life[k] # "free"
                      /\ \A i \in Pending : i < j => ~ IsDisconnect(i, k)

\* A link records a socket NUMBER. Until the connection that made the link is
\* open the number is its own; once it is closed, a DISCONNECT that will find the
\* link by that number is still to come, although the kernel may have given the
\* number to a new connection already.
LinksBelongToTheirSocket ==
  \A r \in Rooms, c \in ClientIds :
    roomClients[r][c] # NoFd =>
      LET k == owner[r][c]
      IN  /\ k # NoConn
          /\ tcp_socket[k] = roomClients[r][c]
          /\ \/ life[k] = "open" /\ terminations[tcp_socket[k]] = k
             \/ life[k] = "closing" /\ \E i \in Pending : IsDisconnect(i, k)

\* A client that is linked to an available room, and still connected, has had
\* ROOMS_INFO since it made the link (RoomMgr.cpp, comment at LINK_ROOM): the
\* link may be made before the login, while it is pending, or after it.
LinkedClientsAreInformed ==
  \A r \in Rooms, c \in ClientIds :
    roomClients[r][c] # NoFd /\ rooms[r] = "available" /\ life[owner[r][c]] = "open"
      => \/ <<r, c>> \in informed
         \/ pc = "inform" /\ r = task.room /\ c \in informTodo

\* moClientidtoRoomList covers the table of links. (The converse fails: a lost
\* connection cleans it under the id of a room instead of the client's.)
ClientRoomsCoverLinks ==
  \A r \in Rooms, c \in ClientIds : roomClients[r][c] # NoFd => r \in clientRooms[c]
-----------------------------------------------------------------------------
(* What a step may do. *)

\* A link goes away only by an UNLINK_ROOM of that client for that room, or with
\* the connection that made it: the DISCONNECT of a closed connection, which
\* searches by socket number, never takes links of the number's next owner.
LinksEndWithTheirOwner ==
  [][\A r \in Rooms, c \in ClientIds :
       roomClients[r][c] # NoFd /\ roomClients'[r][c] = NoFd =>
         \/ Starts("UNLINK_ROOM") /\ task.room = r /\ peer[task.conn] = c
         \/ Starts("DISCONNECT") /\ task.conn = owner[r][c]]_vars

\* The AVS of a room sees LOGIN before any keepalive, and LOGOUT only after it,
\* although keepalives come from a thread of their own.
AvsSessionOrder ==
  [][\A r \in Rooms :
       avsSent'[r] \in {"keepalive", "logout"} /\ avsSent'[r] # avsSent[r]
         => avsSent[r] \in {"login", "keepalive"}]_vars

\* LOGIN is answered to the connection it came on (RoomMgr.cpp:155, "Response the
\* request"), or, when that one is closed, to nobody.
LoginAnswersItsSender ==
  [][Starts("LOGIN") => terminations[tcp_socket[task.conn]] \in {task.conn, NoConn}]_vars

\* Links recorded by socket number behave as if they were recorded by connection,
\* although a number has a new owner while the links of the last one wait for their
\* DISCONNECT; and sessions begin and end with the links.
AbstractLinks ==
  INSTANCE LinkService WITH
    Clients <- ClientIds,
    link <- [r \in Rooms |-> [c \in ClientIds |->
               IF roomClients[r][c] = NoFd THEN NoConn ELSE owner[r][c]]],
    session <- {r \in Rooms : avsSent[r] \in {"login", "keepalive"}}
ImplementsLinkService == AbstractLinks!Spec

\* A task that was handed a Termination keeps it, until it is over: the object is
\* deleted by the last task that has its address, and only then reused, although
\* the connection may have closed while several of its requests were waiting.
AbstractTerminations ==
  INSTANCE TerminationLife WITH
    held <- {k \in Conns : \/ task.conn = k /\ task.type # "DISCONNECT"
                           \/ \E i \in 1 .. Len(queue) :
                                queue[i].conn = k /\ queue[i].type # "DISCONNECT"}
ImplementsTerminationLife == AbstractTerminations!Spec
=============================================================================
