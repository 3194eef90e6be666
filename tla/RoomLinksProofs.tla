-------------------------- MODULE RoomLinksProofs --------------------------
(***************************************************************************)
(* The links of RoomMgr, which are recorded by socket NUMBER: they stay     *)
(* with the connection that made them although numbers are reused, their    *)
(* clients are informed, and RoomMgr implements LinkService.                *)
(***************************************************************************)
EXTENDS RoomMgrProofs

USE IdsAreNumbers, SentinelsAreFresh

WillDisconnect(k) == \E i \in Pending : IsDisconnect(i, k)

\* The DISCONNECT of o runs before any pending task of k, and k has no link yet.
GoesBefore(o, k) ==
  \E i \in Pending : IsDisconnect(i, o) /\ \A j \in Pending : TaskAt(j).conn = k => i < j
LinksNothing(k) == \A r \in Rooms, c \in ClientIds : owner[r][c] # k

OpenAreRegistered ==
  \A k \in Conns : life[k] = "open" => terminations[tcp_socket[k]] = k
ClosingWillDisconnect == \A k \in Conns : life[k] = "closing" => WillDisconnect(k)
OwnersHaveLinks ==
  \A r \in Rooms, c \in ClientIds : owner[r][c] # NoConn => roomClients[r][c] # NoFd

\* Of two connections that have had the same socket number the older one goes
\* before the younger one does anything.
SocketsInTurn ==
  \A o, k \in Conns :
    o # k /\ life[o] # "free" /\ life[k] # "free" /\ tcp_socket[o] = tcp_socket[k] =>
      \/ GoesBefore(o, k) /\ LinksNothing(k)
      \/ GoesBefore(k, o) /\ LinksNothing(o)

LinkInv ==
  LinksBelongToTheirSocket /\ OpenAreRegistered /\ ClosingWillDisconnect /\
  OwnersHaveLinks /\ SocketsInTurn
-----------------------------------------------------------------------------
\* What is pending stays so, and in its order, while a task is added at the end.
LEMMA ScheduleKeepsPending ==
  ASSUME TypeInv, NEW t \in Tasks, Schedule(t), NEW o \in Conns, NEW k \in Conns
  PROVE  /\ WillDisconnect(o) => WillDisconnect(o)'
         /\ GoesBefore(o, k) => GoesBefore(o, k)'
         /\ t.type = "DISCONNECT" => WillDisconnect(t.conn)'
<1>1. PICK m \in Nat : m = Len(queue) + 1
  BY DEF TypeInv, TypeOK
<1>2. /\ Pending' = Pending \cup {m}
      /\ TaskAt(m)' = t
      /\ \A i \in Pending : TaskAt(i)' = TaskAt(i) /\ i < m
  BY <1>1, ScheduledTaskIsLast
<1>3. WillDisconnect(o) => WillDisconnect(o)'
  BY <1>2 DEF WillDisconnect, IsDisconnect
<1>4. GoesBefore(o, k) => GoesBefore(o, k)'
  BY <1>2 DEF GoesBefore, IsDisconnect
<1>5. t.type = "DISCONNECT" => WillDisconnect(t.conn)'
  BY <1>2 DEF WillDisconnect, IsDisconnect
<1>6. QED
  BY <1>3, <1>4, <1>5

\* A task that starts, or has started and is not the DISCONNECT of o, takes none of
\* the DISCONNECTs of o away.
LEMMA StartKeepsPending ==
  ASSUME TypeInv, queue' = queue, pc' # "start", NEW o \in Conns, NEW k \in Conns,
         ~ (pc = "start" /\ task.type = "DISCONNECT" /\ task.conn = o)
  PROVE  /\ WillDisconnect(o) => WillDisconnect(o)'
         /\ GoesBefore(o, k) => GoesBefore(o, k)'
<1>1. /\ Pending' = Pending \ {0} /\ \A i \in Pending' : TaskAt(i)' = TaskAt(i)
      /\ ~ (0 \in Pending /\ IsDisconnect(0, o))
  BY DEF Pending, TaskAt, IsDisconnect
<1>2. QED
  BY <1>1 DEF WillDisconnect, GoesBefore, IsDisconnect

\* The tasks move up by one, the first of them to be the running task.
LEMMA TakeTaskKeepsPending ==
  ASSUME TypeInv, TakeTask, NEW o \in Conns, NEW k \in Conns
  PROVE  /\ WillDisconnect(o) => WillDisconnect(o)'
         /\ GoesBefore(o, k) => GoesBefore(o, k)'
<1>1. queue \in Seq(Tasks) /\ queue # <<>> /\ pc = "idle"
  BY DEF TypeInv, TypeOK, TakeTask
<1>2. /\ Len(queue) \in Nat \ {0} /\ Len(queue') = Len(queue) - 1
      /\ task' = queue[1]
      /\ \A i \in 1 .. Len(queue) - 1 : queue'[i] = queue[i + 1]
  BY <1>1 DEF TakeTask
<1>3. Pending = 1 .. Len(queue) /\ Pending' = 0 .. Len(queue) - 1
  BY <1>1, <1>2 DEF Pending, TakeTask
<1>4. \A i \in Pending' : i + 1 \in Pending /\ TaskAt(i)' = TaskAt(i + 1)
  BY <1>2, <1>3 DEF TaskAt
<1>5. \A i \in Pending : i - 1 \in Pending' /\ TaskAt(i - 1)' = TaskAt(i)
  BY <1>2, <1>3, <1>4
<1>6. WillDisconnect(o) => WillDisconnect(o)'
  BY <1>5 DEF WillDisconnect, IsDisconnect
<1>7. ASSUME GoesBefore(o, k) PROVE GoesBefore(o, k)'
  <2>1. PICK i \in Pending : IsDisconnect(i, o) /\ \A j \in Pending : TaskAt(j).conn = k => i < j
    BY <1>7 DEF GoesBefore
  <2>2. i - 1 \in Pending' /\ IsDisconnect(i - 1, o)'
    BY <1>5, <2>1 DEF IsDisconnect
  <2>3. ASSUME NEW j \in Pending', TaskAt(j)'.conn = k PROVE i - 1 < j
    <3>1. i < j + 1
      BY <1>4, <2>1, <2>3
    <3>2. QED
      BY <3>1, <1>2, <1>3
  <2>4. QED
    BY <2>2, <2>3 DEF GoesBefore
<1>8. QED
  BY <1>6, <1>7

\* No step takes the pending DISCONNECT of a connection away but that DISCONNECT
\* itself, and none puts a task before it.
LEMMA PendingIsKept ==
  ASSUME LiveInv, [Next]_vars, NEW o \in Conns, NEW k \in Conns,
         DisconnectScene => task.conn # o
  PROVE  /\ WillDisconnect(o) => WillDisconnect(o)'
         /\ GoesBefore(o, k) => GoesBefore(o, k)'
<1> DEFINE Kept == /\ WillDisconnect(o) => WillDisconnect(o)'
                   /\ GoesBefore(o, k) => GoesBefore(o, k)'
<1> SUFFICES Kept
  OBVIOUS
<1>0. TypeInv
  BY DEF LiveInv
<1>1. CASE UNCHANGED <<queue, task, pc>>
  <2>1. Pending' = Pending /\ \A i \in Pending : TaskAt(i)' = TaskAt(i)
    BY <1>1 DEF Pending, TaskAt
  <2>2. QED
    BY <2>1 DEF WillDisconnect, GoesBefore, IsDisconnect
<1>2. ASSUME NEW d \in Conns, DelTermination(d) PROVE Kept
  <2>1. DisconnectTask(d) \in Tasks /\ Schedule(DisconnectTask(d))
    BY <1>2 DEF DelTermination, DisconnectTask, Tasks
  <2>2. QED
    BY <1>0, <2>1, ScheduleKeepsPending
<1>3. ASSUME NEW d \in Conns, TcpParamScene(d) PROVE Kept
  <2>1. PICK t \in TcpRequests(d) : Schedule(t)
    BY <1>3 DEF TcpParamScene
  <2>2. t \in Tasks
    BY DEF TcpRequests, Tasks
  <2>3. QED
    BY <1>0, <2>1, <2>2, ScheduleKeepsPending
<1>4. ASSUME NEW r \in Rooms, UdpParamScene(r) PROVE Kept
  <2> DEFINE t == [type |-> "USERS_INFO", conn |-> NoConn, room |-> r]
  <2>1. t \in Tasks /\ Schedule(t)
    BY <1>4 DEF UdpParamScene, Tasks
  <2> HIDE DEF t
  <2>2. QED
    BY <1>0, <2>1, ScheduleKeepsPending
<1>5. CASE TakeTask
  BY <1>0, <1>5, TakeTaskKeepsPending
<1>6. CASE LoginScene \/ LinkUnknownRoom \/ LinkRoomByLogin \/ LinkAvailableRoom
  BY <1>0, <1>6, StartKeepsPending
     DEF LoginScene, LinkUnknownRoom, LinkRoomByLogin, LinkAvailableRoom, Starts, Finish, Goto
<1>7. CASE Login \/ SendLogin \/ DropUsersInfo \/ UsersInfoScene \/ UnLinkRoomScene
  BY <1>0, <1>7, StartKeepsPending
     DEF Login, SendLogin, DropUsersInfo, UsersInfoScene, UnLinkRoomScene, DropLinks,
         Starts, Finish, Goto
<1>8. CASE DisconnectScene
  BY <1>0, <1>8, StartKeepsPending DEF DisconnectScene, DropLinks, Starts, Finish, Goto
<1>9. ASSUME NEW c \in ClientIds, SendRoomUserInfo(c) PROVE Kept
  BY <1>0, <1>9, StartKeepsPending DEF SendRoomUserInfo, Finish, Goto
<1>10. ASSUME NEW r \in Rooms, Logout(r) PROVE Kept
  BY <1>0, <1>10, StartKeepsPending DEF Logout, Finish, Goto
<1>11. QED
  BY <1>1, <1>2, <1>3, <1>4, <1>5, <1>6, <1>7, <1>8, <1>9, <1>10
     DEF Next, EventThread, SyncThread, AddTermination, SendKeepalivePacketToAllAvs, vars, syncVars
-----------------------------------------------------------------------------
\* At first there are no connections and no links.
LEMMA InitLinkInv == Init => LinkInv
BY DEF Init, LinkInv, LinksBelongToTheirSocket, OpenAreRegistered, ClosingWillDisconnect,
       OwnersHaveLinks, SocketsInTurn

\* The tables' types, in the form the steps use them.
LEMMA LinkTypes ==
  ASSUME TypeInv
  PROVE  /\ \A k \in Conns : tcp_socket[k] \in Fds \cup {NoFd}
         /\ \A r \in Rooms, c \in ClientIds : owner[r][c] \in Conns \cup {NoConn}
         /\ \A r \in Rooms, c \in ClientIds : roomClients[r][c] \in Fds \cup {NoFd}
BY DEF TypeInv, TypeOK

\* Steps that leave connections and links alone.
LEMMA LinksUntouched ==
  ASSUME LiveInv, LinkInv, [Next]_vars,
         UNCHANGED <<terminations, life, tcp_socket, roomClients, owner>>
  PROVE  LinkInv'
<1>1. ASSUME NEW o \in Conns PROVE DisconnectScene => task.conn # o
  <2>1. SUFFICES ASSUME DisconnectScene, task.conn = o PROVE FALSE
    OBVIOUS
  <2>2. life[o] # "free" /\ life'[o] = "free"
    BY <2>1, RunningTaskIsLive DEF DisconnectScene, Starts, LiveInv, TypeInv, TypeOK
  <2>3. QED
    BY <2>2
<1>2. \A o, k \in Conns : /\ WillDisconnect(o) => WillDisconnect(o)'
                          /\ GoesBefore(o, k) => GoesBefore(o, k)'
  BY <1>1, PendingIsKept
<1>3. \A k \in Conns : LinksNothing(k)' <=> LinksNothing(k)
  BY DEF LinksNothing
<1>4. LinksBelongToTheirSocket'
  <2> SUFFICES ASSUME NEW r \in Rooms, NEW c \in ClientIds, roomClients[r][c] # NoFd
               PROVE  LET k == owner[r][c]
                      IN  /\ k # NoConn
                          /\ tcp_socket[k] = roomClients[r][c]
                          /\ \/ life[k] = "open" /\ terminations[tcp_socket[k]] = k
                             \/ life[k] = "closing" /\ WillDisconnect(k)'
    BY DEF LinksBelongToTheirSocket, WillDisconnect
  <2>1. owner[r][c] \in Conns
    BY LinkTypes DEF LinkInv, LinksBelongToTheirSocket, LiveInv
  <2>2. QED
    BY <1>2, <2>1 DEF LinkInv, LinksBelongToTheirSocket, WillDisconnect
<1>5. OpenAreRegistered' /\ OwnersHaveLinks'
  BY DEF LinkInv, OpenAreRegistered, OwnersHaveLinks
<1>6. ClosingWillDisconnect'
  BY <1>2 DEF LinkInv, ClosingWillDisconnect
<1>7. SocketsInTurn'
  BY <1>2, <1>3 DEF LinkInv, SocketsInTurn
<1>8. QED
  BY <1>4, <1>5, <1>6, <1>7 DEF LinkInv

\* A new connection takes a number no open connection has, and waits behind the
\* DISCONNECT of the number's last owner.
LEMMA AddTerminationKeepsLinks ==
  ASSUME LiveInv, LinkInv, [Next]_vars, NEW f \in Fds, NEW k \in Conns, NEW c \in Clients,
         AddTermination(f, k, c)
  PROVE  LinkInv'
<1>1. /\ life[k] = "free" /\ life'[k] = "open" /\ tcp_socket'[k] = f
      /\ terminations[f] = NoConn /\ terminations'[f] = k
      /\ \A d \in Conns : d # k => life'[d] = life[d] /\ tcp_socket'[d] = tcp_socket[d]
      /\ \A g \in Fds : g # f => terminations'[g] = terminations[g]
      /\ UNCHANGED <<queue, task, pc, roomClients, owner>>
  BY DEF AddTermination, syncVars, memberVars, LiveInv, TypeInv, TypeOK
<1>2. Pending' = Pending /\ \A i \in Pending : TaskAt(i)' = TaskAt(i)
  BY <1>1 DEF Pending, TaskAt
<1>3. \A o, d \in Conns : /\ WillDisconnect(o)' <=> WillDisconnect(o)
                          /\ GoesBefore(o, d)' <=> GoesBefore(o, d)
                          /\ LinksNothing(o)' <=> LinksNothing(o)
  BY <1>1, <1>2 DEF WillDisconnect, GoesBefore, LinksNothing, IsDisconnect
<1>4. \A i \in Pending : TaskAt(i).conn # k
  BY <1>1 DEF LiveInv, NoTaskOutlivesItsTermination
<1>5. \A r \in Rooms, b \in ClientIds : owner[r][b] # k
  BY <1>1 DEF LinkInv, OwnersHaveLinks, LinksBelongToTheirSocket
<1>6. \A d \in Conns : life[d] = "open" => d # k /\ tcp_socket[d] \in Fds \ {f}
  <2> SUFFICES ASSUME NEW d \in Conns, life[d] = "open" PROVE d # k /\ tcp_socket[d] \in Fds \ {f}
    OBVIOUS
  <2>1. tcp_socket[d] \in Fds /\ terminations[tcp_socket[d]] = d
    BY DEF LiveInv, TerminationsHaveSockets, LinkInv, OpenAreRegistered
  <2>2. QED
    BY <2>1, <1>1
<1>7. OpenAreRegistered'
  BY <1>1, <1>6 DEF LinkInv, OpenAreRegistered
<1>8. ClosingWillDisconnect' /\ OwnersHaveLinks'
  BY <1>1, <1>3 DEF LinkInv, ClosingWillDisconnect, OwnersHaveLinks
<1>9. LinksBelongToTheirSocket'
  <2> SUFFICES ASSUME NEW r \in Rooms, NEW b \in ClientIds, roomClients[r][b] # NoFd
               PROVE  LET d == owner[r][b]
                      IN  /\ d # NoConn
                          /\ tcp_socket'[d] = roomClients[r][b]
                          /\ \/ life'[d] = "open" /\ terminations'[tcp_socket'[d]] = d
                             \/ life'[d] = "closing" /\ WillDisconnect(d)'
    BY <1>1 DEF LinksBelongToTheirSocket, WillDisconnect
  <2>1. owner[r][b] \in Conns /\ owner[r][b] # k
    BY <1>5, LinkTypes DEF LinkInv, LinksBelongToTheirSocket, LiveInv
  <2>2. QED
    BY <1>1, <1>3, <1>6, <2>1 DEF LinkInv, LinksBelongToTheirSocket, WillDisconnect
<1>10. SocketsInTurn'
  <2> SUFFICES ASSUME NEW o \in Conns, NEW d \in Conns, o # d,
                      life'[o] # "free", life'[d] # "free", tcp_socket'[o] = tcp_socket'[d]
               PROVE  \/ GoesBefore(o, d) /\ LinksNothing(d)
                      \/ GoesBefore(d, o) /\ LinksNothing(o)
    BY <1>3 DEF SocketsInTurn
  <2>1. LinksNothing(k)
    BY <1>5 DEF LinksNothing
  <2>2. ASSUME NEW e \in Conns, e # k, life'[e] # "free", tcp_socket'[e] = f
        PROVE  GoesBefore(e, k)
    <3>1. life[e] = "closing"
      BY <1>1, <1>6, <2>2 DEF LiveInv, TypeInv, TypeOK
    <3>2. WillDisconnect(e)
      BY <3>1 DEF LinkInv, ClosingWillDisconnect
    <3>3. QED
      BY <1>4, <3>2 DEF GoesBefore, WillDisconnect
  <2>3. CASE o = k \/ d = k
    BY <1>1, <2>1, <2>2, <2>3
  <2>4. CASE o # k /\ d # k
    BY <1>1, <2>4 DEF LinkInv, SocketsInTurn
  <2>5. QED
    BY <2>3, <2>4
<1>11. QED
  BY <1>7, <1>8, <1>9, <1>10 DEF LinkInv

\* A connection that closes leaves its number, with a DISCONNECT to come.
LEMMA DelTerminationKeepsLinks ==
  ASSUME LiveInv, LinkInv, [Next]_vars, NEW k \in Conns, DelTermination(k)
  PROVE  LinkInv'
<1>1. /\ life[k] = "open" /\ life'[k] = "closing" /\ tcp_socket[k] \in Fds
      /\ terminations'[tcp_socket[k]] = NoConn
      /\ \A d \in Conns : d # k => life'[d] = life[d]
      /\ \A g \in Fds : g # tcp_socket[k] => terminations'[g] = terminations[g]
      /\ UNCHANGED <<tcp_socket, roomClients, owner, pc>>
  BY DEF DelTermination, Schedule, memberVars, LiveInv, TypeInv, TypeOK, TerminationsHaveSockets
<1>2. DisconnectTask(k) \in Tasks /\ Schedule(DisconnectTask(k))
  BY DEF DelTermination, DisconnectTask, Tasks
<1>3. \A o, d \in Conns : /\ WillDisconnect(o) => WillDisconnect(o)'
                          /\ GoesBefore(o, d) => GoesBefore(o, d)'
  BY <1>2, ScheduleKeepsPending DEF LiveInv
<1>4. WillDisconnect(k)'
  <2>1. DisconnectTask(k).type = "DISCONNECT" /\ DisconnectTask(k).conn = k
    BY DEF DisconnectTask
  <2>2. QED
    BY <1>2, <2>1, ScheduleKeepsPending DEF LiveInv
<1>5. \A d \in Conns : life[d] = "open" /\ d # k => tcp_socket[d] \in Fds \ {tcp_socket[k]}
  BY <1>1 DEF LiveInv, TerminationsHaveSockets, LinkInv, OpenAreRegistered
<1>6. OpenAreRegistered'
  BY <1>1, <1>5 DEF LinkInv, OpenAreRegistered
<1>7. ClosingWillDisconnect' /\ OwnersHaveLinks'
  BY <1>1, <1>3, <1>4 DEF LinkInv, ClosingWillDisconnect, OwnersHaveLinks
<1>8. LinksBelongToTheirSocket'
  <2> SUFFICES ASSUME NEW r \in Rooms, NEW b \in ClientIds, roomClients[r][b] # NoFd
               PROVE  LET d == owner[r][b]
                      IN  /\ d # NoConn
                          /\ tcp_socket[d] = roomClients[r][b]
                          /\ \/ life'[d] = "open" /\ terminations'[tcp_socket[d]] = d
                             \/ life'[d] = "closing" /\ WillDisconnect(d)'
    BY <1>1 DEF LinksBelongToTheirSocket, WillDisconnect
  <2>1. owner[r][b] \in Conns
    BY LinkTypes DEF LinkInv, LinksBelongToTheirSocket, LiveInv
  <2>2. CASE owner[r][b] = k
    BY <1>1, <1>4, <2>2 DEF LinkInv, LinksBelongToTheirSocket
  <2>3. CASE owner[r][b] # k
    BY <1>1, <1>3, <1>5, <2>1, <2>3 DEF LinkInv, LinksBelongToTheirSocket, WillDisconnect
  <2>4. QED
    BY <2>2, <2>3
<1>9. SocketsInTurn'
  <2>1. \A d \in Conns : life'[d] # "free" <=> life[d] # "free"
    BY <1>1
  <2>2. \A d \in Conns : LinksNothing(d)' <=> LinksNothing(d)
    BY <1>1 DEF LinksNothing
  <2>3. QED
    BY <1>1, <1>3, <2>1, <2>2 DEF LinkInv, SocketsInTurn
<1>10. QED
  BY <1>6, <1>7, <1>8, <1>9 DEF LinkInv
\* A link is made by a running task, so by a connection that is in turn.
LEMMA RegisterLinkKeepsLinks ==
  ASSUME LiveInv, LinkInv, [Next]_vars, Starts("LINK_ROOM"), RegisterLink(task.conn, task.room),
         ~ DisconnectScene, connVars' = connVars
  PROVE  LinkInv'
<1> DEFINE k == task.conn
           q == task.room
           b == client_id[k]
<1>1. /\ k \in Conns /\ q \in Rooms /\ tcp_socket[k] # NoFd /\ life[k] # "free"
      /\ b \in ClientIds
  BY RunningLinkIsTyped, RunningTaskIsLive DEF Starts, LiveInv, TypeInv, TypeOK
<1>2. /\ UNCHANGED <<terminations, life, tcp_socket>>
      /\ roomClients'[q][b] = tcp_socket[k] /\ owner'[q][b] = k
      /\ \A r \in Rooms, c \in ClientIds :
           <<r, c>> # <<q, b>> => roomClients'[r][c] = roomClients[r][c] /\ owner'[r][c] = owner[r][c]
  BY <1>1 DEF RegisterLink, UpdateRoomClientList, RecordedSocket, connVars, LiveInv, TypeInv, TypeOK
<1>3. \A o, d \in Conns : /\ WillDisconnect(o) => WillDisconnect(o)'
                          /\ GoesBefore(o, d) => GoesBefore(o, d)'
  BY PendingIsKept
<1>4. \A d \in Conns : d # k /\ LinksNothing(d) => LinksNothing(d)'
  BY <1>2 DEF LinksNothing
<1>5. \A d \in Conns : ~ GoesBefore(d, k)
  <2>1. 0 \in Pending /\ TaskAt(0) = task /\ \A i \in Pending : ~ (i < 0)
    BY DEF Starts, Pending, TaskAt, LiveInv, TypeInv, TypeOK
  <2>2. QED
    BY <2>1 DEF GoesBefore
<1> HIDE DEF k, q, b
<1>6. OpenAreRegistered' /\ ClosingWillDisconnect'
  BY <1>2, <1>3 DEF LinkInv, OpenAreRegistered, ClosingWillDisconnect
<1>7. OwnersHaveLinks'
  BY <1>1, <1>2 DEF LinkInv, OwnersHaveLinks
<1>8. LinksBelongToTheirSocket'
  <2> SUFFICES ASSUME NEW r \in Rooms, NEW c \in ClientIds, roomClients'[r][c] # NoFd,
                      NEW d, d = owner'[r][c]
               PROVE  /\ d # NoConn
                      /\ tcp_socket[d] = roomClients'[r][c]
                      /\ \/ life[d] = "open" /\ terminations[tcp_socket[d]] = d
                         \/ life[d] = "closing" /\ WillDisconnect(d)'
    BY <1>2 DEF LinksBelongToTheirSocket, WillDisconnect
  <2>1. CASE <<r, c>> = <<q, b>>
    <3>1. life[k] \in {"open", "closing"}
      BY <1>1 DEF LiveInv, TypeInv, TypeOK
    <3>2. QED
      BY <1>1, <1>2, <1>3, <2>1, <3>1 DEF LinkInv, OpenAreRegistered, ClosingWillDisconnect
  <2>2. CASE <<r, c>> # <<q, b>>
    <3>1. roomClients[r][c] # NoFd /\ owner[r][c] = d /\ roomClients'[r][c] = roomClients[r][c]
      BY <1>2, <2>2
    <3>2. d \in Conns
      BY <3>1, LinkTypes DEF LinkInv, LinksBelongToTheirSocket, LiveInv
    <3>3. QED
      BY <1>2, <1>3, <3>1, <3>2 DEF LinkInv, LinksBelongToTheirSocket, WillDisconnect
  <2>3. QED
    BY <2>1, <2>2
<1>9. SocketsInTurn'
  <2> SUFFICES ASSUME NEW o \in Conns, NEW d \in Conns, o # d,
                      life[o] # "free", life[d] # "free", tcp_socket[o] = tcp_socket[d]
               PROVE  \/ GoesBefore(o, d)' /\ LinksNothing(d)'
                      \/ GoesBefore(d, o)' /\ LinksNothing(o)'
    BY <1>2 DEF SocketsInTurn
  <2>1. \/ GoesBefore(o, d) /\ LinksNothing(d)
        \/ GoesBefore(d, o) /\ LinksNothing(o)
    BY DEF LinkInv, SocketsInTurn
  <2>2. QED
    BY <2>1, <1>3, <1>4, <1>5
<1>10. QED
  BY <1>6, <1>7, <1>8, <1>9 DEF LinkInv

\* Links that go away leave the others to their connections.
LEMMA LinksAfterDrop ==
  ASSUME TypeInv, NEW gone, DropLinks(gone), NEW r \in Rooms, NEW c \in ClientIds
  PROVE  /\ <<r, c>> \in gone => roomClients'[r][c] = NoFd /\ owner'[r][c] = NoConn
         /\ <<r, c>> \notin gone =>
              roomClients'[r][c] = roomClients[r][c] /\ owner'[r][c] = owner[r][c]
BY DEF DropLinks

\* UNLINK_ROOM, which takes one link and no connection.
LEMMA UnlinkKeepsLinks ==
  ASSUME LiveInv, LinkInv, [Next]_vars, UnLinkRoomScene
  PROVE  LinkInv'
<1>1. PICK gone : TypeInv /\ DropLinks(gone)
  BY DEF UnLinkRoomScene, LiveInv
<1>2. terminations' = terminations /\ life' = life /\ tcp_socket' = tcp_socket
  BY DEF UnLinkRoomScene, connVars
<1>3. \A o, d \in Conns : /\ WillDisconnect(o) => WillDisconnect(o)'
                          /\ GoesBefore(o, d) => GoesBefore(o, d)'
  BY PendingIsKept DEF UnLinkRoomScene, DisconnectScene, Starts
<1>4. \A r \in Rooms, c \in ClientIds :
        \/ roomClients'[r][c] = NoFd /\ owner'[r][c] = NoConn
        \/ roomClients'[r][c] = roomClients[r][c] /\ owner'[r][c] = owner[r][c]
  BY <1>1, LinksAfterDrop
<1>5. \A d \in Conns : LinksNothing(d) => LinksNothing(d)'
  <2> SUFFICES ASSUME NEW d \in Conns, LinksNothing(d), NEW r \in Rooms, NEW c \in ClientIds
               PROVE  owner'[r][c] # d
    BY DEF LinksNothing
  <2>1. owner'[r][c] \in {NoConn, owner[r][c]}
    BY <1>4
  <2>2. QED
    BY <2>1 DEF LinksNothing
<1>6. /\ OpenAreRegistered'
      /\ ClosingWillDisconnect'
      /\ OwnersHaveLinks'
  <2>1. OpenAreRegistered'
    BY <1>2 DEF LinkInv, OpenAreRegistered
  <2>2. ClosingWillDisconnect'
    BY <1>2, <1>3 DEF LinkInv, ClosingWillDisconnect
  <2>3. OwnersHaveLinks'
    BY <1>4 DEF LinkInv, OwnersHaveLinks
  <2>4. QED
    BY <2>1, <2>2, <2>3
<1>7. LinksBelongToTheirSocket'
  <2> SUFFICES ASSUME NEW r \in Rooms, NEW c \in ClientIds, roomClients'[r][c] # NoFd,
                      NEW d, d = owner'[r][c]
               PROVE  /\ d # NoConn
                      /\ tcp_socket'[d] = roomClients'[r][c]
                      /\ \/ life'[d] = "open" /\ terminations'[tcp_socket'[d]] = d
                         \/ life'[d] = "closing" /\ WillDisconnect(d)'
    BY DEF LinksBelongToTheirSocket, WillDisconnect
  <2>1. roomClients'[r][c] = roomClients[r][c] /\ owner'[r][c] = owner[r][c]
    BY <1>4
  <2>2. owner[r][c] \in Conns
    BY <2>1, LinkTypes DEF LinkInv, LinksBelongToTheirSocket, LiveInv
  <2>3. QED
    BY <1>2, <1>3, <2>1, <2>2 DEF LinkInv, LinksBelongToTheirSocket, WillDisconnect
<1>8. SocketsInTurn'
  BY <1>2, <1>3, <1>5 DEF LinkInv, SocketsInTurn
<1>9. QED
  BY <1>6, <1>7, <1>8 DEF LinkInv

\* The links DISCONNECT finds by their number are those of its own connection.
LEMMA FoundLinksAreOwn ==
  ASSUME LiveInv, LinkInv, Starts("DISCONNECT"), NEW r \in Rooms, NEW c \in ClientIds
  PROVE  <<r, c>> \in LinksBySocket(task.conn) <=> owner[r][c] = task.conn
<1> DEFINE k == task.conn
           o == owner[r][c]
<1>1. k \in Conns /\ k # NoConn /\ life[k] # "free" /\ tcp_socket[k] \in Fds
  <2>1. task \in Tasks /\ task.type = "DISCONNECT" /\ pc = "start"
    BY DEF Starts, LiveInv, TypeInv, TypeOK, SyncThreadOK, NoTask
  <2>2. k \in Conns /\ k # NoConn
    BY <2>1 DEF Tasks
  <2>3. QED
    BY <2>1, <2>2, RunningTaskIsLive DEF LiveInv, TerminationsHaveSockets
<1>2. <<r, c>> \in LinksBySocket(k) <=> roomClients[r][c] = tcp_socket[k]
  BY DEF LinksBySocket
<1>3. o = k => roomClients[r][c] = tcp_socket[k]
  BY <1>1 DEF LinkInv, OwnersHaveLinks, LinksBelongToTheirSocket
<1>4. ASSUME roomClients[r][c] = tcp_socket[k], o # k PROVE FALSE
  <2>1. o \in Conns /\ life[o] # "free" /\ tcp_socket[o] = tcp_socket[k]
    BY <1>1, <1>4, LinkTypes DEF LinkInv, LinksBelongToTheirSocket, LiveInv
  <2>2. ~ LinksNothing(o)
    BY DEF LinksNothing
  <2>3. ~ GoesBefore(o, k)
    <3>1. 0 \in Pending /\ TaskAt(0) = task /\ \A i \in Pending : ~ (i < 0)
      BY DEF Starts, Pending, TaskAt, LiveInv, TypeInv, TypeOK
    <3>2. QED
      BY <3>1 DEF GoesBefore
  <2>4. QED
    BY <1>1, <1>4, <2>1, <2>2, <2>3 DEF LinkInv, SocketsInTurn
<1>5. QED
  BY <1>2, <1>3, <1>4

\* DISCONNECT takes the links of its connection and the connection itself.
LEMMA DisconnectKeepsLinks ==
  ASSUME LiveInv, LinkInv, [Next]_vars, DisconnectScene
  PROVE  LinkInv'
<1> DEFINE k == task.conn
<1>1. /\ Starts("DISCONNECT") /\ terminations' = terminations /\ k \in Conns
      /\ life'[k] = "free"
      /\ \A d \in Conns : d # k => life'[d] = life[d] /\ tcp_socket'[d] = tcp_socket[d]
  <2>1. task \in Tasks /\ task.type = "DISCONNECT"
    BY DEF DisconnectScene, Starts, LiveInv, TypeInv, TypeOK, SyncThreadOK, NoTask
  <2>2. k \in Conns
    BY <2>1 DEF Tasks
  <2>3. QED
    BY <2>2 DEF DisconnectScene, LiveInv, TypeInv, TypeOK
<1>2. \A r \in Rooms, c \in ClientIds :
        /\ owner[r][c] = k => roomClients'[r][c] = NoFd /\ owner'[r][c] = NoConn
        /\ owner[r][c] # k => roomClients'[r][c] = roomClients[r][c] /\ owner'[r][c] = owner[r][c]
  <2>1. PICK gone : gone = LinksBySocket(k) /\ DropLinks(gone)
    BY DEF DisconnectScene
  <2>2. \A r \in Rooms, c \in ClientIds : <<r, c>> \in gone <=> owner[r][c] = k
    BY <1>1, <2>1, FoundLinksAreOwn
  <2>3. \A r \in Rooms, c \in ClientIds :
          /\ <<r, c>> \in gone => roomClients'[r][c] = NoFd /\ owner'[r][c] = NoConn
          /\ <<r, c>> \notin gone =>
               roomClients'[r][c] = roomClients[r][c] /\ owner'[r][c] = owner[r][c]
    <3>1. TypeInv /\ DropLinks(gone)
      BY <2>1 DEF LiveInv
    <3>2. QED
      BY <3>1, LinksAfterDrop
  <2>4. QED
    BY <2>2, <2>3
<1>3. \A o, d \in Conns : o # k => /\ WillDisconnect(o) => WillDisconnect(o)'
                                   /\ GoesBefore(o, d) => GoesBefore(o, d)'
  BY PendingIsKept
<1>4. \A d \in Conns : LinksNothing(d) => LinksNothing(d)'
  <2> SUFFICES ASSUME NEW d \in Conns, LinksNothing(d), NEW r \in Rooms, NEW c \in ClientIds
               PROVE  owner'[r][c] # d
    BY DEF LinksNothing
  <2>1. owner'[r][c] \in {NoConn, owner[r][c]}
    BY <1>2
  <2>2. QED
    BY <2>1 DEF LinksNothing
<1> HIDE DEF k
<1>5. OpenAreRegistered'
  BY <1>1 DEF LinkInv, OpenAreRegistered
<1>6. ClosingWillDisconnect' /\ OwnersHaveLinks'
  BY <1>1, <1>2, <1>3 DEF LinkInv, ClosingWillDisconnect, OwnersHaveLinks
<1>7. LinksBelongToTheirSocket'
  <2> SUFFICES ASSUME NEW r \in Rooms, NEW c \in ClientIds, roomClients'[r][c] # NoFd,
                      NEW d, d = owner'[r][c]
               PROVE  /\ d # NoConn
                      /\ tcp_socket'[d] = roomClients'[r][c]
                      /\ \/ life'[d] = "open" /\ terminations'[tcp_socket'[d]] = d
                         \/ life'[d] = "closing" /\ WillDisconnect(d)'
    BY DEF LinksBelongToTheirSocket, WillDisconnect
  <2>1. /\ roomClients'[r][c] = roomClients[r][c] /\ owner'[r][c] = owner[r][c]
        /\ owner[r][c] # k
    BY <1>2
  <2>2. owner[r][c] \in Conns
    BY <2>1, LinkTypes DEF LinkInv, LinksBelongToTheirSocket, LiveInv
  <2>3. QED
    BY <1>1, <1>3, <2>1, <2>2 DEF LinkInv, LinksBelongToTheirSocket, WillDisconnect
<1>8. SocketsInTurn'
  <2> SUFFICES ASSUME NEW o \in Conns, NEW d \in Conns, o # d,
                      life'[o] # "free", life'[d] # "free", tcp_socket'[o] = tcp_socket'[d]
               PROVE  \/ GoesBefore(o, d)' /\ LinksNothing(d)'
                      \/ GoesBefore(d, o)' /\ LinksNothing(o)'
    BY DEF SocketsInTurn
  <2>1. o # k /\ d # k
    BY <1>1
  <2>2. \/ GoesBefore(o, d) /\ LinksNothing(d)
        \/ GoesBefore(d, o) /\ LinksNothing(o)
    BY <1>1, <2>1 DEF LinkInv, SocketsInTurn
  <2>3. QED
    BY <1>3, <1>4, <2>1, <2>2
<1>9. QED
  BY <1>5, <1>6, <1>7, <1>8 DEF LinkInv

\* The inductive step of LinkInv, one action after the other.
LEMMA NextLinkInv == LiveInv /\ LinkInv /\ [Next]_vars => LinkInv'
<1> SUFFICES ASSUME LiveInv, LinkInv, [Next]_vars PROVE LinkInv'
  OBVIOUS
<1>1. ASSUME NEW f \in Fds, NEW k \in Conns, NEW c \in Clients, AddTermination(f, k, c)
      PROVE  LinkInv'
  BY <1>1, AddTerminationKeepsLinks
<1>2. ASSUME NEW k \in Conns, DelTermination(k) PROVE LinkInv'
  BY <1>2, DelTerminationKeepsLinks
<1>3. CASE LinkRoomByLogin \/ LinkAvailableRoom
  BY <1>3, RegisterLinkKeepsLinks DEF LinkRoomByLogin, LinkAvailableRoom, DisconnectScene, Starts
<1>4. CASE UnLinkRoomScene
  BY <1>4, UnlinkKeepsLinks
<1>5. CASE DisconnectScene
  BY <1>5, DisconnectKeepsLinks
<1>6. CASE UNCHANGED <<terminations, life, tcp_socket, roomClients, owner>>
  BY <1>6, LinksUntouched
<1>7. ASSUME NEW k \in Conns, TcpParamScene(k) PROVE LinkInv'
  BY <1>6, <1>7 DEF TcpParamScene, connVars, memberVars
<1>8. ASSUME NEW r \in Rooms, UdpParamScene(r) \/ Logout(r) PROVE LinkInv'
  BY <1>6, <1>8 DEF UdpParamScene, Logout, connVars, memberVars
<1>9. ASSUME NEW c \in ClientIds, SendRoomUserInfo(c) PROVE LinkInv'
  BY <1>6, <1>9 DEF SendRoomUserInfo, connVars
<1>10. CASE TakeTask \/ LoginScene \/ LinkUnknownRoom \/ Login \/ SendLogin \/ DropUsersInfo
            \/ UsersInfoScene \/ SendKeepalivePacketToAllAvs
  BY <1>6, <1>10 DEF TakeTask, LoginScene, LinkUnknownRoom, Login, SendLogin, DropUsersInfo,
     UsersInfoScene, SendKeepalivePacketToAllAvs, connVars, memberVars
<1>11. CASE UNCHANGED vars
  BY <1>6, <1>11 DEF vars, connVars, memberVars
<1>12. QED
  BY <1>1, <1>2, <1>3, <1>4, <1>5, <1>7, <1>8, <1>9, <1>10, <1>11
     DEF Next, EventThread, SyncThread

\* A link stays with the connection that made it: its number is the connection's own
\* while that is open, and a DISCONNECT is to come once it is not.
THEOREM LinksStayWithTheirSocket == Spec => []LinksBelongToTheirSocket
<1>1. LinkInv => LinksBelongToTheirSocket
  BY DEF LinkInv
<1>2. QED
  BY InitLiveInv, NextLiveInv, InitLinkInv, NextLinkInv, <1>1, PTL DEF Spec
-----------------------------------------------------------------------------
\* The only steps that make or take links.
LEMMA LinksChangeByTasks ==
  ASSUME [Next]_vars
  PROVE  \/ UNCHANGED <<roomClients, owner, clientRooms>>
         \/ Starts("LINK_ROOM") /\ RegisterLink(task.conn, task.room) /\ avsSent' = avsSent
         \/ UnLinkRoomScene
         \/ DisconnectScene
<1> DEFINE Unchanged == UNCHANGED <<roomClients, owner, clientRooms>>
<1>1. ASSUME NEW f \in Fds, NEW k \in Conns, NEW c \in Clients, AddTermination(f, k, c)
      PROVE  Unchanged
  BY <1>1 DEF AddTermination, memberVars
<1>2. ASSUME NEW k \in Conns, DelTermination(k) \/ TcpParamScene(k) PROVE Unchanged
  BY <1>2 DEF DelTermination, TcpParamScene, memberVars
<1>3. ASSUME NEW r \in Rooms, UdpParamScene(r) \/ Logout(r) PROVE Unchanged
  BY <1>3 DEF UdpParamScene, Logout, memberVars
<1>4. ASSUME NEW c \in ClientIds, SendRoomUserInfo(c) PROVE Unchanged
  BY <1>4 DEF SendRoomUserInfo
<1>5. CASE TakeTask \/ LoginScene \/ LinkUnknownRoom \/ Login \/ SendLogin \/ DropUsersInfo
           \/ UsersInfoScene \/ SendKeepalivePacketToAllAvs \/ UNCHANGED vars
  BY <1>5 DEF TakeTask, LoginScene, LinkUnknownRoom, Login, SendLogin, DropUsersInfo,
     UsersInfoScene, SendKeepalivePacketToAllAvs, vars, memberVars
<1>6. CASE LinkRoomByLogin \/ LinkAvailableRoom
  BY <1>6 DEF LinkRoomByLogin, LinkAvailableRoom, roomVars
<1>7. QED
  BY <1>1, <1>2, <1>3, <1>4, <1>5, <1>6 DEF Next, EventThread, SyncThread

\* A step that takes the link of a client is its UNLINK_ROOM, or the DISCONNECT of
\* the connection that made it.
LEMMA LinkEndsWithOwner ==
  ASSUME LiveInv, LinkInv, [Next]_vars, NEW r \in Rooms, NEW c \in ClientIds,
         roomClients[r][c] # NoFd, roomClients'[r][c] = NoFd
  PROVE  \/ Starts("UNLINK_ROOM") /\ task.room = r /\ peer[task.conn] = c
         \/ Starts("DISCONNECT") /\ task.conn = owner[r][c]
<1>0. TypeInv
  BY DEF LiveInv
<1>1. CASE Starts("LINK_ROOM") /\ RegisterLink(task.conn, task.room)
  <2>1. tcp_socket[task.conn] # NoFd
    BY <1>1, RunningLinkIsTyped
  <2>2. roomClients'[r][c] \in {roomClients[r][c], tcp_socket[task.conn]}
    BY <1>0, <1>1 DEF RegisterLink, UpdateRoomClientList, RecordedSocket, TypeInv, TypeOK
  <2>3. QED
    BY <2>1, <2>2
<1>2. CASE UnLinkRoomScene
  <2>1. PICK gone : gone = {<<task.room, peer[task.conn]>>} /\ DropLinks(gone)
    BY <1>2 DEF UnLinkRoomScene
  <2>2. <<r, c>> \in gone
    BY <1>0, <2>1, LinksAfterDrop
  <2>3. QED
    BY <1>2, <2>1, <2>2 DEF UnLinkRoomScene
<1>3. CASE DisconnectScene
  <2>1. PICK gone : gone = LinksBySocket(task.conn) /\ DropLinks(gone)
    BY <1>3 DEF DisconnectScene
  <2>2. <<r, c>> \in LinksBySocket(task.conn)
    BY <1>0, <2>1, LinksAfterDrop
  <2>3. Starts("DISCONNECT")
    BY <1>3 DEF DisconnectScene
  <2>4. QED
    BY <2>2, <2>3, FoundLinksAreOwn
<1>4. QED
  BY <1>1, <1>2, <1>3, LinksChangeByTasks

\* A link goes only by an UNLINK_ROOM of its client or with the connection that made
\* it, although DISCONNECT looks for links by a number that may have a new owner.
THEOREM LinksGoWithTheirOwner == Spec => LinksEndWithTheirOwner
<1>1. LiveInv /\ LinkInv /\ [Next]_vars =>
        [\A r \in Rooms, c \in ClientIds :
           roomClients[r][c] # NoFd /\ roomClients'[r][c] = NoFd =>
             \/ Starts("UNLINK_ROOM") /\ task.room = r /\ peer[task.conn] = c
             \/ Starts("DISCONNECT") /\ task.conn = owner[r][c]]_vars
  BY LinkEndsWithOwner
<1>2. QED
  BY InitLiveInv, NextLiveInv, InitLinkInv, NextLinkInv, <1>1, PTL
     DEF Spec, LinksEndWithTheirOwner
-----------------------------------------------------------------------------
\* No step takes a room from the list of a client that stays linked to it.
LEMMA NextCoverLinks ==
  TypeInv /\ ClientRoomsCoverLinks /\ [Next]_vars => ClientRoomsCoverLinks'
<1> SUFFICES ASSUME TypeInv, ClientRoomsCoverLinks, [Next]_vars,
                    NEW r \in Rooms, NEW c \in ClientIds, roomClients'[r][c] # NoFd
             PROVE  r \in clientRooms'[c]
  BY DEF ClientRoomsCoverLinks
<1>1. CASE UNCHANGED <<roomClients, owner, clientRooms>>
  BY <1>1 DEF ClientRoomsCoverLinks
<1>2. CASE Starts("LINK_ROOM") /\ RegisterLink(task.conn, task.room)
  <2> DEFINE b == client_id[task.conn]
  <2>1. /\ clientRooms' = [clientRooms EXCEPT ![b] = @ \cup {task.room}]
        /\ roomClients' = [roomClients EXCEPT ![task.room][b] = tcp_socket[task.conn]]
    BY <1>2 DEF RegisterLink, UpdateRoomClientList, UpdateClientRoomList, RecordedSocket
  <2> HIDE DEF b
  <2>2. CASE r = task.room /\ c = b
    BY <2>1, <2>2 DEF TypeInv, TypeOK
  <2>3. CASE ~ (r = task.room /\ c = b)
    <3>1. roomClients[r][c] # NoFd
      BY <2>1, <2>3 DEF TypeInv, TypeOK
    <3>2. r \in clientRooms[c] /\ clientRooms[c] \subseteq clientRooms'[c]
      BY <2>1, <3>1 DEF TypeInv, TypeOK, ClientRoomsCoverLinks
    <3>3. QED
      BY <3>2
  <2>4. QED
    BY <2>2, <2>3
<1>3. CASE UnLinkRoomScene
  <2>1. PICK b, gone : /\ b = peer[task.conn] /\ gone = {<<task.room, b>>}
                       /\ DropLinks(gone) /\ DeleteClientRoom(b, {task.room})
    BY <1>3 DEF UnLinkRoomScene
  <2>2. <<r, c>> \notin gone /\ roomClients[r][c] # NoFd
    <3>1. DropLinks(gone)
      BY <2>1
    <3>2. QED
      BY <3>1, LinksAfterDrop
  <2>3. ~ (r = task.room /\ c = b)
    BY <2>1, <2>2
  <2>4. QED
    BY <2>1, <2>2, <2>3 DEF DeleteClientRoom, ClientRoomsCoverLinks
<1>4. CASE DisconnectScene
  <2>1. PICK gone, b, emptied :
          /\ gone = LinksBySocket(task.conn) /\ DropLinks(gone)
          /\ emptied = RoomsEmptied(gone) /\ DeleteClientRoom(b, emptied)
    BY <1>4 DEF DisconnectScene
  <2>2. <<r, c>> \notin gone /\ roomClients[r][c] # NoFd
    <3>1. DropLinks(gone)
      BY <2>1
    <3>2. QED
      BY <3>1, LinksAfterDrop
  <2>3. r \notin emptied
    BY <2>1, <2>2 DEF RoomsEmptied
  <2>4. QED
    BY <2>1, <2>2, <2>3 DEF DeleteClientRoom, ClientRoomsCoverLinks
<1>5. QED
  BY <1>1, <1>2, <1>3, <1>4, LinksChangeByTasks

\* moClientidtoRoomList always covers the links, even when a lost connection
\* cleans it under the id of a room.
THEOREM ClientRoomsCover == Spec => []ClientRoomsCoverLinks
<1>1. Init => ClientRoomsCoverLinks
  BY DEF Init, ClientRoomsCoverLinks
<1>2. QED
  BY InitTypeInv, NextTypeInv, NextCoverLinks, <1>1, PTL DEF Spec
-----------------------------------------------------------------------------
\* Steps after which a client that was informed, or about to be, still is.
LEMMA InformedStay ==
  ASSUME LinkedClientsAreInformed, NEW r \in Rooms, NEW c \in ClientIds,
         roomClients[r][c] # NoFd, rooms[r] = "available", life[owner[r][c]] = "open",
         pc # "inform", <<r, c>> \in informed => <<r, c>> \in informed'
  PROVE  <<r, c>> \in informed'
BY DEF LinkedClientsAreInformed

\* A step that lets no connection open and no room become available, and changes
\* neither links nor what has been sent, cannot leave a client uninformed.
LEMMA InformUntouched ==
  ASSUME LinkedClientsAreInformed, UNCHANGED <<roomClients, owner, informed, informTodo>>,
         \A r \in Rooms : rooms'[r] = "available" => rooms[r] = "available",
         \A r \in Rooms, c \in ClientIds :
           roomClients[r][c] # NoFd /\ life'[owner[r][c]] = "open" => life[owner[r][c]] = "open",
         pc = "inform" => pc' = "inform" /\ task' = task
  PROVE  LinkedClientsAreInformed'
BY DEF LinkedClientsAreInformed

\* All the clients of a room are put on the list of those to be informed.
LEMMA InformAll ==
  ASSUME TypeInv, LinkedClientsAreInformed, pc = "start", pc' = "inform", task' = task,
         life' = life,
         informTodo' = ClientsIn(roomClients'[task.room]),
         \A r \in Rooms, c \in ClientIds : r # task.room =>
           /\ roomClients'[r][c] = roomClients[r][c] /\ owner'[r][c] = owner[r][c]
           /\ rooms'[r] = rooms[r] /\ (<<r, c>> \in informed => <<r, c>> \in informed')
  PROVE  LinkedClientsAreInformed'
<1> SUFFICES ASSUME NEW r \in Rooms, NEW c \in ClientIds, roomClients'[r][c] # NoFd,
                    rooms'[r] = "available", life'[owner'[r][c]] = "open"
             PROVE  <<r, c>> \in informed' \/ (pc' = "inform" /\ r = task'.room /\ c \in informTodo')
  BY DEF LinkedClientsAreInformed
<1>1. CASE r = task.room
  BY <1>1 DEF ClientsIn
<1>2. CASE r # task.room
  BY <1>2 DEF LinkedClientsAreInformed
<1>3. QED
  BY <1>1, <1>2

\* SendRoomUserInfo finds the client under the number of its link: while its
\* connection is open the number is the connection's own.
LEMMA SendKeepsInformed ==
  ASSUME LiveInv, LinkInv, LinkedClientsAreInformed, NEW d \in ClientIds, SendRoomUserInfo(d)
  PROVE  LinkedClientsAreInformed'
<1>1. /\ pc = "inform" /\ d \in informTodo /\ informTodo' = informTodo \ {d}
      /\ informTodo' # {} => pc' = "inform" /\ task' = task
      /\ informed \subseteq informed'
      /\ UNCHANGED <<life, rooms, roomClients, owner>>
  BY DEF SendRoomUserInfo, Goto, connVars, roomVars
<1> SUFFICES ASSUME NEW r \in Rooms, NEW c \in ClientIds, roomClients[r][c] # NoFd,
                    rooms[r] = "available", life[owner[r][c]] = "open"
             PROVE  <<r, c>> \in informed' \/ (pc' = "inform" /\ r = task'.room /\ c \in informTodo')
  BY <1>1 DEF LinkedClientsAreInformed
<1>2. <<r, c>> \in informed \/ (r = task.room /\ c \in informTodo)
  BY DEF LinkedClientsAreInformed
<1>3. CASE r = task.room /\ c = d
  <2>1. /\ owner[r][c] # NoConn
        /\ terminations[roomClients[r][c]] = owner[r][c]
    BY DEF LinkInv, LinksBelongToTheirSocket
  <2>2. QED
    BY <1>3, <2>1 DEF SendRoomUserInfo
<1>4. CASE ~ (r = task.room /\ c = d)
  BY <1>1, <1>2, <1>4
<1>5. QED
  BY <1>3, <1>4

\* The inductive step: every way to link, to become available and to be sent to.
LEMMA NextInformed ==
  LiveInv /\ LinkInv /\ LinkedClientsAreInformed /\ [Next]_vars => LinkedClientsAreInformed'
<1> SUFFICES ASSUME LiveInv, LinkInv, LinkedClientsAreInformed, [Next]_vars
             PROVE  LinkedClientsAreInformed'
  OBVIOUS
<1>0. TypeInv
  BY DEF LiveInv
<1>1. ASSUME NEW f \in Fds, NEW k \in Conns, NEW c \in Clients, AddTermination(f, k, c)
      PROVE  LinkedClientsAreInformed'
  <2>1. /\ life[k] = "free" /\ \A d \in Conns : d # k => life'[d] = life[d]
        /\ UNCHANGED <<roomClients, owner, informed, informTodo, rooms, pc, task>>
    BY <1>0, <1>1 DEF AddTermination, syncVars, roomVars, memberVars, TypeInv, TypeOK
  <2>2. \A r \in Rooms, b \in ClientIds : roomClients[r][b] # NoFd =>
          owner[r][b] \in Conns /\ owner[r][b] # k
    BY <1>0, <2>1, LinkTypes DEF LinkInv, LinksBelongToTheirSocket
  <2>3. QED
    BY <2>1, <2>2, InformUntouched
<1>2. ASSUME NEW k \in Conns, DelTermination(k) PROVE LinkedClientsAreInformed'
  <2>1. /\ \A d \in Conns : life'[d] = "open" => life[d] = "open"
        /\ UNCHANGED <<roomClients, owner, informed, informTodo, rooms, pc, task>>
    BY <1>0, <1>2 DEF DelTermination, Schedule, roomVars, memberVars, TypeInv, TypeOK
  <2>2. \A r \in Rooms, b \in ClientIds : roomClients[r][b] # NoFd => owner[r][b] \in Conns
    BY <1>0, LinkTypes DEF LinkInv, LinksBelongToTheirSocket
  <2>3. QED
    BY <2>1, <2>2, InformUntouched
<1>3. ASSUME NEW k \in Conns, TcpParamScene(k) PROVE LinkedClientsAreInformed'
  BY <1>3, InformUntouched DEF TcpParamScene, Schedule, connVars, roomVars, memberVars
<1>4. ASSUME NEW r \in Rooms, UdpParamScene(r) PROVE LinkedClientsAreInformed'
  BY <1>4, InformUntouched DEF UdpParamScene, Schedule, connVars, roomVars, memberVars
<1>5. CASE TakeTask \/ LinkUnknownRoom \/ SendLogin \/ DropUsersInfo
  BY <1>5, InformUntouched DEF TakeTask, LinkUnknownRoom, SendLogin, DropUsersInfo, Starts,
     Finish, connVars, roomVars, memberVars
<1>6. CASE LoginScene
  BY <1>6, InformUntouched DEF LoginScene, Starts, roomVars, memberVars
<1>7. CASE Login
  <2>1. \A r \in Rooms : rooms'[r] = "available" => rooms[r] = "available"
    BY <1>0, <1>7 DEF Login, TypeInv, TypeOK
  <2>2. QED
    BY <1>7, <2>1, InformUntouched DEF Login, connVars, memberVars
<1>8. CASE UNCHANGED vars \/ SendKeepalivePacketToAllAvs
  BY <1>8, InformUntouched DEF SendKeepalivePacketToAllAvs, vars, connVars, syncVars, roomVars,
     memberVars
<1>9. CASE LinkRoomByLogin
  <2> SUFFICES ASSUME NEW r \in Rooms, NEW c \in ClientIds, roomClients'[r][c] # NoFd,
                      rooms'[r] = "available", life'[owner'[r][c]] = "open"
               PROVE  <<r, c>> \in informed'
    BY DEF LinkedClientsAreInformed
  <2>1. r # task.room /\ pc # "inform" /\ life' = life /\ rooms' = rooms
    BY <1>9 DEF LinkRoomByLogin, Starts, GetRoom, connVars, roomVars
  <2>2. /\ roomClients'[r][c] = roomClients[r][c] /\ owner'[r][c] = owner[r][c]
        /\ <<r, c>> \in informed => <<r, c>> \in informed'
    BY <1>0, <1>9, <2>1
       DEF LinkRoomByLogin, RegisterLink, UpdateRoomClientList, TypeInv, TypeOK
  <2>3. QED
    BY <2>1, <2>2, InformedStay
<1>10. CASE LinkAvailableRoom
  <2>1. /\ pc = "start" /\ pc' = "inform" /\ UNCHANGED <<task, life, rooms>>
        /\ informTodo' = ClientsIn(roomClients'[task.room])
    BY <1>10 DEF LinkAvailableRoom, Starts, Goto, connVars, roomVars
  <2>2. \A r \in Rooms, c \in ClientIds : r # task.room =>
          /\ roomClients'[r][c] = roomClients[r][c] /\ owner'[r][c] = owner[r][c]
          /\ (<<r, c>> \in informed => <<r, c>> \in informed')
    BY <1>0, <1>10 DEF LinkAvailableRoom, RegisterLink, UpdateRoomClientList, TypeInv, TypeOK
  <2>3. QED
    BY <1>0, <2>1, <2>2, InformAll
<1>11. CASE UsersInfoScene
  <2>1. /\ pc = "start" /\ pc' = "inform"
        /\ UNCHANGED <<task, life, roomClients, owner, informed>>
        /\ informTodo' = ClientsIn(roomClients[task.room])
        /\ \A r \in Rooms : r # task.room => rooms'[r] = rooms[r]
    BY <1>0, <1>11 DEF UsersInfoScene, Starts, Goto, connVars, memberVars, TypeInv, TypeOK
  <2>2. QED
    BY <1>0, <2>1, InformAll
<1>12. ASSUME NEW d \in ClientIds, SendRoomUserInfo(d) PROVE LinkedClientsAreInformed'
  BY <1>12, SendKeepsInformed
<1>13. ASSUME NEW gone, DropLinks(gone), pc = "start", rooms' = rooms,
              \A d \in Conns : life'[d] = "open" => life[d] = "open"
       PROVE  LinkedClientsAreInformed'
  <2> SUFFICES ASSUME NEW r \in Rooms, NEW c \in ClientIds, roomClients'[r][c] # NoFd,
                      rooms'[r] = "available", life'[owner'[r][c]] = "open"
               PROVE  <<r, c>> \in informed'
    BY DEF LinkedClientsAreInformed
  <2>1. /\ <<r, c>> \notin gone
        /\ roomClients'[r][c] = roomClients[r][c] /\ owner'[r][c] = owner[r][c]
    BY <1>0, <1>13, LinksAfterDrop
  <2>2. <<r, c>> \in informed => <<r, c>> \in informed'
    BY <1>13, <2>1 DEF DropLinks
  <2>3. owner[r][c] \in Conns
    BY <1>0, <2>1, LinkTypes DEF LinkInv, LinksBelongToTheirSocket
  <2>4. QED
    BY <1>13, <2>1, <2>2, <2>3, InformedStay
<1>14. CASE UnLinkRoomScene
  <2>1. PICK gone : DropLinks(gone)
    BY <1>14 DEF UnLinkRoomScene
  <2>2. pc = "start" /\ rooms' = rooms /\ life' = life
    BY <1>14 DEF UnLinkRoomScene, Starts, connVars, roomVars
  <2>3. QED
    BY <1>13, <2>1, <2>2
<1>15. CASE DisconnectScene
  <2>1. PICK gone : DropLinks(gone)
    BY <1>15 DEF DisconnectScene
  <2>2. /\ pc = "start" /\ rooms' = rooms
        /\ \A d \in Conns : life'[d] = "open" => life[d] = "open"
    BY <1>0, <1>15 DEF DisconnectScene, Starts, roomVars, TypeInv, TypeOK
  <2>3. QED
    BY <1>13, <2>1, <2>2
<1>16. ASSUME NEW r \in Rooms, Logout(r) PROVE LinkedClientsAreInformed'
  <2>1. \A s \in Rooms : rooms'[s] = "available" => rooms[s] = "available"
    BY <1>0, <1>16 DEF Logout, roomVars, TypeInv, TypeOK
  <2>2. QED
    BY <1>16, <2>1, InformUntouched DEF Logout, connVars, memberVars
<1>17. QED
  BY <1>1, <1>2, <1>3, <1>4, <1>5, <1>6, <1>7, <1>8, <1>9, <1>10, <1>11, <1>12, <1>14, <1>15,
     <1>16 DEF Next, EventThread, SyncThread

\* Whoever is linked to an available room and still connected has been sent its
\* ROOMS_INFO since it linked, or is about to be.
THEOREM ClientsAreInformed == Spec => []LinkedClientsAreInformed
<1>1. Init => LinkedClientsAreInformed
  BY DEF Init, LinkedClientsAreInformed
<1>2. QED
  BY InitLiveInv, NextLiveInv, InitLinkInv, NextLinkInv, NextInformed, <1>1, PTL DEF Spec
-----------------------------------------------------------------------------
\* Seen from LinkService: the table of links is the table of their owners.
LinkMap ==
  [r \in Rooms |-> [c \in ClientIds |-> IF roomClients[r][c] = NoFd THEN NoConn ELSE owner[r][c]]]
Sessions == {r \in Rooms : avsSent[r] \in {"login", "keepalive"}}

\* A link that is recorded has an owner, and one that is not has none.
LEMMA LinksAreOwners == ASSUME TypeInv, LinkInv PROVE LinkMap = owner
<1>1. owner \in [Rooms -> [ClientIds -> Conns \cup {NoConn}]]
  BY DEF TypeInv, TypeOK
<1>2. \A r \in Rooms, c \in ClientIds : roomClients[r][c] = NoFd => owner[r][c] = NoConn
  BY DEF LinkInv, OwnersHaveLinks
<1>3. QED
  BY <1>1, <1>2 DEF LinkMap

\* A step that changes links does so as one operation of LinkService.
LEMMA LinkStepsImplement ==
  ASSUME LiveInv, LinkInv, LiveInv', LinkInv', [Next]_vars, UNCHANGED Sessions
  PROVE  [AbstractLinks!Next]_<<LinkMap, Sessions>>
<1>0. TypeInv /\ LinkMap = owner /\ LinkMap' = owner'
  <2>1. LinkMap = owner
    BY LinksAreOwners DEF LiveInv
  <2>2. LinkMap' = owner'
    <3>1. owner' \in [Rooms -> [ClientIds -> Conns \cup {NoConn}]]
      BY DEF LiveInv, TypeInv, TypeOK
    <3>2. \A r \in Rooms, c \in ClientIds : roomClients'[r][c] = NoFd => owner'[r][c] = NoConn
      BY DEF LinkInv, OwnersHaveLinks
    <3>3. QED
      BY <3>1, <3>2 DEF LinkMap
  <2>3. QED
    BY <2>1, <2>2 DEF LiveInv
<1>1. CASE owner' = owner
  BY <1>0, <1>1
<1>2. CASE Starts("LINK_ROOM") /\ RegisterLink(task.conn, task.room)
  <2>1. PICK k \in Conns, r \in Rooms : k = task.conn /\ r = task.room
    BY <1>2, RunningLinkIsTyped
  <2>2. PICK c \in ClientIds : c = client_id[k]
    BY <1>0 DEF TypeInv, TypeOK
  <2>3. owner' = [owner EXCEPT ![r][c] = k]
    BY <1>2, <2>1, <2>2 DEF RegisterLink, UpdateRoomClientList
  <2>4. AbstractLinks!LinkRoom(r, c, k)
    BY <1>0, <2>3 DEF AbstractLinks!LinkRoom, LinkMap, Sessions
  <2>5. QED
    BY <2>4 DEF AbstractLinks!Next
<1>3. CASE UnLinkRoomScene
  <2>1. PICK r \in Rooms, c \in ClientIds : r = task.room /\ c = peer[task.conn]
    <3>1. task \in Tasks /\ task.type = "UNLINK_ROOM"
      BY <1>0, <1>3 DEF UnLinkRoomScene, Starts, TypeInv, TypeOK, SyncThreadOK, NoTask
    <3>2. task.room \in Rooms /\ task.conn \in Conns
      BY <3>1 DEF Tasks
    <3>3. QED
      BY <1>0, <3>2 DEF TypeInv, TypeOK
  <2>2. PICK gone : gone = {<<r, c>>} /\ DropLinks(gone)
    BY <1>3, <2>1 DEF UnLinkRoomScene
  <2>3. owner' = [s \in Rooms |-> [d \in ClientIds |->
                    IF <<s, d>> \in gone THEN NoConn ELSE owner[s][d]]]
    BY <2>2 DEF DropLinks
  <2>4. \A s \in Rooms, d \in ClientIds : <<s, d>> \in gone <=> s = r /\ d = c
    BY <2>2
  <2>5. owner' = [owner EXCEPT ![r][c] = NoConn]
    <3>1. owner' = [s \in Rooms |-> [d \in ClientIds |->
                      IF s = r /\ d = c THEN NoConn ELSE owner[s][d]]]
      BY <2>3, <2>4
    <3>2. owner \in [Rooms -> [ClientIds -> Conns \cup {NoConn}]]
      BY <1>0 DEF TypeInv, TypeOK
    <3>3. \A s \in Rooms : owner'[s] = IF s = r THEN [owner[r] EXCEPT ![c] = NoConn] ELSE owner[s]
      BY <2>1, <3>1, <3>2
    <3>4. QED
      BY <2>1, <3>1, <3>2, <3>3
  <2>6. AbstractLinks!UnlinkRoom(r, c)
    BY <1>0, <2>5 DEF AbstractLinks!UnlinkRoom, LinkMap, Sessions
  <2>7. QED
    BY <2>6 DEF AbstractLinks!Next
<1>4. CASE DisconnectScene
  <2>1. Starts("DISCONNECT")
    BY <1>4 DEF DisconnectScene
  <2>2. PICK k \in Conns : k = task.conn
    <3>1. task \in Tasks /\ task.type = "DISCONNECT"
      BY <1>0, <2>1 DEF Starts, TypeInv, TypeOK, SyncThreadOK, NoTask
    <3>2. QED
      BY <3>1 DEF Tasks
  <2>3. PICK gone : gone = LinksBySocket(k) /\ DropLinks(gone)
    BY <1>4, <2>2 DEF DisconnectScene
  <2>4. \A r \in Rooms, c \in ClientIds : <<r, c>> \in gone <=> owner[r][c] = k
    BY <2>1, <2>2, <2>3, FoundLinksAreOwn
  <2>5. owner' = [r \in Rooms |-> [c \in ClientIds |->
                    IF <<r, c>> \in gone THEN NoConn ELSE owner[r][c]]]
    BY <2>3 DEF DropLinks
  <2>6. owner' = [r \in Rooms |-> [c \in ClientIds |->
                    IF owner[r][c] = k THEN NoConn ELSE owner[r][c]]]
    BY <2>4, <2>5
  <2>7. AbstractLinks!Disconnect(k)
    BY <1>0, <2>6 DEF AbstractLinks!Disconnect, LinkMap, Sessions
  <2>8. QED
    BY <2>7 DEF AbstractLinks!Next
<1>5. QED
  BY <1>1, <1>2, <1>3, <1>4, LinksChangeByTasks

\* A step that changes sessions begins one for a room that is linked, or ends one
\* of a room that is not.
LEMMA SessionStepsImplement ==
  ASSUME IInv, LinkInv, [Next]_vars, avsSent' # avsSent
  PROVE  [AbstractLinks!Next]_<<LinkMap, Sessions>>
<1>0. TypeInv /\ RoomInv
  BY DEF IInv, LiveInv
<1>1. \A r \in Rooms : AbstractLinks!Linked(r) <=> Linked(r)
  BY DEF AbstractLinks!Linked, Linked, LinkInv, LinksBelongToTheirSocket
<1>2. CASE SendLogin
  <2>1. /\ UNCHANGED <<roomClients, owner>> /\ pc = "sendLogin" /\ logoutTodo = {}
        /\ task.type = "LINK_ROOM" /\ task \in Tasks
        /\ avsSent' = [avsSent EXCEPT ![task.room] = "login"]
    BY <1>0, <1>2 DEF SendLogin, memberVars, TypeInv, TypeOK, SyncThreadOK, NoTask
  <2>2. PICK r \in Rooms : r = task.room
    BY <2>1 DEF Tasks
  <2>3. Linked(r)
    BY <1>0, <2>1, <2>2 DEF RoomInv, LoginIsForRoom, RoomExistsIffLinked
  <2>4. LinkMap' = LinkMap
    BY <2>1 DEF LinkMap
  <2>5. Sessions' = Sessions \cup {r}
    BY <1>0, <2>1, <2>2 DEF Sessions, TypeInv, TypeOK
  <2>6. AbstractLinks!LogIn(r)
    BY <1>1, <2>3, <2>4, <2>5 DEF AbstractLinks!LogIn, LinkMap, Sessions
  <2>7. QED
    BY <2>6 DEF AbstractLinks!Next
<1>3. ASSUME NEW r \in Rooms, Logout(r)
      PROVE  [AbstractLinks!Next]_<<LinkMap, Sessions>>
  <2>1. /\ UNCHANGED <<roomClients, owner>> /\ pc = "logout" /\ r \in logoutTodo
        /\ avsSent' = [avsSent EXCEPT ![r] = "logout"]
    BY <1>0, <1>3 DEF Logout, memberVars, roomVars, RoomInv, RoomsInTransit
  <2>2. r \in Sessions /\ ~ Linked(r)
    BY <1>0, <2>1 DEF RoomInv, RoomsInTransit, AvsSessionMatchesRoom, Sessions
  <2>3. LinkMap' = LinkMap
    BY <2>1 DEF LinkMap
  <2>4. Sessions' = Sessions \ {r}
    BY <1>0, <2>1 DEF Sessions, TypeInv, TypeOK
  <2>5. AbstractLinks!LogOut(r)
    BY <1>1, <2>2, <2>3, <2>4 DEF AbstractLinks!LogOut, LinkMap, Sessions
  <2>6. QED
    BY <2>5 DEF AbstractLinks!Next
<1>4. CASE SendKeepalivePacketToAllAvs
  <2>1. /\ UNCHANGED <<roomClients, owner>>
        /\ \A r \in Rooms : avsSent'[r] = IF rooms[r] = "available" THEN "keepalive" ELSE avsSent[r]
    BY <1>4 DEF SendKeepalivePacketToAllAvs, RoomsToKeepAlive, memberVars
  <2>2. \A r \in Rooms : rooms[r] = "available" => avsSent[r] \in {"login", "keepalive"}
    BY <1>0 DEF RoomInv, AvsSessionMatchesRoom, TypeInv, SyncThreadOK
  <2>3. LinkMap' = LinkMap
    BY <2>1 DEF LinkMap
  <2>4. Sessions' = Sessions
    BY <2>1, <2>2 DEF Sessions
  <2>5. QED
    BY <2>3, <2>4
<1>5. ASSUME NEW f \in Fds, NEW k \in Conns, NEW c \in Clients, AddTermination(f, k, c)
      PROVE  FALSE
  BY <1>5 DEF AddTermination, roomVars
<1>6. ASSUME NEW k \in Conns, DelTermination(k) \/ TcpParamScene(k) PROVE FALSE
  BY <1>6 DEF DelTermination, TcpParamScene, roomVars
<1>7. ASSUME NEW r \in Rooms, UdpParamScene(r) PROVE FALSE
  BY <1>7 DEF UdpParamScene, roomVars
<1>8. ASSUME NEW c \in ClientIds, SendRoomUserInfo(c) PROVE FALSE
  BY <1>8 DEF SendRoomUserInfo, roomVars
<1>9. ASSUME \/ TakeTask \/ LoginScene \/ LinkUnknownRoom \/ LinkRoomByLogin \/ LinkAvailableRoom
             \/ Login \/ DropUsersInfo \/ UsersInfoScene \/ UnLinkRoomScene \/ DisconnectScene
             \/ UNCHANGED vars
      PROVE  FALSE
  BY <1>9 DEF TakeTask, LoginScene, LinkUnknownRoom, LinkRoomByLogin, LinkAvailableRoom, Login,
     DropUsersInfo, UsersInfoScene, UnLinkRoomScene, DisconnectScene, vars, roomVars
<1>10. QED
  BY <1>2, <1>3, <1>4, <1>5, <1>6, <1>7, <1>8, <1>9 DEF Next, EventThread, SyncThread

\* RoomMgr implements LinkService: links kept by socket number behave as links kept
\* by connection, and sessions at the AVS begin and end with them.
THEOREM ImplementsLinks == Spec => ImplementsLinkService
<1>1. Init => AbstractLinks!Init
  BY DEF Init, AbstractLinks!Init
<1>2. IInv /\ LinkInv /\ IInv' /\ LinkInv' /\ [Next]_vars =>
        [AbstractLinks!Next]_<<LinkMap, Sessions>>
  <2> SUFFICES ASSUME IInv, LinkInv, IInv', LinkInv', [Next]_vars
               PROVE  [AbstractLinks!Next]_<<LinkMap, Sessions>>
    OBVIOUS
  <2>1. CASE avsSent' = avsSent
    <3>1. UNCHANGED Sessions
      BY <2>1 DEF Sessions
    <3>2. LiveInv /\ LiveInv'
      BY DEF IInv
    <3>3. QED
      BY <3>1, <3>2, LinkStepsImplement
  <2>2. CASE avsSent' # avsSent
    BY <2>2, SessionStepsImplement
  <2>3. QED
    BY <2>1, <2>2
<1>3. QED
  BY InitIInv, NextIInv, InitLinkInv, NextLinkInv, <1>1, <1>2, PTL
     DEF Spec, ImplementsLinkService, AbstractLinks!Spec, LinkMap, Sessions, IInv
=============================================================================
